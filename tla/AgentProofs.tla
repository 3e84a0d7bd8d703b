----------------------------- MODULE AgentProofs -----------------------------
(***************************************************************************)
(* Proofs about two parts of the Agent: AgentIngest, for any number of     *)
(* requests and keys, any limits and any page size, and AgentTerminals,    *)
(* for any number of connections, units and any buffer size.               *)
(***************************************************************************)
EXTENDS AgentIngest, AgentTerminals, FiniteSetTheorems, WellFoundedInduction, TLAPS

-----------------------------------------------------------------------------
(* Least and greatest keys.                                                *)

LEMMA LeastNatural ==
  ASSUME NEW T \in SUBSET Nat, T # {}
  PROVE  \E x \in T : \A y \in T : x <= y
<1> DEFINE R == OpToRel(<, Nat)
<1>1. \A x, y \in Nat : x < y => <<x, y>> \in R
  BY DEF OpToRel
<1>2. IsWellFoundedOn(R, Nat)
  BY NatLessThanWellFounded
<1> HIDE DEF R
<1>3. PICK x \in T : \A y \in T : <<y, x>> \notin R
  BY <1>2, WFMin
<1>4. \A y \in T : ~(y < x)
  BY <1>1, <1>3, Zenon
<1> QED BY <1>3, <1>4

\* A finite set of keys has a greatest one: the one with the fewest above it.
LEMMA GreatestKey ==
  ASSUME NEW S \in SUBSET Nat, IsFiniteSet(S), S # {}
  PROVE  LastKey(S) \in S /\ \A j \in S : j <= LastKey(S)
<1> DEFINE Above(k) == {j \in S : k < j}
           T == {Cardinality(Above(k)) : k \in S}
<1>1. \A k \in S : Above(k) \in SUBSET S /\ IsFiniteSet(Above(k)) /\ Cardinality(Above(k)) \in Nat
  <2> SUFFICES ASSUME NEW k \in S
               PROVE  Above(k) \in SUBSET S /\ IsFiniteSet(Above(k)) /\ Cardinality(Above(k)) \in Nat
    OBVIOUS
  <2>1. Above(k) \in SUBSET S
    OBVIOUS
  <2> HIDE DEF Above
  <2> QED BY <2>1, FS_Subset, FS_CardinalityType
<1>2. T \in SUBSET Nat /\ T # {}
  BY <1>1
<1>3. PICK n \in T : \A m \in T : n <= m
  <2> HIDE DEF T
  <2> QED BY <1>2, LeastNatural
<1>4. PICK k \in S : n = Cardinality(Above(k))
  BY <1>3
<1>5. ASSUME NEW j \in S, ~(j <= k) PROVE FALSE
  <2>0. k < j /\ ~(j < j) /\ \A x \in S : j < x => k < x
    BY <1>5
  <2>1. Above(j) \in SUBSET Above(k) /\ j \in Above(k) /\ j \notin Above(j)
    BY <2>0, Zenon
  <2>2. Cardinality(Above(j)) \in T
    OBVIOUS
  <2>3. Cardinality(Above(k)) <= Cardinality(Above(j))
    BY <1>3, <1>4, <2>2
  <2>4. IsFiniteSet(Above(k)) /\ Cardinality(Above(j)) \in Nat /\ Cardinality(Above(k)) \in Nat
    BY <1>1
  <2> HIDE DEF Above
  <2>5. Cardinality(Above(j)) <= Cardinality(Above(k))
    BY <2>1, <2>4, FS_Subset
  <2>6. Above(k) = Above(j)
    BY <2>1, <2>3, <2>4, <2>5, FS_Subset
  <2> QED BY <2>1, <2>6
<1>6. \E x \in S : \A j \in S : j <= x
  BY <1>5
<1> QED BY <1>6 DEF LastKey

-----------------------------------------------------------------------------
(* AgentIngest: reports and the capacity counter.                          *)

Reading == [observed: Nat, ttl: Nat, value: Nat]
ReqRow == [pc: {"new", "body", "read", "swap"} \cup Answers, input: Inputs, seen: Nat, tries: Nat]
PageRow == [pc: {"idle", "open", "done"}, cursor: Nat, items: SUBSET Keys,
            steady: SUBSET Keys, twice: BOOLEAN]

InHand == {"body", "read", "swap"}
UnderWay == {r \in Reqs : req[r].pc \in InHand}

\* A swap is tried only with a report newer than the row that was read.
Ahead(r) == req[r].pc = "swap" => req[r].seen < req[r].input.observed

Counted == inflight = Cardinality(UnderWay) /\ inflight <= MaxIngest
SeriesBounded == Cardinality(Rows \ LogKeys) <= MaxSeries

IngestInv ==
  /\ IngestTypeOK /\ AckedKept /\ Counted /\ SeriesBounded
  /\ \A r \in Reqs : Ahead(r)

LEMMA IngestTypes ==
  IngestTypeOK <=> /\ table \in [Keys -> Reading] /\ req \in [Reqs -> ReqRow] /\ inflight \in Nat
                   /\ kept \subseteq Reqs /\ page \in PageRow /\ now \in Nat
  BY Zenon DEF IngestTypeOK, Reading, ReqRow, PageRow

\* Reports are of a positive time.
LEMMA InputTypes ==
  ASSUME NEW i \in Inputs
  PROVE  /\ i.key \in Keys /\ i.observed \in Nat /\ i.observed > 0
         /\ Content(i) \in Reading /\ Content(i).observed = i.observed
         /\ Content(i) # NoReading /\ NoReading \in Reading /\ NoReading.observed = 0
<1>1. i.key \in Keys /\ i.observed \in Nat \ {0} /\ i.ttl \in Nat /\ i.value \in Nat
  BY IngestAssumption
<1>2. Content(i) \in Reading /\ Content(i).observed = i.observed
  BY <1>1 DEF Content, Reading
<1>3. NoReading \in Reading /\ NoReading.observed = 0
  BY DEF NoReading, Reading
<1> QED BY <1>1, <1>2, <1>3

LEMMA Following ==
  ASSUME page \in PageRow, NEW tab, NEW time, Follow(tab, time)
  PROVE  /\ page' \in PageRow /\ page'.pc = page.pc /\ page'.cursor = page.cursor
         /\ page'.items = page.items /\ page'.twice = page.twice
         /\ page.pc = "open" => page'.steady = {k \in page.steady : Visible(tab[k], time)}
         /\ page.pc # "open" => page' = page
<1> DEFINE S == {k \in page.steady : Visible(tab[k], time)}
<1>1. S \in SUBSET Keys
  BY DEF PageRow
<1>2. page.pc = "open" => page' = [page EXCEPT !.steady = S]
  BY DEF Follow
<1> HIDE DEF S
<1>3. [page EXCEPT !.steady = S] \in PageRow
  BY <1>1, Zenon DEF PageRow
<1>4. LET q == [page EXCEPT !.steady = S] IN
        q.pc = page.pc /\ q.cursor = page.cursor /\ q.items = page.items /\ q.twice = page.twice
          /\ q.steady = S
  BY DEF PageRow
<1>5. page.pc # "open" => page' = page
  BY DEF Follow
<1>6. page.pc = "open" => page' \in PageRow /\ page'.pc = page.pc /\ page'.cursor = page.cursor
         /\ page'.items = page.items /\ page'.twice = page.twice /\ page'.steady = S
  BY <1>2, <1>3, <1>4, Zenon
<1>7. CASE page.pc = "open"
  BY <1>6, <1>7 DEF S
<1>8. CASE page.pc # "open"
  BY <1>5, <1>8
<1> QED BY <1>7, <1>8

\* One request moves on with its own report.
LEMMA ReqMoved ==
  ASSUME IngestTypeOK, NEW r \in Reqs, NEW row \in ReqRow, row.input = req[r].input,
         req' = [req EXCEPT ![r] = row]
  PROVE  /\ req' \in [Reqs -> ReqRow] /\ req'[r] = row
         /\ \A q \in Reqs : req'[q].input = req[q].input /\ (q # r => req'[q] = req[q])
         /\ UnderWay' = IF row.pc \in InHand THEN UnderWay \cup {r} ELSE UnderWay \ {r}
<1>1. req \in [Reqs -> ReqRow]
  BY IngestTypes
<1>2. req' \in [Reqs -> ReqRow] /\ req'[r] = row /\ \A q \in Reqs : q # r => req'[q] = req[q]
  BY <1>1
<1> QED BY <1>2 DEF UnderWay

LEMMA FiniteUnderWay ==
  IsFiniteSet(UnderWay) /\ Cardinality(UnderWay) \in Nat
<1>1. UnderWay \in SUBSET Reqs
  BY DEF UnderWay
<1> QED BY <1>1, IngestAssumption, FS_Subset, FS_CardinalityType

\* A request that is answered gives its slot back, once.
LEMMA Answered1 ==
  ASSUME IngestInv, NEW r \in Reqs, req[r].pc \in InHand, NEW pc \in Answers, Answer(r, pc)
  PROVE  /\ req' \in [Reqs -> ReqRow] /\ inflight' \in Nat
         /\ \A q \in Reqs : req'[q].input = req[q].input
         /\ Counted' /\ \A q \in Reqs : Ahead(q)'
<1> DEFINE row == [req[r] EXCEPT !.pc = pc, !.seen = 0, !.tries = 0]
<1>0. IngestTypeOK /\ req[r] \in ReqRow /\ req \in [Reqs -> ReqRow] /\ inflight \in Nat
      /\ MaxIngest \in Nat /\ Counted
  BY IngestTypes, IngestAssumption DEF IngestInv
<1>1. row \in ReqRow /\ row.input = req[r].input /\ row.pc = pc
  BY <1>0 DEF ReqRow
<1>2. req' = [req EXCEPT ![r] = row]
  BY <1>0 DEF Answer
<1> HIDE DEF row
<1>3. /\ req' \in [Reqs -> ReqRow] /\ req'[r] = row
      /\ \A q \in Reqs : req'[q].input = req[q].input /\ (q # r => req'[q] = req[q])
      /\ UnderWay' = IF row.pc \in InHand THEN UnderWay \cup {r} ELSE UnderWay \ {r}
  BY <1>0, <1>1, <1>2, ReqMoved
<1>4. pc \notin InHand /\ pc # "swap" /\ r \in UnderWay
  BY DEF InHand, Answers, UnderWay
<1>5. UnderWay' = UnderWay \ {r}
  BY <1>1, <1>3, <1>4
<1>6. Cardinality(UnderWay \ {r}) = Cardinality(UnderWay) - 1 /\ Cardinality(UnderWay \ {r}) \in Nat
  BY <1>4, FiniteUnderWay, FS_RemoveElement, FS_CardinalityType
<1>7. inflight' = inflight - 1
  BY DEF Answer
<1>8. Counted' /\ inflight' \in Nat
  BY <1>0, <1>5, <1>6, <1>7 DEF Counted
<1>9. \A q \in Reqs : Ahead(q)'
  BY <1>1, <1>3, <1>4 DEF Ahead, IngestInv
<1> QED BY <1>3, <1>8, <1>9

\* A request that stays under way.
LEMMA Continued ==
  ASSUME IngestInv, NEW r \in Reqs, req[r].pc \in InHand, NEW row \in ReqRow, row.pc \in InHand,
         row.input = req[r].input, row.pc = "swap" => row.seen < row.input.observed,
         req' = [req EXCEPT ![r] = row], UNCHANGED inflight
  PROVE  /\ req' \in [Reqs -> ReqRow] /\ inflight' \in Nat
         /\ \A q \in Reqs : req'[q].input = req[q].input
         /\ Counted' /\ \A q \in Reqs : Ahead(q)'
<1>0. IngestTypeOK /\ inflight \in Nat /\ Counted
  BY IngestTypes DEF IngestInv
<1>1. /\ req' \in [Reqs -> ReqRow] /\ req'[r] = row
      /\ \A q \in Reqs : req'[q].input = req[q].input /\ (q # r => req'[q] = req[q])
      /\ UnderWay' = IF row.pc \in InHand THEN UnderWay \cup {r} ELSE UnderWay \ {r}
  BY <1>0, ReqMoved
<1>2. UnderWay' = UnderWay
  BY <1>1 DEF UnderWay
<1>3. Counted'
  BY <1>0, <1>2 DEF Counted
<1>4. \A q \in Reqs : Ahead(q)'
  BY <1>1 DEF Ahead, IngestInv
<1> QED BY <1>0, <1>1, <1>3, <1>4

\* The table stays: so does what was acknowledged.
LEMMA TableKept ==
  ASSUME IngestInv, UNCHANGED table, kept' \subseteq Reqs,
         \A q \in Reqs : req'[q].input = req[q].input,
         \A q \in kept' : \/ q \in kept
                          \/ table[req[q].input.key] = Content(req[q].input)
  PROVE  AckedKept' /\ SeriesBounded'
<1>0. IngestTypeOK /\ kept \subseteq Reqs /\ \A q \in Reqs : req[q].input \in Inputs
  BY IngestTypes DEF IngestInv, ReqRow
<1>1. SeriesBounded'
  BY DEF IngestInv, SeriesBounded, Rows
<1>2. ASSUME NEW q \in kept' PROVE
        LET i == req[q].input IN
        /\ table[i.key].observed >= i.observed
        /\ table[i.key].observed = i.observed => table[i.key] = Content(i)
  <2>1. CASE q \in kept
    BY <2>1 DEF IngestInv, AckedKept
  <2>2. CASE table[req[q].input.key] = Content(req[q].input)
    BY <1>0, <2>2, InputTypes
  <2> QED BY <1>2, <2>1, <2>2
<1>3. AckedKept'
  BY <1>0, <1>2 DEF AckedKept
<1> QED BY <1>1, <1>3

LEMMA FiniteRows ==
  ASSUME NEW S \in SUBSET Keys
  PROVE  IsFiniteSet(S) /\ Cardinality(S) \in Nat
  BY IngestAssumption, FS_Subset, FS_CardinalityType

\* compare_and_swap: the report replaces an older row, or is inserted where no
\* acknowledged report can be.
LEMMA TablePut ==
  ASSUME IngestInv, NEW r \in Reqs, req[r].pc = "swap", Swaps(req[r].input.key, req[r].seen),
         table' = [table EXCEPT ![req[r].input.key] = Content(req[r].input)],
         kept' = kept \cup {r}, \A q \in Reqs : req'[q].input = req[q].input
  PROVE  table' \in [Keys -> Reading] /\ AckedKept' /\ SeriesBounded'
<1> DEFINE i == req[r].input
           k == i.key
<1>0. /\ IngestTypeOK /\ kept \subseteq Reqs /\ \A q \in Reqs : req[q].input \in Inputs
      /\ table \in [Keys -> Reading] /\ req[r].seen \in Nat /\ MaxSeries \in Nat
  BY IngestTypes, IngestAssumption DEF IngestInv, ReqRow
<1>1. \A q \in Reqs : LET x == req[q].input IN
        /\ x.key \in Keys /\ x.observed \in Nat /\ x.observed > 0
        /\ Content(x) \in Reading /\ Content(x).observed = x.observed
        /\ Content(x) # NoReading /\ NoReading.observed = 0
  BY <1>0, InputTypes
<1>2. table' \in [Keys -> Reading] /\ table'[k] = Content(i)
      /\ \A x \in Keys : x # k => table'[x] = table[x]
  BY <1>0, <1>1
<1>3. req[r].seen < i.observed
  BY DEF IngestInv, Ahead
<1>4. \A q \in kept : req[q].input.key = k =>
        /\ table[k].observed >= req[q].input.observed
        /\ table[k] # NoReading
  BY <1>0, <1>1 DEF IngestInv, AckedKept
<1>5. \A q \in kept : req[q].input.key = k => req[q].input.observed < i.observed
  <2>1. CASE req[r].seen = 0
    BY <1>4, <2>1 DEF Swaps, MayInsert
  <2>2. CASE req[r].seen # 0
    <3>1. table[k].observed = req[r].seen
      BY <2>2 DEF Swaps, MayUpdate
    <3> QED BY <1>0, <1>1, <1>3, <1>4, <3>1
  <2> QED BY <2>1, <2>2
<1>6. ASSUME NEW q \in kept' PROVE
        LET x == req[q].input IN
        /\ table'[x.key].observed >= x.observed
        /\ table'[x.key].observed = x.observed => table'[x.key] = Content(x)
  <2>1. CASE q = r
    BY <1>1, <1>2, <2>1
  <2>2. CASE q \in kept /\ req[q].input.key # k
    BY <1>0, <1>1, <1>2, <2>2 DEF IngestInv, AckedKept
  <2>3. CASE q \in kept /\ req[q].input.key = k
    BY <1>0, <1>1, <1>2, <1>5, <2>3
  <2> QED BY <1>6, <2>1, <2>2, <2>3
<1>7. AckedKept'
  BY <1>0, <1>6 DEF AckedKept
<1>8. SeriesBounded'
  <2>0. Rows' = Rows \cup {k} /\ k \in Keys
    BY <1>1, <1>2 DEF Rows
  <2>1. CASE k \in LogKeys \/ k \in Rows
    <3>1. (Rows \ LogKeys)' = Rows \ LogKeys
      BY <2>0, <2>1
    <3> QED BY <3>1 DEF IngestInv, SeriesBounded
  <2>2. CASE k \notin LogKeys /\ k \notin Rows
    <3>1. table[k] = NoReading
      BY <1>1, <2>2 DEF Rows
    <3>2. Cardinality(Rows \ LogKeys) < MaxSeries
      BY <2>2, <3>1 DEF Swaps, MayInsert, MayUpdate
    <3>3. (Rows \ LogKeys)' = (Rows \ LogKeys) \cup {k}
      BY <2>0, <2>2
    <3>4. IsFiniteSet(Rows \ LogKeys) /\ Cardinality(Rows \ LogKeys) \in Nat
      BY FiniteRows DEF Rows
    <3>5. Cardinality((Rows \ LogKeys) \cup {k}) = Cardinality(Rows \ LogKeys) + 1
      BY <2>2, <3>4, FS_AddElement
    <3>6. Cardinality((Rows \ LogKeys) \cup {k}) <= MaxSeries
      BY <1>0, <3>2, <3>4, <3>5
    <3>7. Cardinality((Rows \ LogKeys)') <= MaxSeries
      BY <3>3, <3>6, Zenon
    <3> QED BY <3>7 DEF SeriesBounded
  <2> QED BY <2>1, <2>2
<1> QED BY <1>2, <1>7, <1>8

LEMMA ExpiredDeleted ==
  ASSUME IngestInv, NEW k \in Keys, DeleteExpired(k)
  PROVE  IngestInv'
<1>0. /\ IngestTypeOK /\ kept \subseteq Reqs /\ \A q \in Reqs : req[q].input \in Inputs
      /\ table \in [Keys -> Reading] /\ MaxSeries \in Nat /\ NoReading \in Reading
      /\ page \in PageRow
  BY IngestTypes, IngestAssumption DEF IngestInv, ReqRow, NoReading, Reading
<1>1. table' = [table EXCEPT ![k] = NoReading] /\ kept' = {r \in kept : req[r].input.key # k}
      /\ UNCHANGED <<req, inflight, now>> /\ Follow(table', now)
  BY DEF DeleteExpired
<1>2. table' \in [Keys -> Reading] /\ table'[k] = NoReading
      /\ \A x \in Keys : x # k => table'[x] = table[x]
  BY <1>0, <1>1
<1>3. page' \in PageRow
  BY <1>0, <1>1, Following
<1>4. IngestTypeOK'
  BY <1>0, <1>1, <1>2, <1>3 DEF IngestTypeOK, Reading, PageRow
<1>5. AckedKept'
  BY <1>0, <1>1, <1>2, InputTypes DEF IngestInv, AckedKept
<1>6. SeriesBounded'
  <2>1. (Rows \ LogKeys)' \in SUBSET (Rows \ LogKeys)
    BY <1>2 DEF Rows
  <2>2. IsFiniteSet(Rows \ LogKeys) /\ Cardinality(Rows \ LogKeys) \in Nat
    BY FiniteRows DEF Rows
  <2>3. Cardinality((Rows \ LogKeys)') <= Cardinality(Rows \ LogKeys)
        /\ Cardinality((Rows \ LogKeys)') \in Nat
    BY <2>1, <2>2, FS_Subset, FS_CardinalityType
  <2> QED BY <1>0, <2>2, <2>3 DEF IngestInv, SeriesBounded
<1>7. Counted' /\ \A r \in Reqs : Ahead(r)'
  BY <1>1 DEF IngestInv, Counted, UnderWay, Ahead
<1> QED BY <1>4, <1>5, <1>6, <1>7 DEF IngestInv

LEMMA PageListed ==
  ASSUME IngestTypeOK, ListPage
  PROVE  /\ page' \in PageRow
         /\ LET S == After(page.cursor)
                items == FirstOf(S, PageLimit) IN
            /\ page'.pc = IF NextCursor(S) = 0 THEN "done" ELSE "open"
            /\ page'.cursor = NextCursor(S) /\ page'.items = page.items \cup items
            /\ page'.steady = IF page.pc = "idle" THEN After(0) ELSE page.steady
            /\ page'.twice <=> page.twice \/ page.items \cap items # {}
<1> DEFINE S == After(page.cursor)
           items == FirstOf(S, PageLimit)
           pc == IF NextCursor(S) = 0 THEN "done" ELSE "open"
           steady == IF page.pc = "idle" THEN After(0) ELSE page.steady
           twice == page.twice \/ page.items \cap items # {}
<1>0. page \in PageRow /\ PageLimit \in Nat /\ PageLimit > 0
  BY IngestTypes, IngestAssumption
<1>1. S \in SUBSET Keys /\ items \in SUBSET S /\ After(0) \in SUBSET Keys
  BY DEF After, Rows, FirstOf
<1>2. page.items \cup items \in SUBSET Keys /\ steady \in SUBSET Keys /\ pc \in {"done", "open"}
  BY <1>0, <1>1 DEF PageRow
<1>3. twice \in BOOLEAN
  OBVIOUS
<1>4. page' = [pc |-> pc, cursor |-> NextCursor(S), items |-> page.items \cup items,
               steady |-> steady, twice |-> twice]
  BY Zenon DEF ListPage
<1>5. NextCursor(S) \in Nat
  <2>1. CASE Cardinality(S) > PageLimit
    <3>1. IsFiniteSet(S) /\ IsFiniteSet(items) /\ S \in SUBSET Nat /\ items \in SUBSET Nat
      BY <1>1, FiniteRows, IngestAssumption
    <3>2. S # {}
      <4>1. Cardinality({}) = 0
        BY FS_EmptySet
      <4> QED BY <1>0, <2>1, <4>1
    <3>3. PICK x \in S : \A y \in S : x <= y
      <4> HIDE DEF S
      <4> QED BY <3>1, <3>2, LeastNatural
    <3>4. {j \in S : j < x} = {}
      BY <3>1, <3>3
    <3>5. x \in items
      BY <1>0, <3>3, <3>4, FS_EmptySet DEF FirstOf
    <3>6. LastKey(items) \in items
      <4> HIDE DEF items
      <4> QED BY <3>1, <3>5, GreatestKey
    <3> QED BY <2>1, <3>1, <3>6 DEF NextCursor
  <2>2. CASE ~(Cardinality(S) > PageLimit)
    BY <2>2 DEF NextCursor
  <2> QED BY <2>1, <2>2
<1> HIDE DEF S, items, pc, steady, twice
<1>6. page' \in PageRow
  BY <1>2, <1>3, <1>4, <1>5, Zenon DEF PageRow
<1>7. page'.pc = pc /\ page'.cursor = NextCursor(S) /\ page'.items = page.items \cup items
      /\ page'.steady = steady /\ page'.twice = twice
  BY <1>4
<1>8. page'.twice <=> twice
  BY <1>3, <1>6, <1>7, Zenon DEF PageRow
<1> QED BY <1>6, <1>7, <1>8, Zenon DEF S, items, pc, steady, twice

LEMMA IngestInitInv == IngestInit => IngestInv
<1> SUFFICES ASSUME IngestInit PROVE IngestInv
  OBVIOUS
<1>1. req \in [Reqs -> ReqRow] /\ \A r \in Reqs : req[r].pc = "new"
  BY DEF IngestInit, ReqRow
<1>2. table \in [Keys -> Reading] /\ Rows = {}
  BY DEF IngestInit, Reading, NoReading, Rows
<1>3. page \in PageRow
  <2>1. {} \in SUBSET Keys /\ 0 \in Nat
    OBVIOUS
  <2> QED BY <2>1, Zenon DEF IngestInit, NoPage, PageRow
<1>4. IngestTypeOK
  BY <1>1, <1>2, <1>3, IngestTypes DEF IngestInit
<1>5. UnderWay = {} /\ \A r \in Reqs : Ahead(r)
  BY <1>1 DEF UnderWay, InHand, Ahead
<1>6. Counted
  BY <1>5, FS_EmptySet, IngestAssumption DEF Counted, IngestInit
<1>7. SeriesBounded
  <2>1. Rows \ LogKeys = {}
    BY <1>2
  <2>2. Cardinality(Rows \ LogKeys) = 0
    BY <2>1, FS_EmptySet
  <2> QED BY <2>2, IngestAssumption DEF SeriesBounded
<1>8. AckedKept
  BY DEF AckedKept, IngestInit
<1> QED BY <1>4, <1>5, <1>6, <1>7, <1>8 DEF IngestInv

\* Admission takes a slot, unless all are taken.
LEMMA AdmitStep ==
  ASSUME IngestInv, NEW r \in Reqs, Admit(r)
  PROVE  IngestInv'
<1>0. /\ IngestTypeOK /\ req[r] \in ReqRow /\ req \in [Reqs -> ReqRow] /\ inflight \in Nat
      /\ MaxIngest \in Nat /\ Counted /\ page \in PageRow /\ kept \subseteq Reqs
      /\ table \in [Keys -> Reading] /\ now \in Nat /\ r \notin UnderWay
  BY IngestTypes, IngestAssumption DEF IngestInv, Admit, UnderWay, InHand
<1>1. UNCHANGED <<table, kept, page, now>>
  BY DEF Admit
<1>2. ASSUME NEW pc \in {"refused", "body"}, Goto(r, pc)
      PROVE  /\ req' \in [Reqs -> ReqRow]
             /\ \A q \in Reqs : req'[q].input = req[q].input
             /\ \A q \in Reqs : Ahead(q)'
             /\ UnderWay' = IF pc \in InHand THEN UnderWay \cup {r} ELSE UnderWay \ {r}
  <2> DEFINE row == [req[r] EXCEPT !.pc = pc]
  <2>1. row \in ReqRow /\ row.input = req[r].input /\ row.pc = pc
    BY <1>0 DEF ReqRow, Answers
  <2>2. req' = [req EXCEPT ![r] = row]
    BY <1>0, <1>2 DEF Goto
  <2> HIDE DEF row
  <2>3. /\ req' \in [Reqs -> ReqRow] /\ req'[r] = row
        /\ \A q \in Reqs : req'[q].input = req[q].input /\ (q # r => req'[q] = req[q])
        /\ UnderWay' = IF row.pc \in InHand THEN UnderWay \cup {r} ELSE UnderWay \ {r}
    BY <1>0, <2>1, <2>2, ReqMoved
  <2>4. \A q \in Reqs : Ahead(q)'
    BY <2>1, <2>3 DEF Ahead, IngestInv
  <2> QED BY <2>1, <2>3, <2>4
<1>3. /\ req' \in [Reqs -> ReqRow] /\ inflight' \in Nat /\ Counted'
      /\ \A q \in Reqs : req'[q].input = req[q].input
      /\ \A q \in Reqs : Ahead(q)'
  <2>1. CASE inflight >= MaxIngest
    <3>1. Goto(r, "refused") /\ inflight' = inflight
      BY <2>1 DEF Admit
    <3>2. UnderWay' = UnderWay
      BY <1>0, <1>2, <3>1 DEF InHand
    <3> QED BY <1>0, <1>2, <3>1, <3>2 DEF Counted
  <2>2. CASE ~(inflight >= MaxIngest)
    <3>1. Goto(r, "body") /\ inflight' = inflight + 1
      BY <2>2 DEF Admit
    <3>2. UnderWay' = UnderWay \cup {r}
      BY <1>2, <3>1 DEF InHand
    <3>3. Cardinality(UnderWay \cup {r}) = Cardinality(UnderWay) + 1
      BY <1>0, FiniteUnderWay, FS_AddElement
    <3>4. Counted' /\ inflight' \in Nat
      BY <1>0, <2>2, <3>1, <3>2, <3>3, FiniteUnderWay DEF Counted
    <3> QED BY <1>2, <3>1, <3>4
  <2> QED BY <2>1, <2>2
<1>4. AckedKept' /\ SeriesBounded'
  BY <1>0, <1>1, <1>3, TableKept
<1>5. IngestTypeOK'
  BY <1>0, <1>1, <1>3 DEF IngestTypeOK, ReqRow
<1> QED BY <1>3, <1>4, <1>5 DEF IngestInv

\* The steps of a request that leave the table as it is.
LEMMA RequestStep ==
  ASSUME IngestInv, NEW r \in Reqs,
         BodyRefused(r) \/ BeginUpsert(r) \/ ReadRow(r) \/ StorageFails(r)
  PROVE  IngestInv'
<1>0. /\ IngestTypeOK /\ req[r] \in ReqRow /\ req \in [Reqs -> ReqRow] /\ page \in PageRow
      /\ kept \subseteq Reqs /\ table \in [Keys -> Reading] /\ now \in Nat /\ req[r].input \in Inputs
      /\ req[r].input.key \in Keys
  BY IngestTypes, InputTypes DEF IngestInv, ReqRow
<1>1. UNCHANGED <<table, page, now>> /\ req[r].pc \in InHand
  BY DEF BodyRefused, BeginUpsert, ReadRow, StorageFails, InHand
<1>2. ASSUME NEW row, row \in ReqRow, row.pc \in InHand,
             row.input = req[r].input, row.pc = "swap" => row.seen < row.input.observed,
             req' = [req EXCEPT ![r] = row], UNCHANGED inflight, UNCHANGED kept
      PROVE  IngestInv'
  <2>1. /\ req' \in [Reqs -> ReqRow] /\ inflight' \in Nat
        /\ \A q \in Reqs : req'[q].input = req[q].input
        /\ Counted' /\ \A q \in Reqs : Ahead(q)'
    BY <1>1, <1>2, Continued
  <2>2. AckedKept' /\ SeriesBounded'
    BY <1>0, <1>1, <1>2, <2>1, TableKept
  <2>3. IngestTypeOK'
    BY <1>0, <1>1, <1>2, <2>1 DEF IngestTypeOK, ReqRow
  <2> QED BY <2>1, <2>2, <2>3 DEF IngestInv
<1>3. ASSUME NEW pc \in Answers, Answer(r, pc),
             \/ UNCHANGED kept
             \/ kept' = kept \cup {r} /\ table[req[r].input.key] = Content(req[r].input)
      PROVE  IngestInv'
  <2>1. /\ req' \in [Reqs -> ReqRow] /\ inflight' \in Nat
        /\ \A q \in Reqs : req'[q].input = req[q].input
        /\ Counted' /\ \A q \in Reqs : Ahead(q)'
    BY <1>1, <1>3, Answered1
  <2>2. AckedKept' /\ SeriesBounded'
    BY <1>0, <1>1, <1>3, <2>1, TableKept
  <2>3. IngestTypeOK'
    BY <1>0, <1>1, <1>3, <2>1 DEF IngestTypeOK, ReqRow
  <2> QED BY <2>1, <2>2, <2>3 DEF IngestInv
<1>4. CASE BodyRefused(r) \/ StorageFails(r)
  BY <1>3, <1>4 DEF BodyRefused, StorageFails, Answers
<1>5. CASE BeginUpsert(r)
  <2>1. CASE Goto(r, "read") /\ UNCHANGED inflight
    <3> DEFINE row == [req[r] EXCEPT !.pc = "read"]
    <3>1. row \in ReqRow /\ row.input = req[r].input /\ row.pc = "read"
      BY <1>0 DEF ReqRow
    <3>2. req' = [req EXCEPT ![r] = row] /\ UNCHANGED kept
      BY <1>0, <1>5, <2>1 DEF Goto, BeginUpsert
    <3> HIDE DEF row
    <3> QED BY <1>2, <2>1, <3>1, <3>2 DEF InHand
  <2>2. CASE Answer(r, "invalid")
    BY <1>3, <1>5, <2>2 DEF BeginUpsert, Answers
  <2> QED BY <1>5, <2>1, <2>2 DEF BeginUpsert
<1>6. CASE ReadRow(r)
  <2> DEFINE i == req[r].input
             old == table[i.key]
  <2>1. CASE Answer(r, "stale") /\ UNCHANGED kept
    BY <1>3, <2>1 DEF Answers
  <2>2. CASE Content(i) = old /\ Answer(r, "accepted") /\ kept' = kept \cup {r}
    BY <1>3, <2>2 DEF Answers
  <2>3. CASE Answer(r, "conflict") /\ UNCHANGED kept
    BY <1>3, <2>3 DEF Answers
  <2>4. CASE /\ i.observed > old.observed /\ UNCHANGED <<inflight, kept>>
             /\ req' = [req EXCEPT ![r].pc = "swap", ![r].seen = old.observed]
    <3> DEFINE row == [req[r] EXCEPT !.pc = "swap", !.seen = old.observed]
    <3>1. old.observed \in Nat /\ i.observed \in Nat
      BY <1>0, InputTypes DEF Reading
    <3>2. row \in ReqRow /\ row.input = i /\ row.pc = "swap" /\ row.seen = old.observed
      BY <1>0, <3>1 DEF ReqRow
    <3>3. req' = [req EXCEPT ![r] = row]
      BY <1>0, <2>4
    <3>4. row.seen < row.input.observed
      BY <2>4, <3>1, <3>2
    <3> HIDE DEF row
    <3> QED BY <1>2, <2>4, <3>2, <3>3, <3>4 DEF InHand
  <2> QED BY <1>6, <2>1, <2>2, <2>3, <2>4 DEF ReadRow
<1> QED BY <1>4, <1>5, <1>6

LEMMA SwapStep ==
  ASSUME IngestInv, NEW r \in Reqs, SwapRow(r)
  PROVE  IngestInv'
<1>0. /\ IngestTypeOK /\ req[r] \in ReqRow /\ req \in [Reqs -> ReqRow] /\ page \in PageRow
      /\ kept \subseteq Reqs /\ table \in [Keys -> Reading] /\ now \in Nat /\ req[r].tries \in Nat
      /\ req[r].pc = "swap" /\ req[r].pc \in InHand /\ now' = now
  BY IngestTypes DEF IngestInv, ReqRow, SwapRow, InHand
<1>1. page' \in PageRow
  BY <1>0, Following DEF SwapRow
<1>2. CASE /\ Swaps(req[r].input.key, req[r].seen)
           /\ table' = [table EXCEPT ![req[r].input.key] = Content(req[r].input)]
           /\ kept' = kept \cup {r}
           /\ Answer(r, "accepted")
  <2>1. /\ req' \in [Reqs -> ReqRow] /\ inflight' \in Nat
        /\ \A q \in Reqs : req'[q].input = req[q].input
        /\ Counted' /\ \A q \in Reqs : Ahead(q)'
    BY <1>0, <1>2, Answered1 DEF Answers
  <2>2. table' \in [Keys -> Reading] /\ AckedKept' /\ SeriesBounded'
    BY <1>0, <1>2, <2>1, TablePut
  <2>3. IngestTypeOK'
    BY <1>0, <1>1, <1>2, <2>1, <2>2 DEF IngestTypeOK, ReqRow, Reading, PageRow
  <2> QED BY <2>1, <2>2, <2>3 DEF IngestInv
<1>3. ASSUME UNCHANGED <<table, kept>>,
             \/ Answer(r, "limit") \/ Answer(r, "contention")
             \/ req' = [req EXCEPT ![r].pc = "read", ![r].seen = 0, ![r].tries = @ + 1] /\ UNCHANGED inflight
      PROVE  IngestInv'
  <2>1. /\ req' \in [Reqs -> ReqRow] /\ inflight' \in Nat
        /\ \A q \in Reqs : req'[q].input = req[q].input
        /\ Counted' /\ \A q \in Reqs : Ahead(q)'
    <3>1. CASE Answer(r, "limit") \/ Answer(r, "contention")
      BY <1>0, <3>1, Answered1 DEF Answers
    <3>2. CASE req' = [req EXCEPT ![r].pc = "read", ![r].seen = 0, ![r].tries = @ + 1] /\ UNCHANGED inflight
      <4> DEFINE n == req[r].tries + 1
                 row == [req[r] EXCEPT !.pc = "read", !.seen = 0, !.tries = n]
      <4>0. n \in Nat
        BY <1>0
      <4>2. req' = [req EXCEPT ![r] = row]
        BY <1>0, <3>2
      <4> HIDE DEF n
      <4>1. row \in ReqRow /\ row.input = req[r].input /\ row.pc = "read"
        BY <1>0, <4>0 DEF ReqRow
      <4> HIDE DEF row
      <4> QED BY <1>0, <3>2, <4>1, <4>2, Continued DEF InHand
    <3> QED BY <1>3, <3>1, <3>2
  <2>2. AckedKept' /\ SeriesBounded'
    BY <1>0, <1>3, <2>1, TableKept
  <2>3. IngestTypeOK'
    BY <1>0, <1>1, <1>3, <2>1 DEF IngestTypeOK, ReqRow, PageRow
  <2> QED BY <2>1, <2>2, <2>3 DEF IngestInv
<1> QED BY <1>2, <1>3 DEF SwapRow

LEMMA IngestStep ==
  ASSUME IngestInv, [IngestNext]_ingestVars
  PROVE  IngestInv'
<1>0. IngestTypeOK /\ page \in PageRow /\ now \in Nat /\ kept \subseteq Reqs /\ inflight \in Nat
      /\ table \in [Keys -> Reading] /\ req \in [Reqs -> ReqRow]
  BY IngestTypes DEF IngestInv
<1>1. ASSUME UNCHANGED <<table, req, inflight, kept>>, page' \in PageRow, now' \in Nat
      PROVE  IngestInv'
  <2>1. AckedKept' /\ SeriesBounded'
    BY <1>0, <1>1, TableKept
  <2>2. Counted' /\ \A q \in Reqs : Ahead(q)'
    BY <1>1 DEF IngestInv, Counted, UnderWay, Ahead
  <2>3. IngestTypeOK'
    BY <1>0, <1>1 DEF IngestTypeOK, PageRow
  <2> QED BY <2>1, <2>2, <2>3 DEF IngestInv
<1>2. CASE TimePasses
  <2>1. page' \in PageRow
    BY <1>0, <1>2, Following DEF TimePasses
  <2> QED BY <1>0, <1>1, <1>2, <2>1 DEF TimePasses
<1>3. CASE ListPage
  BY <1>0, <1>1, <1>3, PageListed DEF ListPage
<1>4. CASE UNCHANGED ingestVars
  BY <1>0, <1>1, <1>4 DEF ingestVars
<1> QED BY <1>2, <1>3, <1>4, AdmitStep, RequestStep, SwapStep, ExpiredDeleted DEF IngestNext

LEMMA IngestInvariant == IngestSpec => []IngestInv
<1>1. IngestInv /\ [IngestNext]_ingestVars => IngestInv'
  BY IngestStep
<1> QED BY <1>1, IngestInitInv, PTL DEF IngestSpec

\* The variables of AgentIngest keep their types; the capacity counter is a
\* natural number only because no slot is given back twice.
THEOREM IngestTyped == IngestSpec => []IngestTypeOK
<1>1. IngestInv => IngestTypeOK
  BY DEF IngestInv
<1> QED BY <1>1, IngestInvariant, PTL

\* upsert and compare_and_swap: a report that was answered with success is in
\* the table until its row is replaced by a newer one or deleted.
THEOREM AckedAlwaysKept == IngestSpec => []AckedKept
<1>1. IngestInv => AckedKept
  BY DEF IngestInv
<1> QED BY <1>1, IngestInvariant, PTL

\* IngestCapacityMiddleware and the insert of compare_and_swap: the counter is
\* the number of requests under way and never above the maximum, and concurrent
\* inserts never exceed max_series.
THEOREM IngestAlwaysBounded == IngestSpec => []IngestBounded
<1>1. IngestInv => IngestBounded
  BY DEF IngestInv, IngestBounded, Counted, SeriesBounded, UnderWay, InHand
<1> QED BY <1>1, IngestInvariant, PTL

-----------------------------------------------------------------------------
(* AgentIngest: paged listings.                                            *)

\* An open listing has returned what is shown up to its cursor, once.
PageInv ==
  /\ ~page.twice
  /\ page.pc = "idle" => page.items = {} /\ page.cursor = 0
  /\ page.pc = "open" =>
       /\ \A k \in page.items : k <= page.cursor
       /\ \A k \in page.steady : /\ k \notin LogKeys /\ Fresh(k)
                                 /\ k <= page.cursor => k \in page.items
  /\ page.pc = "done" => page.steady \subseteq page.items

\* A page, and the cursor to the next one.
LEMMA PageOf ==
  ASSUME NEW S \in SUBSET Keys
  PROVE  LET items == FirstOf(S, PageLimit) IN
         /\ items \subseteq S
         /\ NextCursor(S) = 0 => items = S
         /\ NextCursor(S) # 0 => /\ \A k \in items : k <= NextCursor(S)
                                 /\ \A k \in S : k <= NextCursor(S) => k \in items
<1> DEFINE items == FirstOf(S, PageLimit)
           Below(k) == {j \in S : j < k}
<1>0. PageLimit \in Nat /\ S \in SUBSET Nat /\ 0 \notin S /\ IsFiniteSet(S) /\ Cardinality(S) \in Nat
  BY IngestAssumption, FiniteRows
<1>1. \A k \in S : k \in items <=> Cardinality(Below(k)) < PageLimit
  BY DEF FirstOf
<1>2. items \subseteq S /\ items \in SUBSET Nat
  BY <1>0 DEF FirstOf
<1>3. \A k : Below(k) \in SUBSET S
  OBVIOUS
<1>4. \A j, k \in S : j <= k => Below(j) \in SUBSET Below(k)
  <2> SUFFICES ASSUME NEW j \in S, NEW k \in S, j <= k, NEW i \in S, i < j
               PROVE  i < k
    OBVIOUS
  <2>1. i \in Nat /\ j \in Nat /\ k \in Nat
    BY <1>0
  <2> QED BY <2>1
<1>5. \A k \in S : k \notin Below(k)
  <2> SUFFICES ASSUME NEW k \in S, k < k PROVE FALSE
    OBVIOUS
  <2>1. k \in Nat
    BY <1>0
  <2> QED BY <2>1
<1> HIDE DEF Below, items
<1>6. \A k \in S : IsFiniteSet(Below(k)) /\ Cardinality(Below(k)) \in Nat
                   /\ Cardinality(Below(k)) < Cardinality(S)
  <2> SUFFICES ASSUME NEW k \in S
               PROVE  IsFiniteSet(Below(k)) /\ Cardinality(Below(k)) \in Nat
                      /\ Cardinality(Below(k)) < Cardinality(S)
    OBVIOUS
  <2>1. /\ IsFiniteSet(Below(k)) /\ Cardinality(Below(k)) <= Cardinality(S)
        /\ Cardinality(S) = Cardinality(Below(k)) => S = Below(k)
    BY <1>0, <1>3, FS_Subset
  <2>2. Cardinality(Below(k)) \in Nat
    BY <2>1, FS_CardinalityType
  <2> QED BY <1>0, <1>5, <2>1, <2>2
<1>7. CASE Cardinality(S) > PageLimit
  <2>0. S # {}
    BY <1>0, <1>7, FS_EmptySet
  <2>1. items # {}
    <3>1. PICK x \in S : \A y \in S : x <= y
      BY <1>0, <2>0, LeastNatural
    <3>2. Below(x) = {}
      <4> SUFFICES ASSUME NEW j \in S, j < x PROVE FALSE
        BY DEF Below
      <4>1. j \in Nat /\ x \in Nat /\ x <= j
        BY <1>0, <3>1
      <4> QED BY <4>1
    <3>3. Cardinality(Below(x)) < PageLimit
      BY <3>2, FS_EmptySet, IngestAssumption
    <3> QED BY <1>1, <3>1, <3>3
  <2>2. IsFiniteSet(items)
    BY <1>0, <1>2, FS_Subset
  <2>3. LastKey(items) \in items /\ \A j \in items : j <= LastKey(items)
    BY <1>2, <2>1, <2>2, GreatestKey
  <2>4. NextCursor(S) = LastKey(items)
    BY <1>7 DEF NextCursor, items
  <2>5. NextCursor(S) # 0
    BY <1>0, <1>2, <2>3, <2>4
  <2>6. ASSUME NEW k \in S, k <= NextCursor(S) PROVE k \in items
    <3>1. NextCursor(S) \in S /\ Cardinality(Below(NextCursor(S))) < PageLimit
      BY <1>1, <1>2, <2>3, <2>4
    <3>2. Below(k) \in SUBSET Below(NextCursor(S))
      BY <1>4, <2>6, <3>1
    <3>3. Cardinality(Below(k)) <= Cardinality(Below(NextCursor(S)))
      BY <1>6, <3>1, <3>2, FS_Subset
    <3>4. Cardinality(Below(k)) < PageLimit
      <4>1. Cardinality(Below(k)) \in Nat /\ Cardinality(Below(NextCursor(S))) \in Nat
        BY <1>6, <3>1
      <4> QED BY <1>0, <3>1, <3>3, <4>1
    <3> QED BY <1>1, <3>4
  <2> QED BY <1>2, <2>3, <2>4, <2>5, <2>6 DEF items
<1>8. CASE ~(Cardinality(S) > PageLimit)
  <2>1. NextCursor(S) = 0
    BY <1>8 DEF NextCursor
  <2>2. \A k \in S : k \in items
    BY <1>0, <1>1, <1>6, <1>8
  <2> QED BY <1>2, <2>1, <2>2 DEF items
<1> QED BY <1>7, <1>8

LEMMA ListedStep ==
  ASSUME IngestTypeOK, PageInv, ListPage
  PROVE  PageInv'
<1> DEFINE S == After(page.cursor)
           items == FirstOf(S, PageLimit)
           steady == IF page.pc = "idle" THEN After(0) ELSE page.steady
<1>0. /\ page \in PageRow /\ page.cursor \in Nat /\ page.items \subseteq Keys /\ page.steady \subseteq Keys
      /\ page.pc \in {"idle", "open"} /\ Keys \subseteq Nat \ {0} /\ UNCHANGED <<table, now>>
  BY IngestTypes, IngestAssumption DEF PageRow, ListPage
<1>1. /\ page'.pc = IF NextCursor(S) = 0 THEN "done" ELSE "open"
      /\ page'.cursor = NextCursor(S) /\ page'.items = page.items \cup items
      /\ page'.steady = steady
      /\ page'.twice <=> page.twice \/ page.items \cap items # {}
  BY PageListed
<1>2. S \in SUBSET Keys /\ \A k \in S : k > page.cursor
  BY DEF After, Rows
<1>3. \A k \in S : k \notin LogKeys /\ Fresh(k)
  BY DEF After
<1>4. \A k \in Keys : k \notin LogKeys /\ Fresh(k) /\ k > page.cursor => k \in S
  BY DEF After, Rows, Fresh, Visible
<1>5. \A k \in page.items : k <= page.cursor
  BY <1>0 DEF PageInv
<1>6. \A k \in steady : /\ k \in Keys /\ k \notin LogKeys /\ Fresh(k)
                        /\ k <= page.cursor => k \in page.items
  <2>1. CASE page.pc = "idle"
    <3>1. steady = After(0)
      BY <2>1
    <3>2. \A k \in After(0) : k \in Keys /\ k \notin LogKeys /\ Fresh(k) /\ k > 0
      BY DEF After, Rows
    <3>3. page.cursor = 0
      BY <2>1 DEF PageInv
    <3>4. \A k \in After(0) : ~(k <= page.cursor)
      <4> SUFFICES ASSUME NEW k \in After(0), k <= 0 PROVE FALSE
        BY <3>3
      <4>1. k \in Nat /\ k > 0
        BY <1>0, <3>2
      <4> QED BY <4>1
    <3> HIDE DEF steady
    <3> QED BY <3>1, <3>2, <3>4
  <2>2. CASE page.pc = "open"
    BY <1>0, <2>2 DEF PageInv
  <2> QED BY <1>0, <2>1, <2>2
<1> HIDE DEF S, steady
<1>7. /\ items \subseteq S
      /\ NextCursor(S) = 0 => items = S
      /\ NextCursor(S) # 0 => /\ \A k \in items : k <= NextCursor(S)
                              /\ \A k \in S : k <= NextCursor(S) => k \in items
  BY <1>2, PageOf
<1> HIDE DEF items
<1>8. page.items \cap items = {}
  <2> SUFFICES ASSUME NEW k \in page.items, k \in S PROVE FALSE
    BY <1>7
  <2>1. k \in Nat /\ k > page.cursor /\ k <= page.cursor
    BY <1>0, <1>2, <1>5
  <2> QED BY <1>0, <2>1
<1>9. ~page'.twice
  BY <1>1, <1>8 DEF PageInv
<1>10. CASE NextCursor(S) = 0
  <2>1. page'.pc = "done"
    BY <1>1, <1>10
  <2>2. steady \subseteq page.items \cup items
    <3> SUFFICES ASSUME NEW k \in steady PROVE k \in page.items \cup items
      OBVIOUS
    <3>1. k \in Nat /\ (k <= page.cursor \/ k > page.cursor)
      <4>1. k \in Nat
        BY <1>0, <1>6
      <4> QED BY <1>0, <4>1
    <3> QED BY <1>4, <1>6, <1>7, <1>10, <3>1, Zenon
  <2> QED BY <1>1, <1>9, <2>1, <2>2 DEF PageInv
<1>11. CASE NextCursor(S) # 0
  <2>1. page'.pc = "open"
    BY <1>1, <1>11
  <2>2. NextCursor(S) \in Nat
    BY <1>1, PageListed DEF PageRow
  <2>3. \A k \in page.items \cup items : k <= NextCursor(S)
    <3>1. items # {}
      <4>1. IsFiniteSet(S) /\ Cardinality(S) \in Nat /\ S \in SUBSET Nat
        BY <1>0, <1>2, FiniteRows
      <4>2. Cardinality(S) > PageLimit
        BY <1>11 DEF NextCursor
      <4>3. S # {}
        BY <4>1, <4>2, FS_EmptySet, IngestAssumption
      <4>4. PICK x \in S : \A y \in S : x <= y
        BY <4>1, <4>3, LeastNatural
      <4>5. {j \in S : j < x} = {}
        <5> SUFFICES ASSUME NEW j \in S, j < x PROVE FALSE
          OBVIOUS
        <5>1. j \in Nat /\ x \in Nat /\ x <= j
          BY <4>1, <4>4
        <5> QED BY <5>1
      <4> QED BY <4>4, <4>5, FS_EmptySet, IngestAssumption DEF items, FirstOf
    <3>2. PICK x \in items : x \in S /\ x <= NextCursor(S) /\ x > page.cursor /\ x \in Nat
      BY <1>0, <1>2, <1>7, <1>11, <3>1
    <3>3. ASSUME NEW k \in page.items PROVE k <= NextCursor(S)
      <4>1. k \in Nat /\ k <= page.cursor
        BY <1>0, <1>5
      <4> QED BY <1>0, <2>2, <3>2, <4>1
    <3> QED BY <1>7, <1>11, <3>3
  <2>4. \A k \in steady : k <= NextCursor(S) => k \in page.items \cup items
    <3> SUFFICES ASSUME NEW k \in steady, k <= NextCursor(S) PROVE k \in page.items \cup items
      OBVIOUS
    <3>1. k \in Nat /\ (k <= page.cursor \/ k > page.cursor)
      <4>1. k \in Nat
        BY <1>0, <1>6
      <4> QED BY <1>0, <4>1
    <3> QED BY <1>4, <1>6, <1>7, <1>11, <3>1, Zenon
  <2>5. \A k \in steady : Fresh(k)'
    BY <1>0, <1>6 DEF Fresh
  <2> QED BY <1>1, <1>6, <1>9, <2>1, <2>3, <2>4, <2>5 DEF PageInv
<1> QED BY <1>10, <1>11

\* The steps between the pages: what is no longer shown leaves the listing.
LEMMA FollowStep ==
  ASSUME IngestTypeOK, PageInv,
         Follow(table', now') \/ UNCHANGED <<table, now, page>>
  PROVE  PageInv'
<1>1. CASE Follow(table', now')
  <2>1. page \in PageRow
    BY IngestTypes
  <2>2. /\ page'.pc = page.pc /\ page'.cursor = page.cursor
        /\ page'.items = page.items /\ page'.twice = page.twice
        /\ page.pc = "open" => page'.steady = {k \in page.steady : Visible(table'[k], now')}
        /\ page.pc # "open" => page' = page
    BY <1>1, <2>1, Following
  <2>3. CASE page.pc = "open"
    <3>1. \A k \in page'.steady : k \in page.steady /\ Fresh(k)'
      BY <2>2, <2>3 DEF Fresh
    <3>2. ~page'.twice
      BY <2>2, Zenon DEF PageInv
    <3> QED BY <2>2, <2>3, <3>1, <3>2 DEF PageInv
  <2>4. CASE page.pc # "open"
    BY <2>2, <2>4 DEF PageInv
  <2> QED BY <2>3, <2>4
<1>2. CASE UNCHANGED <<table, now, page>>
  BY <1>2 DEF PageInv, Fresh
<1> QED BY <1>1, <1>2

\* list_page: a listing that is followed to its end has returned every
\* observation that was shown from its first page to its last, exactly once,
\* whatever was inserted, replaced or deleted between the pages.
THEOREM PagesAlwaysComplete == IngestSpec => []PagesComplete
<1>1. IngestInit => PageInv
  BY DEF IngestInit, NoPage, PageInv
<1>2. IngestTypeOK /\ PageInv /\ [IngestNext]_ingestVars => PageInv'
  <2> SUFFICES ASSUME IngestTypeOK, PageInv, [IngestNext]_ingestVars PROVE PageInv'
    OBVIOUS
  <2>1. CASE ListPage
    BY <2>1, ListedStep
  <2>2. ASSUME NEW r \in Reqs,
               Admit(r) \/ BodyRefused(r) \/ BeginUpsert(r) \/ ReadRow(r) \/ StorageFails(r)
        PROVE  PageInv'
    BY <2>2, FollowStep DEF Admit, BodyRefused, BeginUpsert, ReadRow, StorageFails
  <2>3. ASSUME NEW r \in Reqs, SwapRow(r) PROVE PageInv'
    BY <2>3, FollowStep DEF SwapRow
  <2>4. ASSUME NEW k \in Keys, DeleteExpired(k) PROVE PageInv'
    BY <2>4, FollowStep DEF DeleteExpired
  <2>5. CASE TimePasses \/ UNCHANGED ingestVars
    BY <2>5, FollowStep DEF TimePasses, ingestVars
  <2> QED BY <2>1, <2>2, <2>3, <2>4, <2>5 DEF IngestNext
<1>3. PageInv => PagesComplete
  BY DEF PageInv, PagesComplete
<1> QED BY <1>1, <1>2, <1>3, IngestTyped, PTL DEF IngestSpec


-----------------------------------------------------------------------------
(* AgentTerminals.                                                         *)

\* Who ends a session has seen its shell gone or has killed it: a close
\* before it sets the fields, a thread before it marks the exit.
SessionInv ==
  /\ term.process <=> term.status = "running"
  /\ NoOrphanShell
  /\ closing => ~shell
  /\ \A c \in Conns : thread[c].pc = "eof" => ~shell

\* Units read from the pseudo-terminal and not in the buffer yet.
InThread == {c \in Conns : thread[c].pc = "got"}

\* What a connection is before and after the time it is open.
ConnInv(c) ==
  /\ conn[c].pc # "open" => net[c] = <<>>
  /\ conn[c].pc = "accepted" => conn[c].cursor = Len(screen)
  /\ conn[c].pc \in {"new", "accepted"} => thread[c] = NoThread
  /\ thread[c].pc = "none" => thread[c] = NoThread
  /\ thread[c].pc \in {"none", "pump"} => thread[c].out = <<>>
  /\ thread[c].pc = "got" => thread[c].unit # 0

OneAttached == \A c, d \in Conns : Attached(c) /\ Attached(d) => c = d

\* The messages to an open pane continue its screen: off[i] units have been
\* received or sent before message i, and the thread holds what follows.
Chained(c, off) ==
  LET n == Len(net[c]) IN
  /\ off[1] = Len(screen)
  /\ \A i \in 1..n : off[i + 1] = off[i] + Len(net[c][i])
  /\ \A i \in 1..(n + 1) : off[i] <= BufferCursor
  /\ off[n + 1] + Len(thread[c].out) <= BufferCursor
  /\ ~overlap /\ ~cut =>
       /\ \A i \in 1..n : \A j \in 1..Len(net[c][i]) : net[c][i][j] = off[i] + j
       /\ thread[c].pc # "none" => off[n + 1] + Len(thread[c].out) = BufferCursor

ChainInv(c) ==
  conn[c].pc = "open" =>
    \E off \in [1..(Len(net[c]) + 1) -> 0..MaxUnits] : Chained(c, off)

\* While no two connections have read at once, there is one thread; it holds
\* the units before the buffer's cursor, and the next one if it has got one.
SingleInv ==
  ~overlap =>
    /\ \A c, d \in Conns : thread[c].pc # "none" /\ thread[d].pc # "none" => c = d
    /\ \A c \in Conns : \A i \in 1..Len(thread[c].out) :
         thread[c].out[i] + Len(thread[c].out) = BufferCursor + i
    /\ term.status # "purged" =>
         /\ \A c \in InThread : thread[c].unit = BufferCursor + 1 /\ taken = BufferCursor + 1
         /\ InThread = {} => taken = BufferCursor

\* What is read, kept, sent and received.
StreamInv ==
  /\ OneAttached
  /\ \A c \in Conns : ConnInv(c) /\ ChainInv(c)
  /\ Len(screen) <= BufferCursor
  /\ BufferCursor + Cardinality(InThread) <= taken
  /\ SingleInv
  /\ ReplayExact

TerminalsInv == TerminalsTypeOK /\ SessionInv /\ StreamInv

TermRow == [status: {"running", "purged"} \cup Gone, process: BOOLEAN]
ConnRow == [pc: {"new", "accepted", "open", "half", "done"}, cursor: 0..MaxUnits,
            ticket: {"none", "issued", "expired", "consumed"}]
ThreadRow == [pc: {"none", "pump", "select", "got", "eof"}, unit: 0..MaxUnits, out: Seq(Units)]

LEMMA TerminalTypes ==
  ASSUME TerminalsTypeOK
  PROVE  /\ term \in TermRow /\ conn \in [Conns -> ConnRow] /\ thread \in [Conns -> ThreadRow]
         /\ shell \in BOOLEAN /\ closing \in BOOLEAN
BY DEF TerminalsTypeOK, TermRow, ConnRow, ThreadRow

\* get(): the session is as it was, or it has ended with its shell.
LEMMA GotTerm ==
  ASSUME TerminalsTypeOK, SessionInv, NEW t \in Got
  PROVE  /\ t \in TermRow
         /\ t.process <=> t.status = "running"
         /\ t.status # "running" => ~shell
         /\ t.status = "running" => term.status = "running"
         /\ term.status = "purged" => t.status = "purged"
<1> DEFINE gone == [status |-> "purged", process |-> FALSE]
<1>0. term \in TermRow /\ shell \in BOOLEAN
  BY TerminalTypes
<1>1. /\ MarkedExited \in TermRow /\ MarkedExited.status = "exited" /\ ~MarkedExited.process
      /\ gone \in TermRow /\ gone.status = "purged" /\ ~gone.process
  BY Zenon DEF MarkedExited, TermRow, Gone
<1>2. Polled = term \/ (Polled = MarkedExited /\ ~shell)
  BY Zenon DEF Polled
<1>3. t = Polled \/ (t = gone /\ Polled.status \in Gone)
  BY Zenon DEF Got, Purged
<1>4. term.status = "purged" => Polled = term
  BY DEF Polled
<1> HIDE DEF gone
<1>5. CASE t = term
  BY <1>0, <1>5, Zenon DEF SessionInv, NoOrphanShell
<1>6. CASE t # term
  <2>1. ~shell
    BY <1>2, <1>3, <1>6 DEF SessionInv, NoOrphanShell, Gone
  <2>2. term.status # "purged"
    BY <1>3, <1>4, <1>6 DEF Gone
  <2>3. t = MarkedExited \/ t = gone
    BY <1>2, <1>3, <1>6, Zenon
  <2> QED BY <1>1, <2>1, <2>2, <2>3
<1> QED BY <1>5, <1>6

\* A step that looks the session up and kills no shell.
LEMMA SessionGot ==
  ASSUME TerminalsTypeOK, SessionInv, term' \in Got, UNCHANGED <<shell, closing>>,
         \A c \in Conns : thread'[c].pc = "eof" => thread[c].pc = "eof"
  PROVE  SessionInv' /\ term' \in TermRow
<1>1. /\ term' \in TermRow /\ (term'.process <=> term'.status = "running")
      /\ term'.status # "running" => ~shell
  BY GotTerm
<1> QED BY <1>1, Zenon DEF SessionInv, NoOrphanShell

LEMMA SessionSame ==
  ASSUME SessionInv, UNCHANGED <<term, shell, closing>>,
         \A c \in Conns : thread'[c].pc = "eof" => thread[c].pc = "eof"
  PROVE  SessionInv'
BY Zenon DEF SessionInv, NoOrphanShell

LEMMA SessionStep ==
  ASSUME TerminalsTypeOK, SessionInv, [TerminalsNext]_terminalVars
  PROVE  /\ SessionInv' /\ term' \in TermRow /\ shell' \in BOOLEAN /\ closing' \in BOOLEAN
         /\ term.status = "purged" => term'.status = "purged"
<1>0. /\ term \in TermRow /\ shell \in BOOLEAN /\ closing \in BOOLEAN
      /\ thread \in [Conns -> ThreadRow]
  BY TerminalTypes
<1>1. CASE HttpGet
  <2>1. \A c \in Conns : thread'[c].pc = "eof" => thread[c].pc = "eof"
    BY <1>1 DEF HttpGet
  <2> QED BY <1>0, <1>1, <2>1, SessionGot, GotTerm DEF HttpGet
<1>2. ASSUME NEW c \in Conns, IssueTicket(c) \/ Replay(c) \/ BeginRead(c) \/ EndRead(c)
      PROVE  SessionInv' /\ UNCHANGED <<shell, closing>> /\ term' \in Got
  <2>1. UNCHANGED <<shell, closing>> /\ term' \in Got
    BY <1>2 DEF IssueTicket, Replay, BeginRead, EndRead
  <2>2. \A d \in Conns : thread'[d].pc = "eof" => thread[d].pc = "eof"
    <3>1. CASE IssueTicket(c)
      BY <3>1 DEF IssueTicket
    <3>2. CASE Replay(c)
      <4>1. thread' = thread \/ thread' = [thread EXCEPT ![c] = [NoThread EXCEPT !.pc = "pump"]]
        BY <3>2, Zenon DEF Replay
      <4>2. \/ thread' = thread
            \/ thread'[c].pc = "pump" /\ \A d \in Conns \ {c} : thread'[d] = thread[d]
        BY <1>0, <4>1 DEF NoThread
      <4> QED BY <4>2
    <3>3. CASE BeginRead(c)
      BY <1>0, <3>3 DEF BeginRead, NoThread, ThreadRow
    <3>4. CASE EndRead(c)
      BY <1>0, <3>4 DEF EndRead, Finish, NoThread, ThreadRow
    <3> QED BY <1>2, <3>1, <3>2, <3>3, <3>4
  <2> QED BY <2>1, <2>2, SessionGot
<1>3. ASSUME NEW c \in Conns, Connect(c)
      PROVE  SessionInv' /\ UNCHANGED <<shell, closing>> /\ (term' \in Got \/ term' = term)
  <2>1. \A d \in Conns : thread'[d].pc = "eof" => thread[d].pc = "eof"
    BY <1>3 DEF Connect
  <2> QED BY <1>3, <2>1, SessionGot, SessionSame DEF Connect
<1>4. ASSUME NEW c \in Conns, \/ TicketExpires(c) \/ Receive(c) \/ Disconnect(c) \/ HandlerEnds(c)
                              \/ StoreUnit(c) \/ ReadRaises(c)
      PROVE  SessionInv' /\ UNCHANGED <<term, shell, closing>>
  <2>1. UNCHANGED <<term, shell, closing>>
    BY <1>4 DEF TicketExpires, Receive, Disconnect, HandlerEnds, StoreUnit, ReadRaises
  <2>2. \A d \in Conns : thread'[d].pc = "eof" => thread[d].pc = "eof"
    BY <1>0, <1>4 DEF TicketExpires, Receive, Disconnect, HandlerEnds, StoreUnit, ReadRaises,
                      NoThread, ThreadRow
  <2> QED BY <2>1, <2>2, SessionSame
<1>5. ASSUME NEW c \in Conns, ReadUnit(c)
      PROVE  SessionInv' /\ UNCHANGED <<term, shell, closing>>
  <2>1. UNCHANGED <<term, shell, closing>>
    BY <1>5 DEF ReadUnit
  <2>2. \A d \in Conns : thread'[d].pc = "eof" => thread[d].pc = "eof" \/ ~shell
    BY <1>0, <1>5 DEF ReadUnit, ThreadRow
  <2> QED BY <2>1, <2>2, Zenon DEF SessionInv, NoOrphanShell
<1>6. ASSUME NEW c \in Conns, EndOfFile(c)
      PROVE  /\ SessionInv' /\ UNCHANGED <<shell, closing>> /\ term' \in TermRow
             /\ term.status = "purged" => term' = term
  <2>1. ~shell
    BY <1>6, Zenon DEF SessionInv, EndOfFile
  <2>2. /\ MarkedExited \in TermRow /\ MarkedExited.status = "exited" /\ ~MarkedExited.process
        /\ LET gone == [status |-> "purged", process |-> FALSE] IN
           gone \in TermRow /\ gone.status = "purged" /\ ~gone.process
    BY Zenon DEF MarkedExited, TermRow, Gone
  <2>3. /\ term' = term \/ (term' \in TermRow /\ term'.status # "running" /\ ~term'.process)
        /\ term.status = "purged" => term' = term
    BY <1>6, <2>2 DEF EndOfFile, Purged
  <2>4. \A d \in Conns : thread'[d].pc = "eof" => thread[d].pc = "eof"
    BY <1>0, <1>6 DEF EndOfFile, Finish, NoThread, ThreadRow
  <2>5. UNCHANGED <<shell, closing>>
    BY <1>6 DEF EndOfFile
  <2> QED BY <1>0, <2>1, <2>3, <2>4, <2>5, Zenon DEF SessionInv, NoOrphanShell
<1>7. CASE BeginClose
  <2>1. /\ term' \in TermRow /\ (term'.process <=> term'.status = "running")
        /\ term'.status # "running" => ~shell
        /\ term.status = "purged" => term'.status = "purged"
    BY <1>7, GotTerm DEF BeginClose
  <2>2. closing' = TRUE /\ ~shell' /\ shell' \in BOOLEAN /\ thread' = thread
    BY <1>0, <1>7, <2>1, Zenon DEF BeginClose
  <2> QED BY <2>1, <2>2, Zenon DEF SessionInv, NoOrphanShell
<1>8. CASE EndClose
  <2>1. ~shell /\ shell' = shell /\ closing' = FALSE /\ thread' = thread
    BY <1>8, Zenon DEF EndClose, SessionInv
  <2>2. LET t == [status |-> "closed", process |-> FALSE] IN
        t \in TermRow /\ t.status = "closed" /\ ~t.process
    BY Zenon DEF TermRow, Gone
  <2>3. /\ term.status = "purged" => term' = term
        /\ term.status # "purged" =>
             term' \in TermRow /\ term'.status = "closed" /\ ~term'.process
    BY <1>8, <2>2 DEF EndClose
  <2> QED BY <1>0, <2>1, <2>3, Zenon DEF SessionInv, NoOrphanShell
<1>9. CASE ShellWrites \/ UNCHANGED terminalVars
  BY <1>0, <1>9, SessionSame DEF ShellWrites, terminalVars
<1>10. CASE ShellExits
  BY <1>0, <1>10, Zenon DEF ShellExits, SessionInv, NoOrphanShell
<1> QED BY <1>0, <1>1, <1>2, <1>3, <1>4, <1>5, <1>6, <1>7, <1>8, <1>9, <1>10, GotTerm
        DEF TerminalsNext


BufferRow == [start: 0..MaxUnits, chunks: Seq(Units)]
CursorOf(b) == b.start + Len(b.chunks)
Unbroken(b) == \A i \in 1..Len(b.chunks) : b.chunks[i] = b.start + i

\* append and _trim: one unit is added, and an unbroken run stays one.
LEMMA AppendedBuffer ==
  ASSUME NEW b \in BufferRow, NEW u \in Units, Len(b.chunks) <= BufferUnits,
         CursorOf(b) < MaxUnits
  PROVE  LET a == Appended(b, u) IN
         /\ a \in BufferRow
         /\ CursorOf(a) = CursorOf(b) + 1
         /\ Len(a.chunks) <= BufferUnits
         /\ Unbroken(b) /\ u = CursorOf(b) + 1 => Unbroken(a)
<1> DEFINE all == Append(b.chunks, u)
           drop == IF Len(all) > BufferUnits THEN Len(all) - BufferUnits ELSE 0
           rest == SubSeq(all, drop + 1, Len(all))
           a == Appended(b, u)
<1>0. /\ b.start \in Nat /\ b.chunks \in Seq(Units) /\ Len(b.chunks) \in Nat
      /\ BufferUnits \in Nat \ {0} /\ MaxUnits \in Nat
  BY TerminalsAssumption DEF BufferRow
<1>1. /\ all \in Seq(Units) /\ Len(all) = Len(b.chunks) + 1
      /\ \A i \in 1..Len(b.chunks) : all[i] = b.chunks[i]
      /\ all[Len(b.chunks) + 1] = u
  BY <1>0
<1> HIDE DEF all
<1>2. drop \in 0..1 /\ Len(all) - drop <= BufferUnits
  BY <1>0, <1>1
<1>3. a.start = b.start + drop /\ a.chunks = rest /\ a = [start |-> b.start + drop, chunks |-> rest]
  BY DEF Appended, all
<1> HIDE DEF a, drop
<1>4. /\ rest \in Seq(Units) /\ Len(rest) = Len(all) - drop
      /\ \A i \in 1..Len(rest) : rest[i] = all[drop + i]
  BY <1>0, <1>1, <1>2
<1> HIDE DEF rest
<1>5. CursorOf(a) = CursorOf(b) + 1 /\ Len(a.chunks) <= BufferUnits /\ a \in BufferRow
  BY <1>0, <1>1, <1>2, <1>3, <1>4 DEF CursorOf, BufferRow
<1>6. ASSUME Unbroken(b), u = CursorOf(b) + 1 PROVE Unbroken(a)
  <2> SUFFICES ASSUME NEW i \in 1..Len(rest) PROVE rest[i] = b.start + drop + i
    BY <1>3 DEF Unbroken
  <2>0. i \in Nat /\ drop \in Nat
    BY <1>2
  <2>1. rest[i] = all[drop + i] /\ drop + i \in 1..(Len(b.chunks) + 1)
    BY <1>0, <1>1, <1>2, <1>4
  <2>2. CASE drop + i \in 1..Len(b.chunks)
    <3>1. all[drop + i] = b.start + (drop + i)
      BY <1>1, <1>6, <2>2 DEF Unbroken
    <3> QED BY <1>0, <1>2, <2>0, <2>1, <3>1
  <2>3. CASE drop + i = Len(b.chunks) + 1
    <3>1. all[drop + i] = b.start + Len(b.chunks) + 1
      BY <1>1, <1>6, <2>3 DEF CursorOf
    <3>2. PICK d \in Nat, k \in Nat, n \in Nat, m \in Nat :
            d = drop /\ k = i /\ n = Len(b.chunks) /\ m = b.start /\ d + k = n + 1
      BY <1>0, <2>0, <2>3, Zenon
    <3>3. m + n + 1 = m + d + k
      <4>1. d + k = n + 1
        BY <3>2, Zenon
      <4> QED BY <4>1
    <3> QED BY <2>1, <3>1, <3>2, <3>3, Zenon
  <2> QED BY <1>0, <2>1, <2>2, <2>3
<1> QED BY <1>5, <1>6 DEF a

\* read_from: what the buffer holds after the cursor.
LEMMA ReadFromBuffer ==
  ASSUME NEW b \in BufferRow, NEW cursor \in 0..MaxUnits, cursor <= CursorOf(b)
  PROVE  LET out == ReadFrom(b, cursor) IN
         /\ out \in Seq(Units) /\ Len(out) \in Nat /\ cursor + Len(out) <= CursorOf(b)
         /\ cursor >= b.start => cursor + Len(out) = CursorOf(b)
         /\ cursor >= b.start /\ Unbroken(b) => \A j \in 1..Len(out) : out[j] = cursor + j
<1> DEFINE skip == IF cursor > b.start THEN cursor - b.start ELSE 0
           out == SubSeq(b.chunks, skip + 1, Len(b.chunks))
<1>0. /\ b.start \in Nat /\ b.chunks \in Seq(Units) /\ Len(b.chunks) \in Nat
      /\ MaxUnits \in Nat /\ cursor \in Nat
  BY TerminalsAssumption DEF BufferRow
<1>1. ReadFrom(b, cursor) = out
  <2>1. ~(cursor > b.start + Len(b.chunks))
    BY <1>0 DEF CursorOf
  <2> QED BY <2>1 DEF ReadFrom
<1>2. skip \in 0..Len(b.chunks) /\ cursor <= b.start + skip
      /\ (cursor >= b.start => cursor = b.start + skip)
  BY <1>0 DEF CursorOf
<1> HIDE DEF skip
<1>3. /\ out \in Seq(Units) /\ Len(out) = Len(b.chunks) - skip
      /\ \A i \in 1..Len(out) : out[i] = b.chunks[skip + i]
  BY <1>0, <1>2
<1> HIDE DEF out
<1>4. ASSUME cursor >= b.start, Unbroken(b), NEW j \in 1..Len(out) PROVE out[j] = cursor + j
  <2>1. skip + j \in 1..Len(b.chunks) /\ out[j] = b.chunks[skip + j]
    BY <1>0, <1>2, <1>3
  <2>2. b.chunks[skip + j] = b.start + (skip + j)
    BY <1>4, <2>1, Zenon DEF Unbroken
  <2>3. PICK m \in Nat, d \in Nat, k \in Nat, i \in Nat :
          m = b.start /\ d = skip /\ k = cursor /\ i = j /\ k = m + d
    <3>1. skip \in Nat /\ cursor = b.start + skip /\ j \in Nat
      BY <1>0, <1>2, <1>4
    <3> QED BY <1>0, <3>1, Zenon
  <2>4. m + (d + i) = k + i
    BY <2>3
  <2> QED BY <2>1, <2>2, <2>3, <2>4, Zenon
<1>5. /\ Len(out) \in Nat /\ cursor + Len(out) <= CursorOf(b)
      /\ cursor >= b.start => cursor + Len(out) = CursorOf(b)
  <2>1. \A k, n, m, d \in Nat :
           /\ d \in 0..n /\ k <= m + d =>
                /\ n - d \in Nat /\ k + (n - d) <= m + n
                /\ k = m + d => k + (n - d) = m + n
    OBVIOUS
  <2>2. skip \in Nat
    BY <1>0, <1>2
  <2>3. /\ Len(b.chunks) - skip \in Nat
        /\ cursor + (Len(b.chunks) - skip) <= b.start + Len(b.chunks)
        /\ cursor = b.start + skip => cursor + (Len(b.chunks) - skip) = b.start + Len(b.chunks)
    BY <1>0, <1>2, <2>1, <2>2
  <2> QED BY <1>2, <1>3, <2>3, Zenon DEF CursorOf
<1> QED BY <1>1, <1>3, <1>4, <1>5


StreamTypeOK ==
  /\ overlap \in BOOLEAN /\ cut \in BOOLEAN
  /\ written \in 0..MaxUnits /\ taken \in 0..MaxUnits
  /\ buffer \in BufferRow
  /\ conn \in [Conns -> ConnRow]
  /\ thread \in [Conns -> ThreadRow]
  /\ net \in [Conns -> Seq(Seq(Units))]
  /\ screen \in Seq(Units)

LEMMA StreamTypes ==
  TerminalsTypeOK <=> /\ term \in TermRow /\ shell \in BOOLEAN /\ closing \in BOOLEAN
                      /\ StreamTypeOK
BY Zenon DEF TerminalsTypeOK, StreamTypeOK, TermRow, BufferRow, ConnRow, ThreadRow

\* The counters are in their ranges.
LEMMA StreamRanges ==
  ASSUME TerminalsTypeOK, StreamInv
  PROVE  /\ StreamTypeOK /\ BufferCursor \in 0..MaxUnits /\ Len(screen) \in 0..MaxUnits
         /\ BufferCursor <= taken /\ taken \in Nat /\ MaxUnits \in Nat
         /\ IsFiniteSet(InThread) /\ Cardinality(InThread) \in Nat
         /\ BufferCursor = CursorOf(buffer)
<1>0. StreamTypeOK /\ MaxUnits \in Nat
  BY StreamTypes, TerminalsAssumption
<1>1. IsFiniteSet(InThread) /\ Cardinality(InThread) \in Nat
  <2>1. InThread \in SUBSET Conns
    BY DEF InThread
  <2> QED BY <2>1, FS_Subset, FS_CardinalityType, TerminalsAssumption
<1>2. Len(screen) \in Nat /\ BufferCursor \in Nat /\ taken \in 0..MaxUnits
  BY <1>0 DEF StreamTypeOK, BufferRow, BufferCursor
<1>3. Len(screen) <= BufferCursor /\ BufferCursor + Cardinality(InThread) <= taken
  BY DEF StreamInv
<1> HIDE DEF InThread
<1> QED BY <1>0, <1>1, <1>2, <1>3 DEF CursorOf, BufferCursor

\* A step that sends nothing to c: what its thread holds grows with the buffer,
\* or the equation is no longer claimed.
LEMMA ChainKept ==
  ASSUME NEW c \in Conns, ChainInv(c), conn'[c].pc = "open" => conn[c].pc = "open",
         net'[c] = net[c], screen' = screen, ~overlap' => ~overlap, ~cut' => ~cut,
         net \in [Conns -> Seq(Seq(Units))],
         BufferCursor \in Nat, BufferCursor' \in Nat, MaxUnits \in Nat,
         Len(thread[c].out) \in Nat, Len(thread'[c].out) \in Nat,
         BufferCursor <= BufferCursor',
         \/ /\ BufferCursor' + Len(thread[c].out) = BufferCursor + Len(thread'[c].out)
            /\ thread'[c].pc # "none" => thread[c].pc # "none"
         \/ /\ Len(thread'[c].out) <= Len(thread[c].out)
            /\ overlap' \/ cut' \/ thread'[c].pc = "none"
  PROVE  ChainInv(c)'
<1> SUFFICES ASSUME conn'[c].pc = "open"
             PROVE  \E off \in [1..(Len(net'[c]) + 1) -> 0..MaxUnits] : Chained(c, off)'
  BY DEF ChainInv
<1> DEFINE n == Len(net[c])
<1>1. PICK off \in [1..(n + 1) -> 0..MaxUnits] : Chained(c, off)
  BY DEF ChainInv
<1>2. n \in Nat
  OBVIOUS
<1>3. /\ off[1] = Len(screen)
      /\ \A i \in 1..n : off[i + 1] = off[i] + Len(net[c][i])
      /\ \A i \in 1..(n + 1) : off[i] <= BufferCursor
      /\ off[n + 1] + Len(thread[c].out) <= BufferCursor
      /\ ~overlap /\ ~cut =>
           /\ \A i \in 1..n : \A j \in 1..Len(net[c][i]) : net[c][i][j] = off[i] + j
           /\ thread[c].pc # "none" => off[n + 1] + Len(thread[c].out) = BufferCursor
  BY <1>1, Zenon DEF Chained
<1>4. \A i \in 1..(n + 1) : off[i] \in Nat
  BY <1>1
<1>5. off[n + 1] \in Nat
  BY <1>2, <1>4
<1> HIDE DEF n
<1>6. \A i \in 1..(n + 1) : off[i] <= BufferCursor'
  BY <1>3, <1>4
<1>a. PICK o \in Nat, x \in Nat, y \in Nat, b \in Nat, d \in Nat :
        /\ o = off[n + 1] /\ x = Len(thread[c].out) /\ y = Len(thread'[c].out)
        /\ b = BufferCursor /\ d = BufferCursor'
  BY <1>5, Zenon
<1>b. o + x <= b /\ b <= d /\ (d + x = b + y \/ y <= x)
  BY <1>3, <1>a, Zenon
<1>7. o + y <= d /\ (o + x = b /\ d + x = b + y => o + y = d)
  BY <1>b
<1>8. ~overlap' /\ ~cut' /\ thread'[c].pc # "none" => o + y = d
  BY <1>3, <1>7, <1>a, Zenon
<1>9. Chained(c, off)'
  BY <1>3, <1>6, <1>7, <1>8, <1>a, Zenon DEF Chained, n
<1> QED BY <1>1, <1>9, Zenon DEF n

LEMMA ThreadsSame ==
  ASSUME \A c \in Conns : thread'[c].pc = "got" <=> thread[c].pc = "got"
  PROVE  InThread' = InThread
BY DEF InThread

\* Steps of the session alone.
LEMMA QuietStep ==
  ASSUME TerminalsTypeOK, StreamInv,
         UNCHANGED <<taken, buffer, thread, net, screen, overlap, cut>>,
         conn' \in [Conns -> ConnRow], written' \in 0..MaxUnits,
         \A c \in Conns : conn'[c].pc = conn[c].pc /\ conn'[c].cursor = conn[c].cursor,
         term.status = "purged" => term'.status = "purged"
  PROVE  StreamTypeOK' /\ StreamInv'
<1>0. StreamTypeOK /\ BufferCursor \in Nat /\ MaxUnits \in Nat
  BY StreamRanges
<1>1. StreamTypeOK'
  BY <1>0, Zenon DEF StreamTypeOK
<1>2. BufferCursor' = BufferCursor /\ InThread' = InThread
  BY DEF BufferCursor, InThread
<1>3. ASSUME NEW c \in Conns PROVE ChainInv(c)'
  <2>1. Len(thread[c].out) \in Nat
    BY <1>0 DEF StreamTypeOK, ThreadRow
  <2>2. net \in [Conns -> Seq(Seq(Units))]
    BY <1>0 DEF StreamTypeOK
  <2> QED BY <1>0, <1>2, <2>1, <2>2, ChainKept DEF StreamInv
<1>4. (\A c \in Conns : ConnInv(c)') /\ OneAttached'
  BY DEF StreamInv, ConnInv, OneAttached, Attached
<1>5. SingleInv'
  BY <1>2 DEF StreamInv, SingleInv
<1>6. ReplayExact'
  BY DEF StreamInv, ReplayExact
<1> QED BY <1>1, <1>2, <1>3, <1>4, <1>5, <1>6 DEF StreamInv


\* Steps by which connections and threads move on or end, and no unit moves.
LEMMA PumpMoved ==
  ASSUME TerminalsTypeOK, StreamInv, (term.status = "purged" => term'.status = "purged"),
         UNCHANGED <<written, taken, buffer, screen, overlap, cut>>,
         conn' \in [Conns -> ConnRow], thread' \in [Conns -> ThreadRow],
         net' \in [Conns -> Seq(Seq(Units))],
         \A d \in Conns :
           /\ conn'[d].pc = "open" => conn[d].pc = "open" /\ net'[d] = net[d]
           /\ thread'[d].out = thread[d].out \/ thread'[d] = NoThread
           /\ thread'[d].pc # "none" => thread[d].pc # "none"
           /\ thread'[d].pc = "got" => thread'[d] = thread[d]
           /\ thread[d].pc = "got" => thread'[d].pc = "got" \/ term.status = "purged",
         \A d \in Conns : ConnInv(d)',
         OneAttached'
  PROVE  StreamTypeOK' /\ StreamInv'
<1>0. /\ StreamTypeOK /\ BufferCursor \in Nat /\ taken \in Nat /\ MaxUnits \in Nat
      /\ IsFiniteSet(InThread) /\ Cardinality(InThread) \in Nat
  BY StreamRanges
<1>1. StreamTypeOK'
  BY <1>0, Zenon DEF StreamTypeOK
<1>2. BufferCursor' = BufferCursor
  BY DEF BufferCursor
<1>3. InThread' \subseteq InThread /\ (term.status # "purged" => InThread' = InThread)
      /\ \A c \in InThread' : thread'[c] = thread[c]
  BY DEF InThread
<1>4. ASSUME NEW c \in Conns PROVE ChainInv(c)'
  <2>0. BufferCursor' \in Nat /\ BufferCursor <= BufferCursor'
    BY <1>0, <1>2
  <2>1. Len(thread[c].out) \in Nat /\ Len(thread'[c].out) \in Nat
    BY <1>0, <1>1 DEF StreamTypeOK, ThreadRow
  <2>2. ChainInv(c) /\ net \in [Conns -> Seq(Seq(Units))]
    BY <1>0 DEF StreamTypeOK, StreamInv
  <2>3. CASE conn'[c].pc # "open"
    BY <2>3 DEF ChainInv
  <2>4. CASE conn'[c].pc = "open" /\ thread'[c].out = thread[c].out
    <3>1. BufferCursor' + Len(thread[c].out) = BufferCursor + Len(thread'[c].out)
      BY <1>2, <2>4
    <3> QED BY <1>0, <2>0, <2>1, <2>2, <2>4, <3>1, ChainKept
  <2>5. CASE conn'[c].pc = "open" /\ thread'[c] = NoThread
    <3>1. thread'[c].pc = "none" /\ thread'[c].out = <<>> /\ Len(thread'[c].out) = 0
      BY <2>5 DEF NoThread
    <3>2. Len(thread'[c].out) <= Len(thread[c].out)
      BY <2>1, <3>1
    <3> QED BY <1>0, <2>0, <2>1, <2>2, <2>5, <3>1, <3>2, ChainKept
  <2> QED BY <2>3, <2>4, <2>5
<1>5. BufferCursor' + Cardinality(InThread') <= taken'
  <2>1. IsFiniteSet(InThread') /\ Cardinality(InThread') <= Cardinality(InThread)
    BY <1>0, <1>3, FS_Subset
  <2>2. Cardinality(InThread') \in Nat
    BY <2>1, FS_CardinalityType
  <2> HIDE DEF InThread
  <2> QED BY <1>0, <1>2, <2>1, <2>2 DEF StreamInv
<1>6. SingleInv'
  <2> SUFFICES ASSUME ~overlap PROVE SingleInv'
    BY DEF SingleInv
  <2>1. \A c, d \in Conns : thread'[c].pc # "none" /\ thread'[d].pc # "none" => c = d
    BY DEF StreamInv, SingleInv
  <2>2. ASSUME NEW c \in Conns, NEW i \in 1..Len(thread'[c].out)
        PROVE  thread'[c].out[i] + Len(thread'[c].out) = BufferCursor + i
    <3>1. CASE thread'[c].out = thread[c].out
      BY <2>2, <3>1 DEF StreamInv, SingleInv
    <3>2. CASE thread'[c] = NoThread
      <4>1. Len(thread'[c].out) = 0
        BY <3>2 DEF NoThread
      <4> QED BY <2>2, <4>1
    <3> QED BY <3>1, <3>2
  <2>3. term'.status # "purged" =>
          /\ \A c \in InThread' : thread'[c].unit = BufferCursor + 1 /\ taken = BufferCursor + 1
          /\ InThread' = {} => taken = BufferCursor
    BY <1>3 DEF StreamInv, SingleInv
  <2> QED BY <1>2, <2>1, <2>2, <2>3, Zenon DEF SingleInv
<1>7. ReplayExact'
  BY DEF StreamInv, ReplayExact
<1> QED BY <1>1, <1>2, <1>4, <1>5, <1>6, <1>7 DEF StreamInv


LEMMA PumpSteps ==
  ASSUME TerminalsTypeOK, SessionInv, StreamInv, (term.status = "purged" => term'.status = "purged"),
         NEW c \in Conns,
         \/ Connect(c) \/ Disconnect(c) \/ HandlerEnds(c) \/ BeginRead(c) \/ ReadRaises(c)
         \/ ReadUnit(c) /\ UNCHANGED taken
  PROVE  StreamTypeOK' /\ StreamInv'
<1>0. /\ conn \in [Conns -> ConnRow] /\ thread \in [Conns -> ThreadRow]
      /\ net \in [Conns -> Seq(Seq(Units))] /\ Len(screen) \in 0..MaxUnits
      /\ \A d \in Conns : ConnInv(d)
      /\ OneAttached /\ UNCHANGED <<written, taken, buffer, screen, overlap, cut>>
  <2>1. UNCHANGED <<written, taken, buffer, screen, overlap, cut>>
    BY DEF Connect, Disconnect, HandlerEnds, BeginRead, ReadRaises, ReadUnit
  <2> QED BY <2>1, StreamRanges DEF StreamTypeOK, StreamInv
<1>1. NoThread \in ThreadRow /\ NoThread.pc = "none" /\ NoThread.out = <<>> /\ <<>> \in Seq(Seq(Units))
  BY TerminalsAssumption DEF NoThread, ThreadRow
<1>2. CASE Connect(c)
  <2>1. /\ conn[c].pc = "new" /\ UNCHANGED <<thread, net>> /\ \A d \in Conns : ~Attached(d)
        /\ \A d \in Conns \ {c} : conn'[d] = conn[d]
        /\ conn'[c].pc \in {"accepted", "done"}
        /\ conn'[c].pc = "accepted" => conn'[c].cursor = Len(screen)
        /\ conn' \in [Conns -> ConnRow]
    <3>1. conn[c].pc = "new" /\ UNCHANGED <<thread, net>> /\ \A d \in Conns : ~Attached(d)
      BY <1>2 DEF Connect
    <3>2. CASE conn[c].ticket = "issued"
      <4>1. PICK pc \in {"accepted", "done"} :
              conn' = [conn EXCEPT ![c] = [pc |-> pc, cursor |-> Len(screen), ticket |-> "consumed"]]
        BY <1>2, <3>2 DEF Connect
      <4> QED BY <1>0, <3>1, <4>1 DEF ConnRow
    <3>3. CASE conn[c].ticket # "issued"
      <4>1. conn' = [conn EXCEPT ![c].pc = "done"]
        BY <1>2, <3>3 DEF Connect
      <4> QED BY <1>0, <3>1, <4>1 DEF ConnRow
    <3> QED BY <3>2, <3>3
  <2>2. OneAttached'
    BY <2>1 DEF OneAttached, Attached
  <2>3. \A d \in Conns : ConnInv(d)'
    BY <1>0, <2>1 DEF ConnInv
  <2> QED BY <1>0, <2>1, <2>2, <2>3, PumpMoved
<1>3. CASE Disconnect(c) \/ HandlerEnds(c)
  <2>1. /\ conn'[c].pc \in {"half", "done"} /\ conn' \in [Conns -> ConnRow]
        /\ \A d \in Conns \ {c} : conn'[d] = conn[d] /\ net'[d] = net[d] /\ thread'[d] = thread[d]
        /\ net'[c] = <<>>
    <3>1. CASE Disconnect(c)
      BY <1>0, <3>1 DEF Disconnect, ConnRow
    <3>2. CASE HandlerEnds(c)
      BY <1>0, <3>2 DEF HandlerEnds, ConnRow
    <3> QED BY <1>3, <3>1, <3>2
  <2>2. /\ thread' \in [Conns -> ThreadRow]
        /\ thread'[c] = thread[c] \/ (thread'[c] = NoThread /\ thread[c].pc = "pump")
    BY <1>0, <1>1, <1>3 DEF Disconnect, HandlerEnds
  <2>3. net' \in [Conns -> Seq(Seq(Units))]
    BY <1>0, <1>1, <1>3, Zenon DEF Disconnect, HandlerEnds
  <2>4. OneAttached'
    BY <1>0, <2>1 DEF OneAttached, Attached
  <2>5. \A d \in Conns : ConnInv(d)'
    BY <1>0, <1>1, <2>1, <2>2 DEF ConnInv
  <2> QED BY <1>0, <1>1, <2>1, <2>2, <2>3, <2>4, <2>5, PumpMoved
<1>4. CASE BeginRead(c) \/ ReadRaises(c) \/ (ReadUnit(c) /\ UNCHANGED taken)
  <2>1. UNCHANGED <<conn, net>> /\ thread[c].pc # "none"
    BY <1>4 DEF BeginRead, ReadRaises, ReadUnit
  <2>2. /\ thread' \in [Conns -> ThreadRow]
        /\ \A d \in Conns \ {c} : thread'[d] = thread[d]
        /\ \/ thread'[c] = NoThread
           \/ thread'[c].out = thread[c].out /\ thread'[c].pc \in {"select", "eof"}
        /\ thread[c].pc = "got" => term.status = "purged"
    <3>1. CASE BeginRead(c)
      BY <1>0, <1>1, <3>1 DEF BeginRead, ThreadRow
    <3>2. CASE ReadRaises(c)
      BY <1>0, <1>1, <3>2 DEF ReadRaises
    <3>3. CASE ReadUnit(c) /\ UNCHANGED taken
      <4>1. thread' = [thread EXCEPT ![c].pc = "eof"] /\ thread[c].pc = "select"
        <5>1. taken \in Nat
          BY StreamRanges
        <5> QED BY <3>3, <5>1 DEF ReadUnit
      <4> QED BY <1>0, <4>1 DEF ThreadRow
    <3> QED BY <1>4, <3>1, <3>2, <3>3
  <2>3. OneAttached'
    BY <1>0, <2>1 DEF OneAttached, Attached
  <2>4. \A d \in Conns : ConnInv(d)'
    BY <1>0, <1>1, <2>1, <2>2 DEF ConnInv
  <2> QED BY <1>0, <1>1, <2>1, <2>2, <2>3, <2>4, PumpMoved
<1> QED BY <1>2, <1>3, <1>4

LEMMA QuietSteps ==
  ASSUME TerminalsTypeOK, StreamInv, (term.status = "purged" => term'.status = "purged"),
         \/ HttpGet \/ BeginClose \/ EndClose \/ ShellWrites \/ ShellExits
         \/ \E c \in Conns : IssueTicket(c) \/ TicketExpires(c)
         \/ UNCHANGED terminalVars
  PROVE  StreamTypeOK' /\ StreamInv'
<1>0. conn \in [Conns -> ConnRow] /\ written \in 0..MaxUnits /\ MaxUnits \in Nat
  BY StreamRanges DEF StreamTypeOK
<1>1. UNCHANGED <<taken, buffer, thread, net, screen, overlap, cut>>
  BY DEF HttpGet, BeginClose, EndClose, ShellWrites, ShellExits, IssueTicket, TicketExpires,
         terminalVars
<1>2. written' \in 0..MaxUnits
  BY <1>0 DEF HttpGet, BeginClose, EndClose, ShellWrites, ShellExits, IssueTicket, TicketExpires,
              terminalVars
<1>3. /\ conn' \in [Conns -> ConnRow]
      /\ \A c \in Conns : conn'[c].pc = conn[c].pc /\ conn'[c].cursor = conn[c].cursor
  BY <1>0 DEF HttpGet, BeginClose, EndClose, ShellWrites, ShellExits, IssueTicket, TicketExpires,
              terminalVars, ConnRow
<1> QED BY <1>1, <1>2, <1>3, QuietStep


\* os.read returns a unit.
LEMMA ReadGotStep ==
  ASSUME TerminalsTypeOK, SessionInv, StreamInv, NEW c \in Conns, ReadUnit(c), taken' # taken
  PROVE  StreamTypeOK' /\ StreamInv'
<1>0. /\ StreamTypeOK /\ BufferCursor \in Nat /\ taken \in 0..MaxUnits /\ MaxUnits \in Nat
      /\ IsFiniteSet(InThread) /\ Cardinality(InThread) \in Nat
      /\ thread \in [Conns -> ThreadRow] /\ written \in 0..MaxUnits
  BY StreamRanges DEF StreamTypeOK
<1>1. /\ thread[c].pc = "select" /\ taken < written /\ taken' = taken + 1
      /\ thread' = [thread EXCEPT ![c].pc = "got", ![c].unit = taken + 1]
      /\ UNCHANGED <<term, written, buffer, conn, net, screen, overlap, cut>>
  BY DEF ReadUnit
<1>2. term.status = "running"
  BY Zenon DEF ReadUnit, SessionInv
<1>3. taken + 1 \in Units /\ taken' \in 0..MaxUnits
  BY <1>0, <1>1 DEF Units
<1>4. /\ thread' \in [Conns -> ThreadRow]
      /\ \A d \in Conns \ {c} : thread'[d] = thread[d]
      /\ thread'[c].pc = "got" /\ thread'[c].unit = taken + 1 /\ thread'[c].out = thread[c].out
  BY <1>0, <1>1, <1>3 DEF ThreadRow, Units
<1>5. StreamTypeOK'
  BY <1>0, <1>1, <1>3, <1>4, Zenon DEF StreamTypeOK
<1>6. BufferCursor' = BufferCursor
  BY <1>1 DEF BufferCursor
<1>7. InThread' = InThread \cup {c} /\ c \notin InThread
  BY <1>1, <1>4 DEF InThread
<1>8. BufferCursor' + Cardinality(InThread') <= taken'
  <2>1. Cardinality(InThread') = Cardinality(InThread) + 1
    BY <1>0, <1>7, FS_AddElement
  <2>2. BufferCursor + Cardinality(InThread) <= taken
    BY DEF StreamInv
  <2> HIDE DEF InThread
  <2> QED BY <1>0, <1>1, <1>6, <2>1, <2>2
<1>9. ASSUME NEW d \in Conns PROVE ConnInv(d)' /\ ChainInv(d)'
  <2>1. ConnInv(d)'
    <3>1. ConnInv(d) /\ NoThread.pc = "none" /\ taken + 1 # 0
      BY <1>0 DEF StreamInv, NoThread
    <3>2. CASE d = c
      BY <1>1, <1>4, <3>1, <3>2 DEF ConnInv
    <3>3. CASE d # c
      BY <1>1, <1>4, <3>1, <3>3 DEF ConnInv
    <3> QED BY <3>2, <3>3
  <2>2. /\ thread'[d].out = thread[d].out /\ Len(thread[d].out) \in Nat
        /\ thread'[d].pc # "none" => thread[d].pc # "none"
    BY <1>0, <1>1, <1>4 DEF ThreadRow
  <2>3. ChainInv(d) /\ net \in [Conns -> Seq(Seq(Units))]
    BY <1>0 DEF StreamTypeOK, StreamInv
  <2>4. /\ BufferCursor' \in Nat /\ BufferCursor <= BufferCursor'
        /\ BufferCursor' + Len(thread[d].out) = BufferCursor + Len(thread'[d].out)
        /\ Len(thread'[d].out) \in Nat
    BY <1>0, <1>6, <2>2
  <2> QED BY <1>0, <1>1, <2>1, <2>2, <2>3, <2>4, ChainKept
<1>10. OneAttached'
  BY <1>1 DEF StreamInv, OneAttached, Attached
<1>11. ReplayExact'
  BY <1>1 DEF StreamInv, ReplayExact
<1>12. SingleInv'
  <2> SUFFICES ASSUME ~overlap PROVE SingleInv'
    BY <1>1 DEF SingleInv
  <2>1. \A d \in Conns : thread[d].pc # "none" => d = c
    BY <1>1 DEF StreamInv, SingleInv
  <2>2. InThread = {} /\ InThread' = {c}
    <3>1. InThread = {}
      BY <1>1, <2>1 DEF InThread
    <3> QED BY <1>7, <3>1
  <2>3. taken = BufferCursor
    BY <1>2, <2>2 DEF StreamInv, SingleInv
  <2>4. \A d \in Conns : \A i \in 1..Len(thread'[d].out) :
          thread'[d].out[i] + Len(thread'[d].out) = BufferCursor' + i
    <3>1. \A d \in Conns : thread'[d].out = thread[d].out
      BY <1>4
    <3> QED BY <1>6, <3>1 DEF StreamInv, SingleInv
  <2>5. \A d, e \in Conns : thread'[d].pc # "none" /\ thread'[e].pc # "none" => d = e
    BY <1>4, <2>1
  <2>6. /\ \A d \in InThread' : thread'[d].unit = BufferCursor' + 1 /\ taken' = BufferCursor' + 1
        /\ InThread' # {}
    BY <1>1, <1>4, <1>6, <2>2, <2>3, Zenon
  <2> QED BY <2>4, <2>5, <2>6, Zenon DEF SingleInv
<1> QED BY <1>1, <1>5, <1>6, <1>8, <1>9, <1>10, <1>11, <1>12 DEF StreamInv

\* The unit goes to the buffer and to what the thread will send.
LEMMA StoreStep ==
  ASSUME TerminalsTypeOK, StreamInv, NEW c \in Conns, StoreUnit(c)
  PROVE  StreamTypeOK' /\ StreamInv'
<1> DEFINE unit == thread[c].unit
           out == thread[c].out
<1>0. /\ StreamTypeOK /\ BufferCursor \in Nat /\ taken \in 0..MaxUnits /\ MaxUnits \in Nat
      /\ IsFiniteSet(InThread) /\ Cardinality(InThread) \in Nat
      /\ thread \in [Conns -> ThreadRow] /\ buffer \in BufferRow
      /\ BufferCursor = CursorOf(buffer) /\ Len(screen) \in Nat
  BY StreamRanges DEF StreamTypeOK
<1>1. /\ thread[c].pc = "got" /\ term.status # "purged" /\ buffer' = Appended(buffer, unit)
      /\ thread' = [thread EXCEPT ![c] = [pc |-> "select", unit |-> 0, out |-> Append(out, unit)]]
      /\ UNCHANGED <<term, written, taken, conn, net, screen, overlap, cut>>
  BY <1>0 DEF StoreUnit
<1>2. unit \in Units /\ out \in Seq(Units) /\ Len(out) \in Nat
  BY <1>0, <1>1 DEF StreamInv, ConnInv, ThreadRow, Units
<1>3. InThread' = InThread \ {c} /\ c \in InThread
  BY <1>0, <1>1 DEF InThread
<1>4. Cardinality(InThread') \in Nat /\ Cardinality(InThread) = Cardinality(InThread') + 1
  <2>1. IsFiniteSet(InThread \ {c}) /\ Cardinality(InThread \ {c}) = Cardinality(InThread) - 1
    BY <1>0, <1>3, FS_RemoveElement
  <2>2. Cardinality(InThread \ {c}) \in Nat
    BY <2>1, FS_CardinalityType
  <2>3. \A n, m \in Nat : n = m - 1 => m = n + 1
    OBVIOUS
  <2> QED BY <1>0, <1>3, <2>1, <2>2, <2>3, Zenon
<1> HIDE DEF InThread
<1>5. BufferCursor < MaxUnits
  <2>1. BufferCursor + Cardinality(InThread) <= taken
    BY DEF StreamInv
  <2> QED BY <1>0, <1>4, <2>1
<1>6. /\ buffer' \in BufferRow /\ BufferCursor' = BufferCursor + 1
      /\ Len(buffer'.chunks) <= BufferUnits
      /\ Unbroken(buffer) /\ unit = BufferCursor + 1 => Unbroken(buffer')
  <2>1. Len(buffer.chunks) <= BufferUnits
    BY DEF StreamInv, ReplayExact
  <2>2. BufferCursor' = CursorOf(buffer')
    BY DEF BufferCursor, CursorOf
  <2> HIDE DEF unit
  <2> QED BY <1>0, <1>1, <1>2, <1>5, <2>1, <2>2, AppendedBuffer
<1>7. /\ \A d \in Conns \ {c} : thread'[d] = thread[d]
      /\ thread'[c].pc = "select" /\ thread'[c].unit = 0 /\ thread'[c].out = Append(out, unit)
      /\ thread' \in [Conns -> ThreadRow]
  BY <1>0, <1>1, <1>2 DEF ThreadRow
<1>8. /\ thread'[c].out \in Seq(Units) /\ Len(thread'[c].out) = Len(out) + 1
      /\ \A i \in 1..Len(out) : thread'[c].out[i] = out[i]
      /\ thread'[c].out[Len(out) + 1] = unit
  <2> HIDE DEF out, unit
  <2> QED BY <1>2, <1>7
<1>9. StreamTypeOK'
  BY <1>0, <1>1, <1>6, <1>7, Zenon DEF StreamTypeOK
<1>10. BufferCursor' + Cardinality(InThread') <= taken' /\ Len(screen') <= BufferCursor'
  <2>1. BufferCursor + Cardinality(InThread) <= taken /\ Len(screen) <= BufferCursor
    BY DEF StreamInv
  <2> QED BY <1>0, <1>1, <1>4, <1>6, <2>1
<1>11. \A d \in Conns : ConnInv(d)'
  <2>1. NoThread.pc = "none"
    BY DEF NoThread
  <2> QED BY <1>1, <1>7, <2>1 DEF StreamInv, ConnInv
<1>12. ~overlap => \A d \in Conns \ {c} : thread[d].pc = "none"
  BY <1>1 DEF StreamInv, SingleInv
<1>13. ASSUME NEW d \in Conns PROVE ChainInv(d)'
  <2>1. ChainInv(d) /\ net \in [Conns -> Seq(Seq(Units))]
    BY <1>0 DEF StreamTypeOK, StreamInv
  <2>2. BufferCursor' \in Nat /\ BufferCursor <= BufferCursor'
    BY <1>0, <1>6
  <2>3. CASE d = c
    <3>1. /\ Len(thread'[d].out) = Len(thread[d].out) + 1 /\ Len(thread[d].out) \in Nat
          /\ Len(thread'[d].out) \in Nat /\ thread[d].pc # "none"
      BY <1>1, <1>2, <1>8, <2>3
    <3>2. BufferCursor' + Len(thread[d].out) = BufferCursor + Len(thread'[d].out)
      BY <1>0, <1>6, <3>1
    <3> QED BY <1>0, <1>1, <2>1, <2>2, <3>1, <3>2, ChainKept
  <2>4. CASE d # c
    <3>1. thread'[d] = thread[d] /\ Len(thread[d].out) \in Nat
      BY <1>0, <1>7, <2>4 DEF ThreadRow
    <3>2. overlap' \/ thread'[d].pc = "none"
      BY <1>1, <1>12, <2>4, <3>1
    <3>3. Len(thread'[d].out) <= Len(thread[d].out)
      BY <3>1
    <3> QED BY <1>0, <1>1, <2>1, <2>2, <3>1, <3>2, <3>3, ChainKept
  <2> QED BY <2>3, <2>4
<1>14. OneAttached'
  BY <1>1 DEF StreamInv, OneAttached, Attached
<1>15. ~overlap => unit = BufferCursor + 1 /\ taken = BufferCursor + 1
  BY <1>1, <1>3 DEF StreamInv, SingleInv
<1>16. ReplayExact'
  <2>1. ~overlap => Unbroken(buffer')
    BY <1>6, <1>15 DEF StreamInv, ReplayExact, Unbroken
  <2> QED BY <1>1, <1>6, <2>1 DEF StreamInv, ReplayExact, Unbroken
<1>17. SingleInv'
  <2> SUFFICES ASSUME ~overlap PROVE SingleInv'
    BY <1>1 DEF SingleInv
  <2>1. InThread' = {}
    <3>1. \A d \in Conns : thread[d].pc = "got" => d = c
      BY <1>12
    <3> QED BY <1>3, <3>1 DEF InThread
  <2>2. \A d, e \in Conns : thread'[d].pc # "none" /\ thread'[e].pc # "none" => d = e
    BY <1>7, <1>12
  <2>3. ASSUME NEW i \in 1..Len(thread'[c].out)
        PROVE  thread'[c].out[i] + Len(thread'[c].out) = BufferCursor' + i
    <3>1. i \in Nat /\ i \in 1..(Len(out) + 1)
      BY <1>2, <1>8
    <3>2. CASE i \in 1..Len(out)
      <4>1. thread'[c].out[i] = out[i] /\ out[i] + Len(out) = BufferCursor + i
        BY <1>8, <3>2 DEF StreamInv, SingleInv
      <4>2. out[i] \in Nat
        <5>1. out[i] \in Units
          BY <1>2, <3>2
        <5> QED BY <1>0, <5>1 DEF Units
      <4>3. PICK x \in Nat, n \in Nat : x = out[i] /\ n = Len(out)
        BY <1>2, <4>2, Zenon
      <4>4. x + n = BufferCursor + i
        BY <4>1, <4>3, Zenon
      <4>5. x + (n + 1) = BufferCursor + 1 + i
        BY <1>0, <3>1, <4>4
      <4> QED BY <1>6, <1>8, <4>1, <4>3, <4>5, Zenon
    <3>3. CASE i = Len(out) + 1
      <4>1. thread'[c].out[i] = BufferCursor + 1
        BY <1>8, <1>15, <3>3
      <4> HIDE DEF out
      <4> QED BY <1>0, <1>2, <1>6, <1>8, <3>3, <4>1
    <3> QED BY <1>2, <3>1, <3>2, <3>3
  <2>4. ASSUME NEW d \in Conns \ {c}, NEW i \in 1..Len(thread'[d].out) PROVE FALSE
    <3>1. thread'[d].out = <<>>
      BY <1>7, <1>12 DEF StreamInv, ConnInv
    <3>2. Len(thread'[d].out) = 0
      BY <3>1
    <3> QED BY <2>4, <3>2
  <2>5. taken' = BufferCursor'
    BY <1>1, <1>6, <1>15
  <2>6. \A d \in Conns : \A i \in 1..Len(thread'[d].out) :
          thread'[d].out[i] + Len(thread'[d].out) = BufferCursor' + i
    BY <2>3, <2>4, Zenon
  <2> QED BY <2>1, <2>2, <2>5, <2>6, Zenon DEF SingleInv
<1> QED BY <1>9, <1>10, <1>11, <1>13, <1>14, <1>16, <1>17 DEF StreamInv


\* A message to c continues the ones before it.
LEMMA ChainGrown ==
  ASSUME NEW c \in Conns, NEW m \in Seq(Units), NEW s \in Seq(Seq(Units)),
         NEW off \in [1..(Len(s) + 1) -> 0..MaxUnits],
         BufferCursor \in 0..MaxUnits, MaxUnits \in Nat,
         net'[c] = Append(s, m), UNCHANGED <<screen, buffer>>, thread'[c].out = <<>>,
         off[1] = Len(screen),
         \A i \in 1..Len(s) : off[i + 1] = off[i] + Len(s[i]),
         \A i \in 1..(Len(s) + 1) : off[i] <= BufferCursor,
         off[Len(s) + 1] + Len(m) <= BufferCursor,
         ~overlap' /\ ~cut' =>
           /\ \A i \in 1..Len(s) : \A j \in 1..Len(s[i]) : s[i][j] = off[i] + j
           /\ \A j \in 1..Len(m) : m[j] = off[Len(s) + 1] + j
           /\ thread'[c].pc # "none" => off[Len(s) + 1] + Len(m) = BufferCursor
  PROVE  ChainInv(c)'
<1>0. PICK n \in Nat : n = Len(s)
  OBVIOUS
<1>1. Len(m) \in Nat
  OBVIOUS
<1>2. \A i \in 1..(n + 1) : off[i] \in 0..MaxUnits
  BY <1>0
<1>3. PICK last \in Nat : last = off[n + 1] /\ last + Len(m) <= BufferCursor
  <2>1. off[n + 1] \in 0..MaxUnits
    BY <1>0, <1>2
  <2>2. off[n + 1] \in Nat
    BY <2>1
  <2> QED BY <1>0, <2>2, Zenon
<1>4. PICK end \in Nat : end = last + Len(m) /\ end <= BufferCursor /\ end \in 0..MaxUnits
  <2>1. last + Len(m) \in Nat /\ last + Len(m) \in 0..MaxUnits
    BY <1>1, <1>3
  <2> QED BY <1>3, <2>1, Zenon
<1> DEFINE new == [i \in 1..(n + 2) |-> IF i = n + 2 THEN end ELSE off[i]]
<1>5. /\ Len(Append(s, m)) = n + 1 /\ Append(s, m)[n + 1] = m
      /\ \A i \in 1..n : Append(s, m)[i] = s[i]
  BY <1>0
<1>6. /\ new \in [1..(n + 2) -> 0..MaxUnits] /\ new[n + 2] = end
      /\ \A i \in 1..(n + 1) : new[i] = off[i]
  <2>1. \A i \in 1..(n + 2) : i = n + 2 \/ i \in 1..(n + 1)
    BY <1>0
  <2>2. n + 2 \in 1..(n + 2) /\ \A i \in 1..(n + 1) : i \in 1..(n + 2) /\ i # n + 2
    BY <1>0
  <2>3. new[n + 2] = end /\ \A i \in 1..(n + 1) : new[i] = off[i]
    BY <2>2, Zenon
  <2>4. \A i \in 1..(n + 2) : new[i] \in 0..MaxUnits
    BY <1>2, <1>4, <2>1, <2>3, Zenon
  <2> QED BY <2>3, <2>4, Zenon
<1> HIDE DEF new
<1>7. BufferCursor' = BufferCursor
  BY DEF BufferCursor
<1>8. /\ 1 \in 1..(n + 1) /\ n + 1 \in 1..(n + 1) /\ n + 1 + 1 = n + 2
      /\ \A i \in 1..(n + 2) : i \in 1..(n + 1) \/ i = n + 2
      /\ \A i \in 1..(n + 1) : i \in 1..n \/ i = n + 1
      /\ \A i \in 1..n : i \in 1..(n + 1) /\ i + 1 \in 1..(n + 1)
  BY <1>0
<1>9. new[1] = Len(screen')
  BY <1>6, <1>8, Zenon
<1>10. \A i \in 1..(n + 1) : new[i + 1] = new[i] + Len(Append(s, m)[i])
  <2> SUFFICES ASSUME NEW i \in 1..(n + 1) PROVE new[i + 1] = new[i] + Len(Append(s, m)[i])
    OBVIOUS
  <2>1. CASE i \in 1..n
    <3>1. new[i + 1] = off[i + 1] /\ new[i] = off[i] /\ Append(s, m)[i] = s[i]
      BY <1>5, <1>6, <1>8, <2>1
    <3> QED BY <1>0, <2>1, <3>1
  <2>2. CASE i = n + 1
    BY <1>3, <1>4, <1>5, <1>6, <1>8, <2>2, Zenon
  <2> QED BY <1>8, <2>1, <2>2
<1>11. \A i \in 1..(n + 2) : new[i] <= BufferCursor
  BY <1>0, <1>4, <1>6, <1>8, Zenon
<1>12. new[n + 2] + Len(thread'[c].out) = end /\ end <= BufferCursor
  <2>1. Len(thread'[c].out) = 0
    OBVIOUS
  <2>2. end + 0 = end
    OBVIOUS
  <2> QED BY <1>4, <1>6, <2>1, <2>2, Zenon
<1>13. ASSUME ~overlap', ~cut'
       PROVE  /\ \A i \in 1..(n + 1) : \A j \in 1..Len(Append(s, m)[i]) :
                   Append(s, m)[i][j] = new[i] + j
              /\ thread'[c].pc # "none" => end = BufferCursor
  <2>1. ASSUME NEW i \in 1..(n + 1), NEW j \in 1..Len(Append(s, m)[i])
        PROVE  Append(s, m)[i][j] = new[i] + j
    <3>1. CASE i \in 1..n
      <4>1. new[i] = off[i] /\ Append(s, m)[i] = s[i]
        BY <1>5, <1>6, <1>8, <3>1
      <4> QED BY <1>0, <1>13, <2>1, <3>1, <4>1
    <3>2. CASE i = n + 1
      BY <1>0, <1>3, <1>5, <1>6, <1>8, <1>13, <2>1, <3>2, Zenon
    <3> QED BY <1>8, <3>1, <3>2
  <2>2. thread'[c].pc # "none" => end = BufferCursor
    BY <1>0, <1>3, <1>4, <1>13, Zenon
  <2> QED BY <2>1, <2>2, Zenon
<1>14. Len(net'[c]) = n + 1
  BY <1>5, Zenon
<1>15. Chained(c, new)'
  <2> DEFINE t == net'[c]
  <2>1. /\ \A i \in 1..Len(t) : new[i + 1] = new[i] + Len(t[i])
        /\ \A i \in 1..(Len(t) + 1) : new[i] <= BufferCursor'
        /\ new[Len(t) + 1] + Len(thread'[c].out) <= BufferCursor'
    BY <1>7, <1>8, <1>10, <1>11, <1>12, <1>14, Zenon
  <2>2. ~overlap' /\ ~cut' =>
          /\ \A i \in 1..Len(t) : \A j \in 1..Len(t[i]) : t[i][j] = new[i] + j
          /\ thread'[c].pc # "none" => new[Len(t) + 1] + Len(thread'[c].out) = BufferCursor'
    <3> SUFFICES ASSUME ~overlap', ~cut'
                 PROVE  /\ \A i \in 1..Len(t) : \A j \in 1..Len(t[i]) : t[i][j] = new[i] + j
                        /\ thread'[c].pc # "none" =>
                             new[Len(t) + 1] + Len(thread'[c].out) = BufferCursor'
      OBVIOUS
    <3>1. thread'[c].pc # "none" => new[Len(t) + 1] + Len(thread'[c].out) = BufferCursor'
      BY <1>7, <1>8, <1>12, <1>13, <1>14, Zenon
    <3>2. ASSUME NEW i \in 1..Len(t), NEW j \in 1..Len(t[i]) PROVE t[i][j] = new[i] + j
      <4>1. i \in 1..(n + 1) /\ j \in 1..Len(Append(s, m)[i])
        BY <1>14, <3>2, Zenon
      <4>2. Append(s, m)[i][j] = new[i] + j
        BY <1>13, <4>1, Zenon
      <4> QED BY <4>2
    <3> QED BY <3>1, <3>2
  <2> QED BY <1>9, <2>1, <2>2, Zenon DEF Chained
<1> QED BY <1>6, <1>8, <1>14, <1>15, Zenon DEF ChainInv


\* The pane takes the first message.
LEMMA ChainReceived ==
  ASSUME TerminalsTypeOK, StreamInv, NEW c \in Conns, Receive(c)
  PROVE  /\ screen' \in Seq(Units) /\ net' \in [Conns -> Seq(Seq(Units))]
         /\ ChainInv(c)' /\ Len(screen') <= BufferCursor
         /\ ~overlap /\ ~cut => \A k \in 1..Len(screen') : screen'[k] = k
<1> DEFINE s == net[c]
           m == Head(s)
<1>0. /\ net \in [Conns -> Seq(Seq(Units))] /\ screen \in Seq(Units) /\ BufferCursor \in Nat
      /\ MaxUnits \in Nat
  BY StreamRanges DEF StreamTypeOK
<1>1. /\ conn[c].pc = "open" /\ s # <<>> /\ screen' = screen \o m
      /\ net' = [net EXCEPT ![c] = Tail(s)]
      /\ UNCHANGED <<buffer, conn, thread, overlap, cut>>
  BY <1>0 DEF Receive
<1>2. s \in Seq(Seq(Units))
  BY <1>0
<1>3. net'[c] = Tail(s)
  BY <1>0, <1>1
<1>4. PICK off \in [1..(Len(s) + 1) -> 0..MaxUnits] : Chained(c, off)
  BY <1>1 DEF StreamInv, ChainInv
<1>5. /\ off[1] = Len(screen)
      /\ \A i \in 1..Len(s) : off[i + 1] = off[i] + Len(s[i])
      /\ \A i \in 1..(Len(s) + 1) : off[i] <= BufferCursor
      /\ off[Len(s) + 1] + Len(thread[c].out) <= BufferCursor
      /\ ~overlap /\ ~cut =>
           /\ \A i \in 1..Len(s) : \A j \in 1..Len(s[i]) : s[i][j] = off[i] + j
           /\ thread[c].pc # "none" => off[Len(s) + 1] + Len(thread[c].out) = BufferCursor
  BY <1>4, Zenon DEF Chained
<1> HIDE DEF s
<1>6. PICK n \in Nat : n + 1 = Len(s)
  <2>1. Len(s) \in Nat /\ Len(s) # 0
    BY <1>1, <1>2
  <2>2. Len(s) - 1 \in Nat /\ Len(s) - 1 + 1 = Len(s)
    BY <2>1
  <2> QED BY <2>2
<1>7. /\ Tail(s) \in Seq(Seq(Units)) /\ Len(Tail(s)) = n
      /\ \A i \in 1..n : Tail(s)[i] = s[i + 1]
      /\ m = s[1] /\ m \in Seq(Units)
  <2>1. s # <<>>
    BY <1>1
  <2>2. Tail(s) \in Seq(Seq(Units)) /\ Len(Tail(s)) = n
    BY <1>2, <1>6, <2>1
  <2>3. \A i \in 1..n : Tail(s)[i] = s[i + 1]
    BY <1>2, <1>6, <2>1, <2>2
  <2>4. m = s[1] /\ m \in Seq(Units)
    BY <1>2, <1>6, <2>1
  <2> QED BY <2>2, <2>3, <2>4
<1> HIDE DEF m
<1>8. /\ screen' \in Seq(Units) /\ Len(screen') = Len(screen) + Len(m)
      /\ \A k \in 1..Len(screen) : screen'[k] = screen[k]
      /\ \A j \in 1..Len(m) : screen'[Len(screen) + j] = m[j]
      /\ Len(screen) \in Nat /\ Len(m) \in Nat
  BY <1>0, <1>1, <1>7
<1>9. /\ 1 \in 1..(n + 1) /\ 1 + 1 = 2 /\ 2 \in 1..(n + 2) /\ n + 1 + 1 = n + 2
      /\ \A i \in 1..n : i + 1 \in 1..(n + 1) /\ i \in 1..(n + 1)
      /\ \A i \in 1..(n + 1) : i + 1 \in 1..(n + 2)
  BY <1>6
<1>10. off[2] = Len(screen') /\ off[2] <= BufferCursor
  BY <1>5, <1>6, <1>7, <1>8, <1>9, Zenon
<1>11. net' \in [Conns -> Seq(Seq(Units))]
  BY <1>0, <1>1, <1>7, Zenon
<1>12. ChainInv(c)'
  <2> DEFINE new == [i \in 1..(n + 1) |-> off[i + 1]]
             t == net'[c]
  <2>1. /\ new \in [1..(n + 1) -> 0..MaxUnits]
        /\ \A i \in 1..(n + 1) : new[i] = off[i + 1]
    BY <1>4, <1>6, <1>9, Zenon
  <2> HIDE DEF new
  <2>2. Len(t) = n /\ \A i \in 1..n : t[i] = s[i + 1]
    BY <1>3, <1>7, Zenon
  <2> HIDE DEF t
  <2>3. new[1] = Len(screen')
    BY <1>9, <1>10, <2>1, Zenon
  <2>4. ASSUME NEW i \in 1..n PROVE new[i + 1] = new[i] + Len(t[i])
    <3>1. new[i + 1] = off[i + 1 + 1] /\ new[i] = off[i + 1] /\ t[i] = s[i + 1]
      BY <1>9, <2>1, <2>2, Zenon
    <3>2. off[i + 1 + 1] = off[i + 1] + Len(s[i + 1])
      BY <1>5, <1>6, <1>9, Zenon
    <3> QED BY <3>1, <3>2, Zenon
  <2>5. \A i \in 1..(n + 1) : new[i] <= BufferCursor
    BY <1>5, <1>6, <1>9, <2>1, Zenon
  <2>6. new[n + 1] = off[n + 2]
    <3>1. n + 1 \in 1..(n + 1)
      BY <1>6
    <3> QED BY <1>9, <2>1, <3>1, Zenon
  <2>7. ASSUME ~overlap, ~cut, NEW i \in 1..n, NEW j \in 1..Len(t[i])
        PROVE  t[i][j] = new[i] + j
    <3>1. new[i] = off[i + 1] /\ t[i] = s[i + 1]
      BY <1>9, <2>1, <2>2, Zenon
    <3>2. \A k \in 1..Len(s[i + 1]) : s[i + 1][k] = off[i + 1] + k
      BY <1>5, <1>6, <1>9, <2>7, Zenon
    <3> QED BY <2>7, <3>1, <3>2, Zenon
  <2>8. /\ new[n + 1] + Len(thread'[c].out) <= BufferCursor
        /\ ~overlap /\ ~cut /\ thread'[c].pc # "none" =>
             new[n + 1] + Len(thread'[c].out) = BufferCursor
    BY <1>1, <1>5, <1>6, <1>9, <2>6, Zenon
  <2>9. BufferCursor' = BufferCursor /\ overlap' = overlap /\ cut' = cut
    BY <1>1 DEF BufferCursor
  <2>10. Chained(c, new)'
    BY <2>2, <2>3, <2>4, <2>5, <2>7, <2>8, <2>9, Zenon DEF Chained, t
  <2> QED BY <2>1, <2>2, <2>10, Zenon DEF ChainInv, t
<1>13. ASSUME ~overlap, ~cut, NEW k \in 1..Len(screen') PROVE screen'[k] = k
  <2>1. CASE k \in 1..Len(screen)
    BY <1>8, <1>13, <2>1 DEF StreamInv, ReplayExact
  <2>2. CASE k \notin 1..Len(screen)
    <3>1. PICK j \in 1..Len(m) : k = Len(screen) + j
      <4>1. k \in Nat /\ k \in 1..(Len(screen) + Len(m))
        BY <1>8, <1>13
      <4>2. k - Len(screen) \in 1..Len(m) /\ k = Len(screen) + (k - Len(screen))
        BY <1>8, <2>2, <4>1
      <4> QED BY <4>2
    <3>2. m[j] = off[1] + j
      BY <1>5, <1>6, <1>7, <1>9, <1>13, <3>1, Zenon
    <3>3. screen'[k] = m[j]
      BY <1>8, <3>1, Zenon
    <3> QED BY <1>5, <3>1, <3>2, <3>3, Zenon
  <2> QED BY <2>1, <2>2
<1> QED BY <1>8, <1>10, <1>11, <1>12, <1>13

LEMMA ReceiveStep ==
  ASSUME TerminalsTypeOK, StreamInv, NEW c \in Conns, Receive(c)
  PROVE  StreamTypeOK' /\ StreamInv'
<1>0. StreamTypeOK
  BY StreamRanges
<1>1. /\ conn[c].pc = "open" /\ \A d \in Conns \ {c} : net'[d] = net[d]
      /\ UNCHANGED <<term, written, taken, buffer, conn, thread, overlap, cut>>
  BY <1>0 DEF Receive, StreamTypeOK
<1>2. StreamTypeOK'
  BY <1>0, <1>1, ChainReceived, Zenon DEF StreamTypeOK
<1>3. BufferCursor' = BufferCursor /\ InThread' = InThread
  BY <1>1 DEF BufferCursor, InThread
<1>4. \A d \in Conns \ {c} : ~Attached(d)
  BY <1>1 DEF StreamInv, OneAttached, Attached
<1>5. \A d \in Conns : ConnInv(d)'
  BY <1>1, <1>4 DEF StreamInv, ConnInv, Attached
<1>6. ASSUME NEW d \in Conns PROVE ChainInv(d)'
  <2>1. CASE d = c
    BY <2>1, ChainReceived
  <2>2. CASE d # c
    <3>1. conn'[d].pc # "open"
      BY <1>1, <1>4, <2>2 DEF Attached
    <3> QED BY <3>1 DEF ChainInv
  <2> QED BY <2>1, <2>2
<1>7. OneAttached' /\ SingleInv'
  BY <1>1, <1>3 DEF StreamInv, OneAttached, Attached, SingleInv
<1>8. ReplayExact'
  BY <1>1, ChainReceived DEF StreamInv, ReplayExact
<1> QED BY <1>1, <1>2, <1>3, <1>5, <1>6, <1>7, <1>8, ChainReceived DEF StreamInv


\* A thread that has ended, and a pump between two reads.
LEMMA FreshThreads ==
  \A t \in {NoThread, [NoThread EXCEPT !.pc = "pump"]} :
    /\ t \in ThreadRow /\ t.pc \in {"none", "pump"} /\ t.out = <<>>
    /\ t.pc = "none" => t = NoThread
<1>1. [NoThread EXCEPT !.pc = "pump"] = [pc |-> "pump", unit |-> 0, out |-> <<>>]
  BY DEF NoThread
<1>2. NoThread = [pc |-> "none", unit |-> 0, out |-> <<>>]
  BY DEF NoThread
<1>3. <<>> \in Seq(Units) /\ 0 \in 0..MaxUnits
  BY TerminalsAssumption
<1>4. \A p \in {"none", "pump"} :
        LET t == [pc |-> p, unit |-> 0, out |-> <<>>] IN
        t \in ThreadRow /\ t.pc = p /\ t.out = <<>>
  BY <1>3 DEF ThreadRow
<1>5. [NoThread EXCEPT !.pc = "pump"] \in ThreadRow /\ [NoThread EXCEPT !.pc = "pump"].pc = "pump"
      /\ [NoThread EXCEPT !.pc = "pump"].out = <<>>
  BY <1>1, <1>4
<1>6. NoThread \in ThreadRow /\ NoThread.pc = "none" /\ NoThread.out = <<>>
  BY <1>2, <1>4
<1> QED BY <1>5, <1>6

\* What the thread has read is sent, or dropped with its connection.
LEMMA FinishStep ==
  ASSUME TerminalsTypeOK, StreamInv, (term.status = "purged" => term'.status = "purged"),
         NEW c \in Conns, EndRead(c) \/ EndOfFile(c)
  PROVE  StreamTypeOK' /\ StreamInv'
<1> DEFINE out == thread[c].out
<1>0. /\ StreamTypeOK /\ BufferCursor \in 0..MaxUnits /\ MaxUnits \in Nat /\ BufferCursor \in Nat
      /\ thread \in [Conns -> ThreadRow] /\ net \in [Conns -> Seq(Seq(Units))]
  BY StreamRanges DEF StreamTypeOK
<1>1. /\ thread[c].pc \in {"select", "eof"} /\ Finish(c, term')
      /\ UNCHANGED <<written, taken, buffer, conn, screen, overlap, cut>>
  BY DEF EndRead, EndOfFile
<1>2. out \in Seq(Units) /\ Len(out) \in Nat /\ net[c] \in Seq(Seq(Units))
  BY <1>0 DEF ThreadRow
<1>3. /\ thread' \in [Conns -> ThreadRow]
      /\ thread'[c].pc \in {"none", "pump"} /\ thread'[c].out = <<>> /\ Len(thread'[c].out) = 0
      /\ thread'[c].pc = "none" => thread'[c] = NoThread
      /\ \A d \in Conns \ {c} : thread'[d] = thread[d]
  <2>1. thread'[c] \in {NoThread, [NoThread EXCEPT !.pc = "pump"]}
        /\ thread' = [thread EXCEPT ![c] = thread'[c]]
    BY <1>0, <1>1, Zenon DEF Finish
  <2>3. Len(<<>>) = 0
    OBVIOUS
  <2> QED BY <1>0, <2>1, <2>3, FreshThreads, Zenon
<1>4. /\ net' \in [Conns -> Seq(Seq(Units))]
      /\ \A d \in Conns \ {c} : net'[d] = net[d]
      /\ net'[c] = IF conn[c].pc = "open" /\ out # <<>> THEN Append(net[c], out) ELSE net[c]
  <2> HIDE DEF out
  <2>1. Append(net[c], out) \in Seq(Seq(Units))
    BY <1>2
  <2>2. net' = [net EXCEPT ![c] = IF conn[c].pc = "open" /\ out # <<>> THEN Append(net[c], out)
                                  ELSE net[c]]
    BY <1>0, <1>1 DEF Finish, out
  <2> QED BY <1>0, <1>2, <2>1, <2>2, Zenon
<1>5. StreamTypeOK'
  BY <1>0, <1>1, <1>3, <1>4, Zenon DEF StreamTypeOK
<1>6. BufferCursor' = BufferCursor /\ InThread' = InThread
  <2>1. \A d \in Conns : thread'[d].pc = "got" <=> thread[d].pc = "got"
    BY <1>1, <1>3
  <2> QED BY <1>1, <2>1, ThreadsSame DEF BufferCursor
<1>7. ASSUME NEW d \in Conns PROVE ConnInv(d)'
  <2>0. ConnInv(d) /\ NoThread.pc = "none"
    BY DEF StreamInv, NoThread
  <2>1. CASE d = c
    BY <1>1, <1>3, <1>4, <2>0, <2>1 DEF ConnInv
  <2>2. CASE d # c
    BY <1>1, <1>3, <1>4, <2>0, <2>2 DEF ConnInv
  <2> QED BY <2>1, <2>2
<1>8. ASSUME NEW d \in Conns PROVE ChainInv(d)'
  <2>0. ChainInv(d)
    BY DEF StreamInv
  <2>1. BufferCursor' \in Nat /\ BufferCursor <= BufferCursor'
    BY <1>0, <1>6
  <2>2. CASE d # c
    <3>1. thread'[d] = thread[d] /\ net'[d] = net[d] /\ Len(thread[d].out) \in Nat
      BY <1>0, <1>3, <1>4, <2>2 DEF ThreadRow
    <3>2. BufferCursor' + Len(thread[d].out) = BufferCursor + Len(thread'[d].out)
      BY <1>6, <3>1
    <3> QED BY <1>0, <1>1, <2>0, <2>1, <3>1, <3>2, ChainKept
  <2>3. CASE d = c /\ ~(conn[c].pc = "open" /\ out # <<>>)
    <3>1. CASE conn[c].pc # "open"
      BY <1>1, <2>3, <3>1 DEF ChainInv
    <3>2. CASE out = <<>>
      <4>1. Len(thread[d].out) = 0 /\ Len(thread'[d].out) = 0 /\ net'[d] = net[d]
        BY <1>3, <1>4, <2>3, <3>2
      <4>2. BufferCursor' + Len(thread[d].out) = BufferCursor + Len(thread'[d].out)
        BY <1>6, <4>1
      <4>3. thread[d].pc # "none"
        BY <1>1, <2>3
      <4>4. Len(thread[d].out) \in Nat /\ Len(thread'[d].out) \in Nat
        BY <4>1
      <4> QED BY <4>4, <1>0, <1>1, <2>0, <2>1, <4>1, <4>2, <4>3, ChainKept
    <3> QED BY <2>3, <3>1, <3>2
  <2>4. CASE d = c /\ conn[c].pc = "open" /\ out # <<>>
    <3> DEFINE s == net[c]
    <3>1. net'[c] = Append(s, out)
      BY <1>4, <2>4
    <3>2. PICK off \in [1..(Len(s) + 1) -> 0..MaxUnits] : Chained(c, off)
      BY <2>0, <2>4 DEF ChainInv
    <3>3. /\ off[1] = Len(screen)
          /\ \A i \in 1..Len(s) : off[i + 1] = off[i] + Len(s[i])
          /\ \A i \in 1..(Len(s) + 1) : off[i] <= BufferCursor
          /\ off[Len(s) + 1] + Len(out) <= BufferCursor
          /\ ~overlap /\ ~cut =>
               /\ \A i \in 1..Len(s) : \A j \in 1..Len(s[i]) : s[i][j] = off[i] + j
               /\ thread[c].pc # "none" => off[Len(s) + 1] + Len(out) = BufferCursor
      BY <3>2, Zenon DEF Chained
    <3> HIDE DEF s
    <3>4. s \in Seq(Seq(Units)) /\ off[Len(s) + 1] \in Nat
      <4>1. s \in Seq(Seq(Units))
        BY <1>2 DEF s
      <4>2. Len(s) + 1 \in 1..(Len(s) + 1)
        BY <4>1
      <4>3. off[Len(s) + 1] \in 0..MaxUnits
        BY <3>2, <4>2, Zenon
      <4> QED BY <4>1, <4>3
    <3>5. ASSUME ~overlap, ~cut
          PROVE  /\ off[Len(s) + 1] + Len(out) = BufferCursor
                 /\ \A j \in 1..Len(out) : out[j] = off[Len(s) + 1] + j
      <4>1. off[Len(s) + 1] + Len(out) = BufferCursor
        BY <1>1, <3>3, <3>5
      <4>2. ASSUME NEW j \in 1..Len(out) PROVE out[j] = off[Len(s) + 1] + j
        <5>1. out[j] + Len(out) = BufferCursor + j
          BY <3>5 DEF StreamInv, SingleInv
        <5>2. out[j] \in Units /\ j \in Nat
          BY <1>2
        <5>3. PICK x \in Nat, n \in Nat, o \in Nat : x = out[j] /\ n = Len(out) /\ o = off[Len(s) + 1]
          <6>1. out[j] \in Nat
            BY <1>0, <5>2 DEF Units
          <6> QED BY <1>2, <3>4, <6>1, Zenon
        <5>4. o + n + j = x + n
          BY <4>1, <5>1, <5>3, Zenon
        <5>5. x = o + j
          <6>1. PICK i \in Nat : i = j
            BY <5>2
          <6>2. o + n + i = x + n
            BY <5>4, <6>1, Zenon
          <6>3. x = o + i
            BY <6>2
          <6> QED BY <6>1, <6>3, Zenon
        <5> QED BY <5>3, <5>5, Zenon
      <4> QED BY <4>1, <4>2
    <3>6. ~overlap' /\ ~cut' =>
            /\ \A i \in 1..Len(s) : \A j \in 1..Len(s[i]) : s[i][j] = off[i] + j
            /\ \A j \in 1..Len(out) : out[j] = off[Len(s) + 1] + j
            /\ thread'[c].pc # "none" => off[Len(s) + 1] + Len(out) = BufferCursor
      BY <1>1, <3>3, <3>5, Zenon
    <3> HIDE DEF out
    <3> QED BY <1>0, <1>1, <1>2, <1>3, <2>4, <3>1, <3>3, <3>4, <3>6, ChainGrown, Zenon
  <2> QED BY <2>2, <2>3, <2>4
<1>9. OneAttached'
  BY <1>1 DEF StreamInv, OneAttached, Attached
<1>10. ReplayExact'
  BY <1>1 DEF StreamInv, ReplayExact
<1>11. SingleInv'
  <2> SUFFICES ASSUME ~overlap PROVE SingleInv'
    BY <1>1 DEF SingleInv
  <2>1. \A d, e \in Conns : thread'[d].pc # "none" /\ thread'[e].pc # "none" => d = e
    <3>1. \A d \in Conns : thread'[d].pc # "none" => thread[d].pc # "none"
      BY <1>1, <1>3
    <3> QED BY <3>1 DEF StreamInv, SingleInv
  <2>2. ASSUME NEW d \in Conns, NEW i \in 1..Len(thread'[d].out)
        PROVE  thread'[d].out[i] + Len(thread'[d].out) = BufferCursor + i
    <3>1. d # c
      BY <1>3, <2>2
    <3> QED BY <1>3, <2>2, <3>1 DEF StreamInv, SingleInv
  <2>3. \A d \in InThread : thread'[d] = thread[d]
    BY <1>1, <1>3 DEF InThread
  <2> QED BY <1>1, <1>6, <2>1, <2>2, <2>3 DEF StreamInv, SingleInv
<1> QED BY <1>1, <1>5, <1>6, <1>7, <1>8, <1>9, <1>10, <1>11 DEF StreamInv


\* history is sent to a pane that has received nothing since it connected.
LEMMA ReplayStep ==
  ASSUME TerminalsTypeOK, StreamInv, (term.status = "purged" => term'.status = "purged"),
         NEW c \in Conns, Replay(c)
  PROVE  StreamTypeOK' /\ StreamInv'
<1> DEFINE cursor == conn[c].cursor
           out == ReadFrom(buffer, cursor)
           pump == [NoThread EXCEPT !.pc = "pump"]
<1>0. /\ StreamTypeOK /\ BufferCursor \in 0..MaxUnits /\ MaxUnits \in Nat /\ BufferCursor \in Nat
      /\ thread \in [Conns -> ThreadRow] /\ net \in [Conns -> Seq(Seq(Units))]
      /\ conn \in [Conns -> ConnRow] /\ buffer \in BufferRow
      /\ BufferCursor = CursorOf(buffer) /\ Len(screen) \in 0..MaxUnits
      /\ Len(screen) <= BufferCursor
  BY StreamRanges DEF StreamTypeOK, StreamInv
<1>1. /\ conn[c].pc = "accepted" /\ UNCHANGED <<written, taken, buffer, screen>>
  BY DEF Replay
<1>2. /\ net[c] = <<>> /\ cursor = Len(screen) /\ thread[c] = NoThread
      /\ NoThread.pc = "none" /\ NoThread.out = <<>>
  BY <1>1 DEF StreamInv, ConnInv, NoThread
<1>3. \A d \in Conns \ {c} : ~Attached(d)
  BY <1>1 DEF StreamInv, OneAttached, Attached
<1>4. CASE term'.status = "purged"
  <2>1. conn' = [conn EXCEPT ![c].pc = "done"] /\ UNCHANGED <<thread, net, overlap, cut>>
    BY <1>4 DEF Replay
  <2>2. /\ conn' \in [Conns -> ConnRow] /\ conn'[c].pc = "done"
        /\ \A d \in Conns \ {c} : conn'[d] = conn[d]
    BY <1>0, <2>1 DEF ConnRow
  <2>3. \A d \in Conns : ConnInv(d)'
    BY <1>1, <1>2, <2>1, <2>2 DEF StreamInv, ConnInv
  <2>4. OneAttached'
    BY <2>2 DEF StreamInv, OneAttached, Attached
  <2> QED BY <1>0, <1>1, <2>1, <2>2, <2>3, <2>4, PumpMoved
<1>5. CASE term'.status # "purged"
  <2>1. /\ conn' = [conn EXCEPT ![c].pc = "open"]
        /\ net' = [net EXCEPT ![c] = IF out = <<>> THEN @ ELSE Append(@, out)]
        /\ thread' = [thread EXCEPT ![c] = pump]
        /\ overlap' = (overlap \/ \E d \in Conns \ {c} : thread[d] # NoThread)
        /\ cut' = (cut \/ cursor < buffer.start)
    BY <1>5, Zenon DEF Replay
  <2>2. /\ conn' \in [Conns -> ConnRow] /\ conn'[c].pc = "open"
        /\ \A d \in Conns \ {c} : conn'[d] = conn[d]
    BY <1>0, <2>1 DEF ConnRow
  <2>3. /\ overlap' \in BOOLEAN /\ cut' \in BOOLEAN
        /\ ~overlap' => ~overlap /\ \A d \in Conns \ {c} : thread[d] = NoThread
        /\ ~cut' => ~cut /\ ~(cursor < buffer.start)
    BY <2>1, Zenon
  <2>4. /\ pump \in ThreadRow /\ pump.pc = "pump" /\ pump.out = <<>>
    <3>1. pump.pc = "pump"
      BY DEF NoThread
    <3> QED BY <3>1, FreshThreads
  <2> HIDE DEF pump
  <2>5. /\ thread' \in [Conns -> ThreadRow] /\ thread'[c] = pump
        /\ \A d \in Conns \ {c} : thread'[d] = thread[d]
    BY <1>0, <2>1, <2>4, Zenon
  <2>6. /\ out \in Seq(Units) /\ Len(out) \in Nat /\ Len(screen) + Len(out) <= BufferCursor
        /\ ~cut' => Len(screen) + Len(out) = BufferCursor
        /\ ~overlap' /\ ~cut' => \A j \in 1..Len(out) : out[j] = Len(screen) + j
    <3>1. cursor \in 0..MaxUnits /\ cursor <= CursorOf(buffer)
      BY <1>0, <1>2
    <3>2. ~cut' => cursor >= buffer.start
      <4>1. cursor \in Nat /\ buffer.start \in Nat
        BY <1>0, <3>1 DEF BufferRow
      <4> QED BY <2>3, <4>1
    <3>3. ~overlap => Unbroken(buffer)
      BY DEF StreamInv, ReplayExact, Unbroken
    <3>4. /\ out \in Seq(Units) /\ Len(out) \in Nat /\ cursor + Len(out) <= CursorOf(buffer)
          /\ cursor >= buffer.start => cursor + Len(out) = CursorOf(buffer)
          /\ cursor >= buffer.start /\ Unbroken(buffer) => \A j \in 1..Len(out) : out[j] = cursor + j
      <4> HIDE DEF cursor
      <4> QED BY <1>0, <3>1, ReadFromBuffer
    <3> HIDE DEF out, cursor
    <3> QED BY <1>0, <1>2, <2>3, <3>2, <3>3, <3>4, Zenon
  <2> HIDE DEF out, cursor
  <2>7. /\ net' \in [Conns -> Seq(Seq(Units))]
        /\ \A d \in Conns \ {c} : net'[d] = net[d]
        /\ net'[c] = IF out = <<>> THEN <<>> ELSE Append(<<>>, out)
    <3>1. <<>> \in Seq(Seq(Units)) /\ Append(<<>>, out) \in Seq(Seq(Units))
      BY <2>6
    <3> QED BY <1>0, <1>2, <2>1, <3>1, Zenon
  <2>8. StreamTypeOK'
    BY <1>0, <1>1, <2>2, <2>3, <2>5, <2>7, Zenon DEF StreamTypeOK
  <2>9. BufferCursor' = BufferCursor /\ InThread' = InThread
    <3>1. \A d \in Conns : thread'[d].pc = "got" <=> thread[d].pc = "got"
      BY <1>2, <2>4, <2>5
    <3> QED BY <1>1, <3>1, ThreadsSame DEF BufferCursor
  <2>10. ASSUME NEW d \in Conns PROVE ConnInv(d)'
    <3>1. CASE d = c
      BY <2>2, <2>4, <2>5, <3>1 DEF ConnInv
    <3>2. CASE d # c
      <4>1. ConnInv(d)
        BY DEF StreamInv
      <4> QED BY <1>1, <2>2, <2>5, <2>7, <3>2, <4>1 DEF ConnInv
    <3> QED BY <3>1, <3>2
  <2>11. OneAttached'
    BY <1>3, <2>2 DEF OneAttached, Attached
  <2>12. ChainInv(c)'
    <3>1. PICK off \in [1..1 -> 0..MaxUnits] : off[1] = Len(screen)
      <4>1. [i \in 1..1 |-> Len(screen)] \in [1..1 -> 0..MaxUnits]
        BY <1>0
      <4>2. [i \in 1..1 |-> Len(screen)][1] = Len(screen)
        OBVIOUS
      <4> QED BY <4>1, <4>2, Zenon
    <3>2. Len(<<>>) = 0 /\ 0 + 1 = 1 /\ (\A i \in 1..0 : FALSE) /\ (\A i \in 1..1 : i = 1)
      OBVIOUS
    <3>3. thread'[c].out = <<>> /\ thread'[c].pc = "pump"
      BY <2>4, <2>5
    <3>4. CASE out # <<>>
      <4>1. net'[c] = Append(<<>>, out)
        BY <2>7, <3>4
      <4>2. <<>> \in Seq(Seq(Units)) /\ off \in [1..(Len(<<>>) + 1) -> 0..MaxUnits]
        <5>1. off \in [1..(Len(<<>>) + 1) -> 0..MaxUnits]
          BY <3>1, <3>2, Zenon
        <5> QED BY <5>1
      <4>3. /\ \A i \in 1..Len(<<>>) : off[i + 1] = off[i] + Len(<<>>[i])
            /\ \A i \in 1..(Len(<<>>) + 1) : off[i] <= BufferCursor
            /\ off[Len(<<>>) + 1] + Len(out) <= BufferCursor
        BY <1>0, <2>6, <3>1, <3>2, Zenon
      <4>4. ~overlap' /\ ~cut' =>
              /\ \A i \in 1..Len(<<>>) : \A j \in 1..Len(<<>>[i]) : <<>>[i][j] = off[i] + j
              /\ \A j \in 1..Len(out) : out[j] = off[Len(<<>>) + 1] + j
              /\ thread'[c].pc # "none" => off[Len(<<>>) + 1] + Len(out) = BufferCursor
        BY <2>6, <3>1, <3>2, Zenon
      <4>5. PICK s \in Seq(Seq(Units)) : s = <<>>
        BY <4>2
      <4> QED BY <1>0, <1>1, <2>6, <3>1, <3>3, <4>1, <4>2, <4>3, <4>4, <4>5, ChainGrown, Zenon
    <3>5. CASE out = <<>>
      <4>1. net'[c] = <<>> /\ Len(net'[c]) = 0
        BY <2>7, <3>2, <3>5
      <4>2. /\ Len(screen) + 0 <= BufferCursor
            /\ ~cut' => Len(screen) + 0 = BufferCursor
        BY <2>6, <3>2, <3>5
      <4>3. /\ Len(screen') = Len(screen) /\ Len(thread'[c].out) = 0 /\ BufferCursor' = BufferCursor
        BY <1>1, <2>9, <3>2, <3>3
      <4>4. Chained(c, off)'
        <5>1. /\ \A i \in 1..Len(net'[c]) : FALSE
              /\ \A i \in 1..(Len(net'[c]) + 1) : off[i] = Len(screen)
              /\ off[Len(net'[c]) + 1] = Len(screen)
          BY <3>1, <3>2, <4>1, Zenon
        <5>2. /\ off[1] = Len(screen')
              /\ \A i \in 1..(Len(net'[c]) + 1) : off[i] <= BufferCursor'
              /\ off[Len(net'[c]) + 1] + Len(thread'[c].out) <= BufferCursor'
              /\ ~cut' => off[Len(net'[c]) + 1] + Len(thread'[c].out) = BufferCursor'
          BY <1>0, <3>1, <4>2, <4>3, <5>1, Zenon
        <5> QED BY <5>1, <5>2, Zenon DEF Chained
      <4>5. off \in [1..(Len(net'[c]) + 1) -> 0..MaxUnits]
        BY <3>1, <3>2, <4>1, Zenon
      <4> QED BY <4>4, <4>5, Zenon DEF ChainInv
    <3> QED BY <3>4, <3>5
  <2>13. ASSUME NEW d \in Conns PROVE ChainInv(d)'
    <3>1. CASE d = c
      BY <2>12, <3>1
    <3>2. CASE d # c
      <4>1. conn'[d].pc # "open"
        BY <1>3, <2>2, <3>2 DEF Attached
      <4> QED BY <4>1 DEF ChainInv
    <3> QED BY <3>1, <3>2
  <2>14. SingleInv'
    <3> SUFFICES ASSUME ~overlap' PROVE SingleInv'
      BY DEF SingleInv
    <3>1. \A d \in Conns \ {c} : thread'[d] = NoThread
      BY <2>3, <2>5
    <3>2. \A d, e \in Conns : thread'[d].pc # "none" /\ thread'[e].pc # "none" => d = e
      BY <1>2, <3>1
    <3>3. ASSUME NEW d \in Conns, NEW i \in 1..Len(thread'[d].out) PROVE FALSE
      <4>1. thread'[d].out = <<>>
        BY <1>2, <2>4, <2>5, <3>1
      <4>2. Len(thread'[d].out) = 0
        BY <4>1
      <4> QED BY <3>3, <4>2
    <3>4. InThread' = {}
      BY <1>2, <2>4, <2>5, <3>1 DEF InThread
    <3>5. term'.status # "purged" => taken' = BufferCursor'
      BY <1>1, <2>3, <2>9, <3>4 DEF StreamInv, SingleInv
    <3> QED BY <3>2, <3>3, <3>4, <3>5, Zenon DEF SingleInv
  <2>15. ReplayExact'
    BY <1>1, <2>3 DEF StreamInv, ReplayExact
  <2> QED BY <1>0, <1>1, <2>8, <2>9, <2>10, <2>11, <2>13, <2>14, <2>15 DEF StreamInv
<1> QED BY <1>4, <1>5


LEMMA TerminalsInitInv ==
  ASSUME TerminalsInit
  PROVE  TerminalsInv
<1>1. [status |-> "running", process |-> TRUE] \in TermRow /\ TRUE \in BOOLEAN /\ FALSE \in BOOLEAN
  BY Zenon DEF TermRow
<1>2. /\ NoThread \in ThreadRow /\ NoThread.pc = "none" /\ NoThread.out = <<>>
  <2>1. NoThread.pc = "none"
    BY DEF NoThread
  <2> QED BY <2>1, FreshThreads
<1>3. /\ term = [status |-> "running", process |-> TRUE] /\ shell = TRUE /\ closing = FALSE
      /\ overlap = FALSE /\ cut = FALSE /\ written = 0 /\ taken = 0
      /\ buffer = [start |-> 0, chunks |-> <<>>] /\ screen = <<>>
      /\ conn = [c \in Conns |-> [pc |-> "new", cursor |-> 0, ticket |-> "none"]]
      /\ thread = [c \in Conns |-> NoThread] /\ net = [c \in Conns |-> <<>>]
  BY DEF TerminalsInit
<1>4. \A c \in Conns : conn[c].pc = "new" /\ thread[c] = NoThread /\ net[c] = <<>>
  BY <1>3
<1>5. buffer \in BufferRow /\ conn \in [Conns -> ConnRow] /\ net \in [Conns -> Seq(Seq(Units))]
      /\ screen \in Seq(Units) /\ written \in 0..MaxUnits /\ taken \in 0..MaxUnits
  BY <1>3, TerminalsAssumption DEF BufferRow, ConnRow
<1>6. thread \in [Conns -> ThreadRow]
  BY <1>2, <1>3, Zenon
<1>7. StreamTypeOK
  BY <1>1, <1>3, <1>5, <1>6, Zenon DEF StreamTypeOK
<1>8. TerminalsTypeOK
  BY <1>1, <1>3, <1>7, StreamTypes, Zenon
<1>9. SessionInv
  <2>1. term.status = "running" /\ term.process
    BY <1>3, Zenon
  <2> QED BY <1>2, <1>3, <1>4, <2>1, Zenon DEF SessionInv, NoOrphanShell
<1>10. buffer.start = 0 /\ buffer.chunks = <<>> /\ Len(<<>>) = 0 /\ BufferCursor = 0
  BY <1>3 DEF BufferCursor
<1>11. InThread = {}
  BY <1>2, <1>4 DEF InThread
<1>12. OneAttached /\ \A c \in Conns : ConnInv(c) /\ ChainInv(c)
  BY <1>2, <1>4 DEF OneAttached, Attached, ConnInv, ChainInv
<1>13. Len(screen) <= BufferCursor /\ BufferCursor + Cardinality(InThread) <= taken
  BY <1>3, <1>10, <1>11, FS_EmptySet
<1>14. SingleInv
  <2>1. \A c \in Conns : Len(thread[c].out) = 0
    BY <1>2, <1>4, <1>10
  <2>2. \A i \in 1..0 : FALSE
    OBVIOUS
  <2> QED BY <1>2, <1>3, <1>4, <1>10, <1>11, <2>1, <2>2, Zenon DEF SingleInv
<1>15. ReplayExact
  BY <1>3, <1>10, TerminalsAssumption DEF ReplayExact
<1> QED BY <1>8, <1>9, <1>12, <1>13, <1>14, <1>15 DEF TerminalsInv, StreamInv

LEMMA TerminalsStep ==
  ASSUME TerminalsInv, [TerminalsNext]_terminalVars
  PROVE  TerminalsInv'
<1>1. TerminalsTypeOK /\ SessionInv /\ StreamInv
  BY DEF TerminalsInv
<1>2. /\ SessionInv' /\ term' \in TermRow /\ shell' \in BOOLEAN /\ closing' \in BOOLEAN
      /\ term.status = "purged" => term'.status = "purged"
  BY <1>1, SessionStep
<1>3. StreamTypeOK' /\ StreamInv'
  <2>1. CASE \/ HttpGet \/ BeginClose \/ EndClose \/ ShellWrites \/ ShellExits
             \/ \E c \in Conns : IssueTicket(c) \/ TicketExpires(c)
             \/ UNCHANGED terminalVars
    BY <1>1, <1>2, <2>1, QuietSteps
  <2>2. ASSUME NEW c \in Conns,
               \/ Connect(c) \/ Disconnect(c) \/ HandlerEnds(c) \/ BeginRead(c) \/ ReadRaises(c)
        PROVE  StreamTypeOK' /\ StreamInv'
    BY <1>1, <1>2, <2>2, PumpSteps
  <2>3. ASSUME NEW c \in Conns, ReadUnit(c) PROVE StreamTypeOK' /\ StreamInv'
    <3>1. CASE taken' = taken
      BY <1>1, <1>2, <2>3, <3>1, PumpSteps
    <3>2. CASE taken' # taken
      BY <1>1, <2>3, <3>2, ReadGotStep
    <3> QED BY <3>1, <3>2
  <2>4. ASSUME NEW c \in Conns, Replay(c) PROVE StreamTypeOK' /\ StreamInv'
    BY <1>1, <1>2, <2>4, ReplayStep
  <2>5. ASSUME NEW c \in Conns, Receive(c) PROVE StreamTypeOK' /\ StreamInv'
    BY <1>1, <2>5, ReceiveStep
  <2>6. ASSUME NEW c \in Conns, StoreUnit(c) PROVE StreamTypeOK' /\ StreamInv'
    BY <1>1, <2>6, StoreStep
  <2>7. ASSUME NEW c \in Conns, EndRead(c) \/ EndOfFile(c) PROVE StreamTypeOK' /\ StreamInv'
    BY <1>1, <1>2, <2>7, FinishStep
  <2> QED BY <2>1, <2>2, <2>3, <2>4, <2>5, <2>6, <2>7 DEF TerminalsNext
<1>4. TerminalsTypeOK'
  BY <1>2, <1>3, Zenon DEF TerminalsTypeOK, StreamTypeOK, TermRow, BufferRow, ConnRow, ThreadRow
<1> QED BY <1>2, <1>3, <1>4 DEF TerminalsInv

LEMMA TerminalsInvariant == TerminalsSpec => []TerminalsInv
<1>1. TerminalsInv /\ [TerminalsNext]_terminalVars => TerminalsInv'
  BY TerminalsStep
<1> QED BY <1>1, TerminalsInitInv, PTL DEF TerminalsSpec

\* The variables of AgentTerminals keep their types: the buffer's start, the
\* cursor of every connection and the numbers of units stay within what the
\* shell has written, although threads of several connections read it.
THEOREM TerminalsTyped == TerminalsSpec => []TerminalsTypeOK
<1>1. TerminalsInv => TerminalsTypeOK
  BY DEF TerminalsInv
<1> QED BY <1>1, TerminalsInvariant, PTL

\* close, _mark_exited and the poll of get: a session that is not shown as
\* running has no shell left behind it.
THEOREM ShellNeverOrphaned == TerminalsSpec => []NoOrphanShell
<1>1. TerminalsInv => NoOrphanShell
  BY DEF TerminalsInv, SessionInv
<1> QED BY <1>1, TerminalsInvariant, PTL

\* ReplayBuffer and the pump: the pane holds the output from its first unit on,
\* each unit once and in order, over any number of reconnections, as long as
\* no replay was made while an earlier connection could still read and none
\* began before the retained range; and the buffer is an unbroken run.
THEOREM ReplayAlwaysExact == TerminalsSpec => []ReplayExact
<1>1. TerminalsInv => ReplayExact
  BY DEF TerminalsInv, StreamInv
<1> QED BY <1>1, TerminalsInvariant, PTL
==============================================================================
