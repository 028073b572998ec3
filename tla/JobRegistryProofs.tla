------------------------- MODULE JobRegistryProofs -------------------------
(***************************************************************************)
(* What JobRegistry promises of the registry, of cancellations, of cached  *)
(* statuses and of lists, for any jobs, printers and requests, any         *)
(* capacities and any times to live.                                       *)
(*                                                                         *)
(* The registry keeps a sequence and a map in step by filtering the        *)
(* sequence, so the first part is about Filtered.  It is defined by        *)
(* recursion over the sequence; what it returns is shown by taking the     *)
(* least length at which it would return something else.                   *)
(***************************************************************************)
EXTENDS JobRegistry, FiniteSetTheorems, NaturalsInduction, WellFoundedInduction, TLAPS

-----------------------------------------------------------------------------
(* Filtered.                                                               *)

LEMMA LessThanWellFounded == IsWellFoundedOn({ss \in Nat \X Nat : ss[1] < ss[2]}, Nat)
BY NatLessThanWellFounded DEF OpToRel

\* A set of numbers that is not empty has a least one.
LEMMA Least ==
    ASSUME NEW T \in SUBSET Nat, T # {}
    PROVE  \E n \in T : \A m \in T : n <= m
<1>1. PICK n \in T : \A m \in T : ~(<<m, n>> \in {ss \in Nat \X Nat : ss[1] < ss[2]})
  BY LessThanWellFounded, WFMin
<1>2. \A m \in T : ~(m < n)
  BY <1>1
<1>. QED BY <1>2

\* The recursion of Filtered, up to a length.
FiltersUpTo(f, s, kept, len) ==
    f = [n \in 0..len |-> IF n = 0 THEN <<>>
                          ELSE IF s[n] \in kept THEN Append(f[n-1], s[n]) ELSE f[n-1]]

LEMMA FiltersExist ==
    ASSUME NEW s, NEW kept, NEW len \in Nat
    PROVE  \E f : FiltersUpTo(f, s, kept, len)
<1>. DEFINE T == {n \in Nat : ~\E f : FiltersUpTo(f, s, kept, n)}
<1>. SUFFICES ASSUME T # {} PROVE FALSE
  OBVIOUS
<1>1. PICK n \in T : \A m \in T : n <= m
  BY Least
<1>2. n # 0
  <2>1. FiltersUpTo([k \in 0..0 |-> <<>>], s, kept, 0)
    BY DEF FiltersUpTo
  <2>. QED BY <2>1
<1>3. n - 1 \in Nat /\ n - 1 \notin T
  BY <1>1, <1>2
<1>4. PICK f : FiltersUpTo(f, s, kept, n - 1)
  BY <1>3
<1>. DEFINE g == [k \in 0..n |-> IF k = n THEN IF s[n] \in kept THEN Append(f[n-1], s[n]) ELSE f[n-1]
                                 ELSE f[k]]
<1>5. \A k \in 0..n-1 : f[k] = IF k = 0 THEN <<>>
                               ELSE IF s[k] \in kept THEN Append(f[k-1], s[k]) ELSE f[k-1]
  BY <1>3, <1>4 DEF FiltersUpTo
<1>6. \A k \in 0..n : g[k] = IF k = 0 THEN <<>>
                             ELSE IF s[k] \in kept THEN Append(g[k-1], s[k]) ELSE g[k-1]
  BY <1>2, <1>3, <1>5
<1>7. FiltersUpTo(g, s, kept, n)
  BY <1>6 DEF FiltersUpTo
<1>. QED BY <1>7

FilterOf(s, kept) == CHOOSE f : FiltersUpTo(f, s, kept, Len(s))

LEMMA FilteredDef ==
    ASSUME NEW S, NEW s \in Seq(S), NEW kept
    PROVE  /\ Filtered(s, kept) = FilterOf(s, kept)[Len(s)]
           /\ FilterOf(s, kept)[0] = <<>>
           /\ \A n \in 1..Len(s) :
                 FilterOf(s, kept)[n] = IF s[n] \in kept THEN Append(FilterOf(s, kept)[n-1], s[n])
                                        ELSE FilterOf(s, kept)[n-1]
<1>1. Filtered(s, kept) = FilterOf(s, kept)[Len(s)]
  BY Zenon DEF Filtered, FilterOf, FiltersUpTo
<1>2. Len(s) \in Nat
  OBVIOUS
<1>3. FiltersUpTo(FilterOf(s, kept), s, kept, Len(s))
  BY <1>2, FiltersExist DEF FilterOf
<1>4. PICK f : f = FilterOf(s, kept)
  OBVIOUS
<1>5. FiltersUpTo(f, s, kept, Len(s))
  BY <1>3, <1>4
<1>6. \A n \in 0..Len(s) : f[n] = IF n = 0 THEN <<>>
                                  ELSE IF s[n] \in kept THEN Append(f[n-1], s[n]) ELSE f[n-1]
  BY <1>2, <1>5 DEF FiltersUpTo
<1>7. f[0] = <<>> /\ \A n \in 1..Len(s) : f[n] = IF s[n] \in kept THEN Append(f[n-1], s[n]) ELSE f[n-1]
  BY <1>2, <1>6
<1>. QED BY <1>1, <1>4, <1>7

\* at places the result in the sequence: in order, the kept elements and no other.
Embeds(at, r, s, kept, len) ==
    /\ r \in Seq(kept) /\ Len(r) <= len
    /\ at \in [1..Len(r) -> 1..len]
    /\ \A i \in 1..Len(r) : r[i] = s[at[i]]
    /\ \A i, k \in 1..Len(r) : i < k => at[i] < at[k]
    /\ \A n \in 1..len : s[n] \in kept => \E i \in 1..Len(r) : at[i] = n

\* Filtering keeps what is to be kept, in its order.
LEMMA FilteredEmbeds ==
    ASSUME NEW S, NEW s \in Seq(S), NEW kept
    PROVE  \E at : Embeds(at, Filtered(s, kept), s, kept, Len(s))
<1>. DEFINE f == FilterOf(s, kept)
            T == {n \in Nat : n <= Len(s) /\ ~\E at : Embeds(at, f[n], s, kept, n)}
<1>0. Len(s) \in Nat
  OBVIOUS
<1>1. CASE T = {}
  BY <1>0, <1>1, FilteredDef
<1>2. CASE T # {}
  <2>1. PICK n \in T : \A m \in T : n <= m
    BY <1>2, Least
  <2>2. n # 0
    <3>1. Embeds(<<>>, <<>>, s, kept, 0)
      BY DEF Embeds
    <3>. QED BY <2>1, <3>1, FilteredDef
  <2>3. n \in 1..Len(s) /\ n - 1 \in Nat /\ n - 1 \notin T /\ n - 1 <= Len(s)
    BY <1>0, <2>1, <2>2
  <2>4. PICK r : r = f[n-1]
    OBVIOUS
  <2>5. f[n] = IF s[n] \in kept THEN Append(r, s[n]) ELSE r
    BY <2>3, <2>4, FilteredDef
  <2>. HIDE DEF f
  <2>6. PICK at : Embeds(at, r, s, kept, n - 1)
    BY <2>3, <2>4 DEF T
  <2>7. \E b : Embeds(b, f[n], s, kept, n)
    <3>0. /\ r \in Seq(kept) /\ Len(r) \in Nat /\ Len(r) <= n - 1
          /\ \A i \in 1..Len(r) : at[i] \in 1..n-1 /\ r[i] = s[at[i]]
          /\ \A i, k \in 1..Len(r) : i < k => at[i] < at[k]
          /\ \A m \in 1..n-1 : s[m] \in kept => \E i \in 1..Len(r) : at[i] = m
      <4>1. /\ r \in Seq(kept) /\ Len(r) <= n - 1 /\ at \in [1..Len(r) -> 1..n-1]
            /\ \A i \in 1..Len(r) : r[i] = s[at[i]]
        BY <2>6 DEF Embeds
      <4>2. /\ \A i, k \in 1..Len(r) : i < k => at[i] < at[k]
            /\ \A m \in 1..n-1 : s[m] \in kept => \E i \in 1..Len(r) : at[i] = m
        BY <2>6, Zenon DEF Embeds
      <4>3. Len(r) \in Nat
        BY <4>1
      <4>4. \A i \in 1..Len(r) : at[i] \in 1..n-1
        BY <4>1
      <4>. QED BY ONLY <4>1, <4>2, <4>3, <4>4
    <3>1. CASE s[n] \notin kept
      <4>1. at \in [1..Len(r) -> 1..n]
        BY <2>3, <2>6 DEF Embeds
      <4>2. \A m \in 1..n : s[m] \in kept => \E i \in 1..Len(r) : at[i] = m
        BY <2>3, <3>0, <3>1
      <4>3. Len(r) <= n
        BY <2>3, <3>0
      <4>4. Embeds(at, r, s, kept, n)
        BY ONLY <3>0, <4>1, <4>2, <4>3 DEF Embeds
      <4>. QED BY <2>5, <3>1, <4>4
    <3>2. CASE s[n] \in kept
      <4>1. PICK q : q = Append(r, s[n])
        OBVIOUS
      <4>2. /\ q \in Seq(kept) /\ Len(q) = Len(r) + 1
            /\ \A i \in 1..Len(r) : q[i] = r[i]
            /\ q[Len(r) + 1] = s[n]
        BY <3>0, <3>2, <4>1
      <4>3. PICK b : b = [i \in 1..Len(r)+1 |-> IF i <= Len(r) THEN at[i] ELSE n]
        OBVIOUS
      <4>4. /\ DOMAIN b = 1..Len(r)+1
            /\ \A i \in 1..Len(r) : b[i] = at[i]
            /\ b[Len(r)+1] = n
        BY <3>0, <4>3
      <4>5. b \in [1..Len(q) -> 1..n]
        BY <2>3, <3>0, <4>2, <4>3
      <4>6. \A i \in 1..Len(q) : q[i] = s[b[i]]
        <5>1. ASSUME NEW i \in 1..Len(q), i \in 1..Len(r) PROVE q[i] = s[b[i]]
          BY <3>0, <4>2, <4>4, <5>1
        <5>2. q[Len(r) + 1] = s[b[Len(r) + 1]]
          BY <4>2, <4>4
        <5>3. \A i \in 1..Len(q) : i \in 1..Len(r) \/ i = Len(r) + 1
          BY <3>0, <4>2
        <5>. QED BY <5>1, <5>2, <5>3
      <4>7. ASSUME NEW i \in 1..Len(q), NEW k \in 1..Len(q), i < k PROVE b[i] < b[k]
        <5>1. i \in 1..Len(r) /\ b[i] = at[i] /\ at[i] \in 1..n-1
          BY <3>0, <4>2, <4>4, <4>7
        <5>2. CASE k \in 1..Len(r)
          BY <3>0, <4>4, <4>7, <5>1, <5>2
        <5>3. CASE k = Len(r) + 1
          BY <2>3, <4>4, <5>1, <5>3
        <5>. QED BY <3>0, <4>2, <5>2, <5>3
      <4>8. ASSUME NEW m \in 1..n, s[m] \in kept PROVE \E i \in 1..Len(q) : b[i] = m
        <5>1. CASE m = n
          <6>1. Len(r) + 1 \in 1..Len(q)
            BY <3>0, <4>2
          <6>. QED BY <4>4, <5>1, <6>1
        <5>2. CASE m # n
          <6>1. m \in 1..n-1
            BY <2>3, <5>2
          <6>2. PICK i \in 1..Len(r) : at[i] = m
            BY <3>0, <4>8, <6>1
          <6>. QED BY <3>0, <4>2, <4>4, <6>2
        <5>. QED BY <5>1, <5>2
      <4>9. Len(q) <= n
        BY <2>3, <3>0, <4>2
      <4>10. Embeds(b, q, s, kept, n)
        BY ONLY <4>2, <4>5, <4>6, <4>7, <4>8, <4>9 DEF Embeds
      <4>. QED BY <2>5, <3>2, <4>1, <4>10
    <3>. QED BY <3>1, <3>2
  <2>. QED BY <2>1, <2>7
<1>. QED BY <1>1, <1>2

\* What the rest uses: a filtered sequence has the kept elements of the
\* sequence, and an element comes before another only if it did.
LEMMA FilteredFacts ==
    ASSUME NEW S, NEW s \in Seq(S), NEW kept
    PROVE  /\ Filtered(s, kept) \in Seq(S)
           /\ ToSet(Filtered(s, kept)) = ToSet(s) \cap kept
           /\ Len(Filtered(s, kept)) <= Len(s)
           /\ IsInjective(s) => IsInjective(Filtered(s, kept))
           /\ \A i, k \in DOMAIN Filtered(s, kept) : i < k =>
                 \E m, n \in DOMAIN s : m < n /\ Filtered(s, kept)[i] = s[m] /\ Filtered(s, kept)[k] = s[n]
<1>1. PICK r : r = Filtered(s, kept)
  OBVIOUS
<1>2. PICK at : Embeds(at, r, s, kept, Len(s))
  BY <1>1, FilteredEmbeds
<1>3. /\ r \in Seq(kept) /\ Len(r) \in Nat /\ Len(s) \in Nat
      /\ DOMAIN r = 1..Len(r) /\ DOMAIN s = 1..Len(s)
      /\ at \in [1..Len(r) -> 1..Len(s)] /\ Len(r) <= Len(s)
      /\ \A i \in 1..Len(r) : r[i] = s[at[i]] /\ r[i] \in kept
      /\ \A i, k \in 1..Len(r) : i < k => at[i] < at[k]
      /\ \A n \in 1..Len(s) : s[n] \in kept => \E i \in 1..Len(r) : at[i] = n
  BY <1>2 DEF Embeds
<1>4. r \in Seq(S)
  <2>1. \A i \in 1..Len(r) : r[i] \in S
    BY <1>3
  <2>2. r \in [1..Len(r) -> S]
    BY <1>3, <2>1
  <2>. QED BY <1>3, <2>2
<1>5. ToSet(r) = ToSet(s) \cap kept
  <2>1. ASSUME NEW i \in 1..Len(r) PROVE r[i] \in ToSet(s) \cap kept
    <3>1. at[i] \in DOMAIN s /\ r[i] = s[at[i]] /\ r[i] \in kept
      BY ONLY <1>3
    <3>. QED BY ONLY <3>1 DEF ToSet
  <2>2. ASSUME NEW n \in 1..Len(s), s[n] \in kept PROVE s[n] \in ToSet(r)
    <3>1. PICK i \in 1..Len(r) : at[i] = n
      BY ONLY <1>3, <2>2
    <3>2. i \in DOMAIN r /\ r[i] = s[n]
      BY ONLY <1>3, <3>1
    <3>. QED BY ONLY <3>2 DEF ToSet
  <2>3. ToSet(r) \subseteq ToSet(s) \cap kept
    BY ONLY <1>3, <2>1 DEF ToSet
  <2>4. ToSet(s) \cap kept \subseteq ToSet(r)
    BY ONLY <1>3, <2>2 DEF ToSet
  <2>. QED BY ONLY <2>3, <2>4
<1>6. \A i, k \in 1..Len(r) : i # k => at[i] # at[k]
  <2>1. \A i \in 1..Len(r) : at[i] \in 1..Len(s)
    BY <1>3
  <2>. QED BY ONLY <1>3, <2>1
<1>7. IsInjective(s) => IsInjective(r)
  BY <1>3, <1>6 DEF IsInjective
<1>8. \A i, k \in DOMAIN r : i < k => \E m, n \in DOMAIN s : m < n /\ r[i] = s[m] /\ r[k] = s[n]
  BY <1>3
<1>9. Len(r) <= Len(s)
  BY <1>3
<1>. QED BY <1>1, <1>4, <1>5, <1>7, <1>8, <1>9

-----------------------------------------------------------------------------
(* Sequences without repetition.                                           *)

LEMMA InjectiveLength ==
    ASSUME NEW S, NEW s \in Seq(S), IsInjective(s)
    PROVE  IsFiniteSet(ToSet(s)) /\ Cardinality(ToSet(s)) = Len(s)
<1>1. Len(s) \in Nat /\ DOMAIN s = 1..Len(s)
  OBVIOUS
<1>2. s \in [1..Len(s) -> ToSet(s)]
  BY <1>1 DEF ToSet
<1>3. s \in Bijection(1..Len(s), ToSet(s))
  <2>1. \A a, b \in 1..Len(s) : s[a] = s[b] => a = b
    BY <1>1 DEF IsInjective
  <2>2. \A t \in ToSet(s) : \E a \in 1..Len(s) : s[a] = t
    BY <1>1 DEF ToSet
  <2>. QED BY <1>2, <2>1, <2>2 DEF Bijection, Injection, Surjection, IsInjective
<1>4. ExistsBijection(1..Len(s), ToSet(s))
  BY <1>3 DEF ExistsBijection
<1>. QED BY <1>1, <1>4, FS_CountingElements, FS_NatBijection

LEMMA AppendFacts ==
    ASSUME NEW S, NEW s \in Seq(S), NEW e \in S
    PROVE  /\ Append(s, e) \in Seq(S) /\ Len(Append(s, e)) = Len(s) + 1
           /\ \A i \in 1..Len(s) : Append(s, e)[i] = s[i]
           /\ Append(s, e)[Len(s) + 1] = e
           /\ ToSet(Append(s, e)) = ToSet(s) \cup {e}
           /\ IsInjective(s) /\ e \notin ToSet(s) => IsInjective(Append(s, e))
<1>1. PICK q : q = Append(s, e)
  OBVIOUS
<1>2. /\ q \in Seq(S) /\ Len(q) = Len(s) + 1 /\ Len(s) \in Nat
      /\ \A i \in 1..Len(s) : q[i] = s[i]
      /\ q[Len(s) + 1] = e
      /\ DOMAIN q = 1..Len(q) /\ DOMAIN s = 1..Len(s)
  BY <1>1
<1>3. \A i \in DOMAIN q : i \in DOMAIN s \/ i = Len(s) + 1
  BY <1>2
<1>4. ToSet(q) = ToSet(s) \cup {e}
  <2>1. Len(s) + 1 \in DOMAIN q /\ DOMAIN s \subseteq DOMAIN q
    BY <1>2
  <2>. QED BY <1>2, <1>3, <2>1 DEF ToSet
<1>5. ASSUME IsInjective(s), e \notin ToSet(s) PROVE IsInjective(q)
  BY <1>2, <1>3, <1>5 DEF IsInjective, ToSet
<1>. QED BY <1>1, <1>2, <1>4, <1>5

LEMMA TailFacts ==
    ASSUME NEW S, NEW s \in Seq(S), s # <<>>, IsInjective(s)
    PROVE  /\ Tail(s) \in Seq(S) /\ Len(Tail(s)) = Len(s) - 1 /\ Len(s) > 0
           /\ \A i \in 1..Len(s)-1 : Tail(s)[i] = s[i + 1]
           /\ Head(s) = s[1]
           /\ ToSet(Tail(s)) = ToSet(s) \ {Head(s)}
           /\ IsInjective(Tail(s))
<1>1. PICK q : q = Tail(s)
  OBVIOUS
<1>2. /\ q \in Seq(S) /\ Len(q) = Len(s) - 1 /\ Len(s) \in Nat /\ Len(s) > 0
      /\ \A i \in 1..Len(q) : q[i] = s[i + 1]
      /\ Head(s) = s[1]
      /\ DOMAIN q = 1..Len(q) /\ DOMAIN s = 1..Len(s)
  BY <1>1
<1>3. \A i \in DOMAIN s : i = 1 \/ (i - 1 \in DOMAIN q /\ s[i] = q[i - 1])
  BY <1>2
<1>4. \A i \in DOMAIN q : i + 1 \in DOMAIN s /\ i + 1 # 1 /\ i \in Nat
  BY <1>2
<1>5. ToSet(q) = ToSet(s) \ {s[1]}
  <2>1. ASSUME NEW i \in DOMAIN q PROVE q[i] \in ToSet(s) \ {s[1]}
    <3>1. i + 1 \in DOMAIN s /\ 1 \in DOMAIN s /\ i + 1 # 1 /\ q[i] = s[i + 1]
      BY <1>2, <1>4
    <3>. QED BY <3>1 DEF ToSet, IsInjective
  <2>2. ASSUME NEW i \in DOMAIN s, s[i] # s[1] PROVE s[i] \in ToSet(q)
    BY <1>3, <2>2 DEF ToSet
  <2>. QED BY <2>1, <2>2 DEF ToSet
<1>6. IsInjective(q)
  <2>1. ASSUME NEW a \in DOMAIN q, NEW b \in DOMAIN q, q[a] = q[b] PROVE a = b
    <3>1. /\ a + 1 \in DOMAIN s /\ b + 1 \in DOMAIN s /\ a \in Nat /\ b \in Nat
          /\ s[a + 1] = s[b + 1]
      BY <1>2, <1>4, <2>1
    <3>2. a + 1 = b + 1
      BY <3>1 DEF IsInjective
    <3>. QED BY <3>1, <3>2
  <2>. QED BY <2>1 DEF IsInjective
<1>. QED BY <1>1, <1>2, <1>5, <1>6

-----------------------------------------------------------------------------
(* Types: those of TypeOK, without the bounds that the invariants give.    *)
Call == [phase : {"idle", "hit", "asking", "answered"},
         job : Jobs \cup {NoJob}, record : Record,
         seen : Visible \cup {"none"}, elapsed : 0..IppTimeout]

Entry == {Uncached} \cup [status : Visible \cup {"none"}, age : 0..StatusTtl - 1]

Shapes ==
    /\ cups \in [Jobs -> CupsState]
    /\ steady \in [Jobs -> 0..StatusTtl + IppTimeout]
    /\ order \in Seq(Jobs)
    /\ map \in [Jobs -> Record]
    /\ cache \in [Jobs -> Entry]
    /\ call \in [Callers -> Call]
    /\ \A c \in Callers : call[c].phase # "idle" => call[c].job \in Jobs
    /\ history \in Seq(Jobs)
    /\ canceled \subseteq Jobs

LEMMA Numbers ==
    /\ Limit \in Nat /\ Capacity \in Nat /\ RecordTtl \in Nat /\ CacheSize \in Nat
    /\ StatusTtl \in Nat /\ IppTimeout \in Nat
    /\ Capacity > 0 /\ RecordTtl > 0 /\ StatusTtl > 0 /\ Limit > 0 /\ IppTimeout > 0
BY RegistryAssumption

LEMMA Elements ==
    /\ NoRecord \in Record /\ NewRecord \in Record /\ ~NoRecord.known
    /\ NewRecord.known /\ ~NewRecord.canceled
    /\ Uncached \in Entry /\ Uncached.status = "uncached"
    /\ Idle \in Call /\ Idle.phase = "idle" /\ ~Idle.record.known
BY Numbers DEF NoRecord, NewRecord, Record, Uncached, Entry, Idle, Call, Visible

LEMMA ShapesInit == Init => Shapes
BY Numbers, Elements DEF Init, Shapes, CupsState

\* Where a record goes.  One that is there is replaced.  A new one is the last of
\* the order, and of a full registry the first goes from both.
LEMMA InsertFacts ==
    ASSUME Shapes, OrderMatchesMap,
           NEW j \in Jobs, NEW record \in Record, record.known, Insert(j, record)
    PROVE  /\ order' \in Seq(Jobs) /\ map' \in [Jobs -> Record]
           /\ OrderMatchesMap'
           /\ Known' \subseteq Known \cup {j}
           /\ map'[j] = record
           /\ \A i \in Jobs \ {j} : map'[i] = map[i] \/ map'[i] = NoRecord
           /\ \/ map[j].known /\ order' = order
              \/ ~map[j].known /\ order' = Append(order, j)
              \/ ~map[j].known /\ order # <<>> /\ order' = Append(Tail(order), j)
<1>0. /\ order \in Seq(Jobs) /\ Len(order) \in Nat /\ map \in [Jobs -> Record]
      /\ IsInjective(order) /\ ToSet(order) = Known /\ Len(order) <= Capacity
      /\ IsFiniteSet(Known) /\ Cardinality(Known) = Len(order)
  BY InjectiveLength DEF Shapes, OrderMatchesMap
<1>1. CASE map[j].known
  <2>1. Known \cup {j} = Known
    BY <1>1 DEF Known
  <2>2. ~(Cardinality(Known \cup {j}) > Capacity)
    <3>1. PICK n : n = Cardinality(Known \cup {j})
      OBVIOUS
    <3>2. n = Len(order)
      BY <1>0, <2>1, <3>1
    <3>3. ~(n > Capacity)
      BY <1>0, <3>2, Numbers
    <3>. QED BY <3>1, <3>3
  <2>3. /\ order' = order
        /\ map' = [i \in Jobs |-> IF i = j THEN record ELSE map[i]]
    BY <1>1, <2>2 DEF Insert
  <2>4. Known' = Known
    BY <1>0, <1>1, <2>3 DEF Known
  <2>5. OrderMatchesMap'
    BY <1>0, <2>3, <2>4 DEF OrderMatchesMap
  <2>. QED BY <1>0, <1>1, <2>3, <2>4, <2>5
<1>2. CASE ~map[j].known
  <2>1. PICK longer : longer = Append(order, j)
    OBVIOUS
  <2>2. /\ longer \in Seq(Jobs) /\ Len(longer) = Len(order) + 1
        /\ ToSet(longer) = Known \cup {j}
        /\ IsInjective(longer) /\ longer # <<>>
        /\ j \notin Known
    <3>1. j \notin Known
      BY <1>2 DEF Known
    <3>. QED BY <1>0, <2>1, <3>1, AppendFacts
  <2>3. Cardinality(Known \cup {j}) = Len(order) + 1
    BY <2>2, InjectiveLength
  <2>4. CASE Len(order) + 1 <= Capacity
    <3>1. /\ order' = longer
          /\ map' = [i \in Jobs |-> IF i = j THEN record ELSE map[i]]
      <4>1. PICK n : n = Cardinality(Known \cup {j})
        OBVIOUS
      <4>2. ~(n > Capacity)
        BY <1>0, <2>3, <2>4, <4>1, Numbers
      <4>. QED BY <1>2, <2>1, <4>1, <4>2 DEF Insert
    <3>2. Known' = Known \cup {j}
      BY <1>0, <3>1 DEF Known
    <3>3. OrderMatchesMap'
      BY <2>2, <2>4, <3>1, <3>2 DEF OrderMatchesMap
    <3>. QED BY <1>0, <1>2, <2>1, <2>2, <3>1, <3>2, <3>3
  <2>5. CASE Len(order) + 1 > Capacity
    <3>1. /\ order' = Tail(longer)
          /\ map' = [i \in Jobs |-> IF i = Head(longer) THEN NoRecord
                                    ELSE IF i = j THEN record ELSE map[i]]
      BY <1>0, <1>2, <2>1, <2>3, <2>5, Numbers DEF Insert
    <3>2. order # <<>> /\ Len(order) = Capacity
      BY <1>0, <2>5, Numbers
    <3>3. Head(longer) = Head(order) /\ Tail(longer) = Append(Tail(order), j)
      BY <1>0, <2>1, <3>2
    <3>4. Head(longer) \in Known /\ Head(longer) # j
      <4>1. Head(order) \in ToSet(order)
        BY <1>0, <3>2 DEF ToSet
      <4>. QED BY <1>0, <2>2, <3>3, <4>1
    <3>5. /\ Tail(longer) \in Seq(Jobs) /\ Len(Tail(longer)) = Len(order)
          /\ ToSet(Tail(longer)) = (Known \cup {j}) \ {Head(longer)}
          /\ IsInjective(Tail(longer))
      BY <1>0, <2>2, TailFacts
    <3>6. Known' = (Known \cup {j}) \ {Head(longer)}
      BY <1>0, <3>1, <3>4, Elements DEF Known
    <3>7. OrderMatchesMap'
      BY <1>0, <3>1, <3>5, <3>6 DEF OrderMatchesMap
    <3>8. map' \in [Jobs -> Record]
      BY <1>0, <3>1, Elements
    <3>. QED BY <1>0, <1>2, <3>1, <3>2, <3>3, <3>4, <3>5, <3>6, <3>7, <3>8
  <2>. QED BY <1>0, <2>4, <2>5, Numbers
<1>. QED BY <1>1, <1>2

-----------------------------------------------------------------------------
(* What each step does to the calls, the cache and the clocks.             *)

LEMMA StartFacts ==
    ASSUME Shapes, NEW c \in Callers, NEW j \in Jobs,
           NEW phase \in {"hit", "asking"}, NEW seen \in Visible \cup {"none"},
           Start(c, j, phase, seen)
    PROVE  /\ call' \in [Callers -> Call]
           /\ call'[c] = [phase |-> phase, job |-> j, record |-> map[j],
                          seen |-> seen, elapsed |-> 0]
           /\ \A b \in Callers \ {c} : call'[b] = call[b]
<1>1. [phase |-> phase, job |-> j, record |-> map[j], seen |-> seen, elapsed |-> 0] \in Call
  BY Numbers DEF Shapes, Call
<1>. QED BY <1>1 DEF Start, Shapes

LEMMA EndsFacts ==
    ASSUME Shapes, NEW c \in Callers, Ends(c)
    PROVE  /\ call' \in [Callers -> Call]
           /\ call'[c] = Idle
           /\ \A b \in Callers \ {c} : call'[b] = call[b]
BY Elements DEF Ends, Shapes

\* CUPS has answered a read or a cancellation.
LEMMA AnswerFacts ==
    ASSUME Shapes, NEW c \in Callers, NEW seen \in Visible \cup {"none"},
           call' = [call EXCEPT ![c].phase = "answered", ![c].seen = seen]
    PROVE  /\ call' \in [Callers -> Call]
           /\ call'[c].phase = "answered" /\ call'[c].seen = seen
           /\ call'[c].job = call[c].job /\ call'[c].record = call[c].record
           /\ call'[c].elapsed = call[c].elapsed
           /\ \A b \in Callers \ {c} : call'[b] = call[b]
<1>1. call[c] \in Call
  BY DEF Shapes
<1>2. [call[c] EXCEPT !.phase = "answered"] \in Call
  BY <1>1 DEF Call
<1>3. PICK x : x = [[call[c] EXCEPT !.phase = "answered"] EXCEPT !.seen = seen]
  OBVIOUS
<1>4. x \in Call
  BY <1>2, <1>3 DEF Call
<1>5. /\ x.phase = "answered" /\ x.seen = seen /\ x.job = call[c].job
      /\ x.record = call[c].record /\ x.elapsed = call[c].elapsed
  BY <1>1, <1>3 DEF Call
<1>6. call' = [call EXCEPT ![c] = x]
  BY <1>3
<1>. QED BY <1>4, <1>5, <1>6 DEF Shapes

LEMMA CupsMovesFacts ==
    ASSUME Shapes, NEW j \in Jobs, NEW to \in CupsState, CupsMoves(j, to)
    PROVE  /\ cups' \in [Jobs -> CupsState]
           /\ steady' \in [Jobs -> 0..StatusTtl + IppTimeout]
           /\ cups'[j] = to /\ steady'[j] = 0
           /\ \A i \in Jobs \ {j} : cups'[i] = cups[i] /\ steady'[i] = steady[i]
BY Numbers DEF CupsMoves, Shapes

LEMMA OlderFacts ==
    ASSUME NEW record \in Record
    PROVE  /\ Older(record) \in Record
           /\ Older(record).known = record.known
           /\ Older(record).canceled = record.canceled
<1>1. Later(record.age, RecordTtl) \in 0..RecordTtl
  BY Numbers DEF Record, Later
<1>2. PICK age : age = Later(record.age, RecordTtl)
  OBVIOUS
<1>3. Older(record) = IF record.known THEN [record EXCEPT !.age = age] ELSE record
  BY <1>2 DEF Older
<1>. QED BY <1>1, <1>2, <1>3 DEF Record

LEMMA TickFacts ==
    ASSUME Shapes, Tick
    PROVE  /\ Shapes' /\ UNCHANGED <<cups, order, listing, history, canceled>>
           /\ \A j \in Jobs : map'[j].known = map[j].known /\ map'[j].canceled = map[j].canceled
           /\ \A c \in Callers :
                 /\ call[c].phase # "hit"
                 /\ call'[c].phase = call[c].phase
                 /\ call'[c].job = call[c].job /\ call'[c].seen = call[c].seen
                 /\ call'[c].record.known = call[c].record.known
                 /\ call[c].phase # "idle" => /\ call'[c].elapsed = call[c].elapsed + 1
                                              /\ call[c].elapsed < IppTimeout
           /\ \A j \in Jobs :
                 \/ cache'[j] = Uncached
                 \/ /\ cache[j] # Uncached /\ cache'[j].status = cache[j].status
                    /\ cache'[j].age = cache[j].age + 1
           /\ \A j \in Jobs : steady'[j] <= steady[j] + 1
<1>. USE Numbers
<1>1. ASSUME NEW j \in Jobs
      PROVE  /\ map'[j] \in Record /\ map'[j].known = map[j].known
             /\ map'[j].canceled = map[j].canceled
  BY OlderFacts DEF Tick, Shapes
<1>2. ASSUME NEW j \in Jobs
      PROVE  /\ steady'[j] \in 0..StatusTtl + IppTimeout
             /\ steady'[j] <= steady[j] + 1
  <2>1. steady'[j] = Later(steady[j], StatusTtl + IppTimeout) /\ steady[j] \in 0..StatusTtl + IppTimeout
    BY DEF Tick, Shapes
  <2>. QED BY <2>1 DEF Later
<1>3. ASSUME NEW j \in Jobs
      PROVE  /\ cache'[j] \in Entry
             /\ \/ cache'[j] = Uncached
                \/ /\ cache[j] # Uncached /\ cache'[j].status = cache[j].status
                   /\ cache'[j].age = cache[j].age + 1
  <2>1. cache[j] \in Entry /\ cache'[j] = Aged(cache[j])
    BY DEF Tick, Shapes
  <2>2. PICK e : e = cache[j]
    OBVIOUS
  <2>3. CASE e = Uncached \/ e.age + 1 >= StatusTtl
    BY <2>1, <2>2, <2>3, Elements DEF Aged
  <2>4. CASE ~(e = Uncached \/ e.age + 1 >= StatusTtl)
    <3>1. cache'[j] = [e EXCEPT !.age = e.age + 1] /\ e.age + 1 \in 0..StatusTtl - 1
      BY <2>1, <2>2, <2>4 DEF Aged, Entry
    <3>. QED BY <2>1, <2>2, <2>4, <3>1 DEF Entry
  <2>. QED BY <2>3, <2>4
<1>4. ASSUME NEW c \in Callers
      PROVE  /\ call'[c] \in Call
             /\ call[c].phase # "hit"
             /\ call'[c].phase = call[c].phase
             /\ call'[c].job = call[c].job /\ call'[c].seen = call[c].seen
             /\ call'[c].record.known = call[c].record.known
             /\ call[c].phase # "idle" => /\ call'[c].elapsed = call[c].elapsed + 1
                                          /\ call[c].elapsed < IppTimeout
  <2>1. /\ call[c] \in Call /\ call'[c] = Waited(call[c])
        /\ call[c].phase # "hit"
        /\ call[c].phase # "idle" => call[c].elapsed < IppTimeout
    BY DEF Tick, Shapes, InTime
  <2>2. CASE call[c].phase = "idle"
    BY <2>1, <2>2 DEF Waited
  <2>3. CASE call[c].phase # "idle"
    <3>1. PICK e : e = call[c].elapsed + 1
      OBVIOUS
    <3>2. PICK r : r = Older(call[c].record)
      OBVIOUS
    <3>3. e \in 0..IppTimeout /\ r \in Record /\ r.known = call[c].record.known
      BY <2>1, <2>3, <3>1, <3>2, OlderFacts DEF Call
    <3>4. call'[c] = [[call[c] EXCEPT !.elapsed = e] EXCEPT !.record = r]
      BY <2>1, <2>3, <3>1, <3>2 DEF Waited
    <3>5. [call[c] EXCEPT !.elapsed = e] \in Call
      BY <2>1, <3>3 DEF Call
    <3>6. call'[c] \in Call
      BY <3>3, <3>4, <3>5 DEF Call
    <3>7. /\ call'[c].phase = call[c].phase /\ call'[c].job = call[c].job
          /\ call'[c].seen = call[c].seen /\ call'[c].record = r /\ call'[c].elapsed = e
      BY <2>1, <3>4 DEF Call
    <3>. QED BY <2>1, <3>1, <3>3, <3>6, <3>7
  <2>. QED BY <2>2, <2>3
<1>5. /\ map' \in [Jobs -> Record] /\ steady' \in [Jobs -> 0..StatusTtl + IppTimeout]
      /\ cache' \in [Jobs -> Entry] /\ call' \in [Callers -> Call]
  BY <1>1, <1>2, <1>3, <1>4 DEF Tick
<1>6. UNCHANGED <<cups, order, listing, history, canceled>>
  BY DEF Tick, ghosts
<1>7. Shapes'
  BY <1>4, <1>5, <1>6 DEF Shapes
<1>. QED BY <1>1, <1>2, <1>3, <1>4, <1>6, <1>7

-----------------------------------------------------------------------------
(* The registry.                                                           *)

\* Every record, recorded cancellation and copy of a record is of a job that
\* was registered once, and that CUPS created before.
Histories ==
    /\ IsInjective(history)
    /\ Known \subseteq ToSet(history)
    /\ canceled \subseteq ToSet(history)
    /\ \A c \in Callers : call[c].record.known => call[c].job \in ToSet(history)
    /\ \A j \in ToSet(history) : cups[j] # "none"

Registry == Shapes /\ OrderMatchesMap /\ Histories /\ NewestFirst /\ CancelRemembered

\* The place of a registered job in a history.
PlaceIn(h, j) == CHOOSE n \in DOMAIN h : h[n] = j

LEMMA PlaceFacts ==
    ASSUME NEW h \in Seq(Jobs), IsInjective(h), NEW n \in DOMAIN h
    PROVE  PlaceIn(h, h[n]) = n
BY DEF PlaceIn, IsInjective

LEMMA RegistryInit == Init => Registry
<1>. SUFFICES ASSUME Init PROVE Registry
  OBVIOUS
<1>1. DOMAIN order = {} /\ DOMAIN history = {} /\ Len(order) = 0
  BY DEF Init
<1>2. Known = {} /\ ToSet(order) = {} /\ ToSet(history) = {}
  BY <1>1, Elements DEF Init, Known, ToSet
<1>3. OrderMatchesMap
  BY <1>1, <1>2, Numbers DEF OrderMatchesMap, IsInjective
<1>4. Histories
  BY <1>1, <1>2, Elements DEF Init, Histories, IsInjective
<1>5. NewestFirst /\ CancelRemembered
  BY <1>1 DEF Init, NewestFirst, CancelRemembered
<1>. QED BY <1>3, <1>4, <1>5, ShapesInit DEF Registry

\* Appending, with or without the first going, keeps the order of what was there.
LEMMA AppendKeepsOrder ==
    ASSUME NEW q \in Seq(Jobs), NEW j \in Jobs, NEW r,
           r = Append(q, j) \/ (q # <<>> /\ r = Append(Tail(q), j))
    PROVE  \A n \in DOMAIN r : \A m \in 1..n-1 :
              /\ r[m] \in ToSet(q)
              /\ r[n] = j \/ \E k \in DOMAIN q : \E i \in 1..k-1 : r[n] = q[k] /\ r[m] = q[i]
<1>. SUFFICES ASSUME NEW n \in DOMAIN r, NEW m \in 1..n-1
              PROVE  /\ r[m] \in ToSet(q)
                     /\ r[n] = j \/ \E k \in DOMAIN q : \E i \in 1..k-1 : r[n] = q[k] /\ r[m] = q[i]
  OBVIOUS
<1>1. CASE r = Append(q, j)
  <2>1. /\ Len(q) \in Nat /\ DOMAIN q = 1..Len(q) /\ DOMAIN r = 1..Len(q)+1
        /\ \A i \in 1..Len(q) : r[i] = q[i]
        /\ r[Len(q)+1] = j
    BY <1>1
  <2>2. m \in 1..Len(q) /\ (n \in 1..Len(q) \/ n = Len(q) + 1)
    BY <2>1
  <2>. QED BY <2>1, <2>2 DEF ToSet
<1>2. CASE q # <<>> /\ r = Append(Tail(q), j)
  <2>1. /\ Len(q) \in Nat /\ Len(q) > 0 /\ DOMAIN q = 1..Len(q) /\ DOMAIN r = 1..Len(q)
        /\ \A i \in 1..Len(q)-1 : r[i] = q[i+1]
        /\ r[Len(q)] = j
    <3>1. PICK t : t = Tail(q)
      OBVIOUS
    <3>2. /\ t \in Seq(Jobs) /\ Len(t) = Len(q) - 1 /\ Len(q) \in Nat /\ Len(q) > 0
          /\ \A i \in 1..Len(t) : t[i] = q[i+1]
      BY <1>2, <3>1
    <3>3. /\ DOMAIN r = 1..Len(t)+1 /\ \A i \in 1..Len(t) : r[i] = t[i]
          /\ r[Len(t)+1] = j
      <4>1. r = Append(t, j)
        BY <1>2, <3>1
      <4>2. r \in Seq(Jobs) /\ Len(r) = Len(t) + 1
        BY <3>2, <4>1, AppendFacts
      <4>. QED BY <3>2, <4>1, <4>2, AppendFacts
    <3>4. DOMAIN q = 1..Len(q) /\ Len(t) + 1 = Len(q)
      BY <3>2
    <3>. QED BY <3>2, <3>3, <3>4
  <2>5. n \in 1..Len(q) /\ Len(q) \in Nat
    BY <2>1
  <2>0. n \in Nat /\ m \in Nat /\ 1 <= m /\ m <= n - 1 /\ n <= Len(q)
    BY <2>5
  <2>6. m \in 1..Len(q)-1 /\ m + 1 \in 1..Len(q)
    BY <2>0, <2>5
  <2>2. m \in 1..Len(q)-1 /\ m + 1 \in DOMAIN q /\ r[m] = q[m+1]
    BY <2>6, <2>1
  <2>3. CASE n = Len(q)
    BY <2>1, <2>2, <2>3 DEF ToSet
  <2>4. CASE n # Len(q)
    <3>1. n + 1 \in DOMAIN q /\ r[n] = q[n+1] /\ m + 1 \in 1..(n+1)-1
      <4>1. n \in 1..Len(q)-1 /\ n + 1 \in 1..Len(q) /\ m + 1 \in 1..(n+1)-1
        BY <2>0, <2>4, <2>5
      <4>. QED BY <2>1, <4>1
    <3>. QED BY <2>2, <3>1 DEF ToSet
  <2>. QED BY <2>3, <2>4
<1>. QED BY <1>1, <1>2

\* A job that the registry does not know yet comes last in the history too.
LEMMA RegisterJobStep ==
    ASSUME Registry, NEW j \in Jobs, RegisterJob(j)
    PROVE  Registry'
<1>0. /\ Shapes /\ OrderMatchesMap /\ Histories /\ history \in Seq(Jobs) /\ order \in Seq(Jobs)
      /\ cups[j] # "none" /\ Insert(j, NewRecord) /\ history' = Append(history, j)
      /\ UNCHANGED <<cups, steady, cache, call, listing, canceled>>
      /\ NewRecord \in Record /\ NewRecord.known /\ ~NewRecord.canceled
  BY Elements DEF Registry, RegisterJob, Shapes, cupsVars
<1>1. j \notin ToSet(history)
  BY <1>0 DEF RegisterJob, Contains, ToSet
<1>2. ~map[j].known /\ j \notin canceled
  BY <1>0, <1>1 DEF Histories, Known
<1>3. /\ order' \in Seq(Jobs) /\ map' \in [Jobs -> Record] /\ OrderMatchesMap'
      /\ Known' \subseteq Known \cup {j}
      /\ \A i \in Jobs \ {j} : map'[i] = map[i] \/ map'[i] = NoRecord
      /\ \/ order' = Append(order, j)
         \/ order # <<>> /\ order' = Append(Tail(order), j)
  BY <1>0, <1>2, InsertFacts
<1>4. /\ history' \in Seq(Jobs) /\ Len(history') = Len(history) + 1 /\ Len(history) \in Nat
      /\ \A i \in 1..Len(history) : history'[i] = history[i]
      /\ history'[Len(history) + 1] = j
      /\ ToSet(history') = ToSet(history) \cup {j}
      /\ IsInjective(history')
  BY <1>0, <1>1, AppendFacts DEF Histories
<1>5. Shapes'
  BY <1>0, <1>3, <1>4 DEF Shapes
<1>6. Histories'
  BY <1>0, <1>3, <1>4 DEF Histories
<1>7. CancelRemembered'
  BY <1>0, <1>2, <1>3, Elements DEF CancelRemembered, Registry, Shapes
<1>8. \A n \in 1..Len(history) : PlaceIn(history, history[n]) = n /\ PlaceIn(history', history[n]) = n
  <2>1. ASSUME NEW n \in 1..Len(history)
        PROVE  PlaceIn(history, history[n]) = n /\ PlaceIn(history', history[n]) = n
    <3>1. n \in DOMAIN history /\ n \in DOMAIN history' /\ history'[n] = history[n]
      BY <1>0, <1>4
    <3>2. PlaceIn(history', history'[n]) = n
      BY <1>4, <3>1, PlaceFacts
    <3>3. PlaceIn(history, history[n]) = n
      BY <1>0, <3>1, PlaceFacts DEF Histories
    <3>. QED BY <3>1, <3>2, <3>3
  <2>. QED BY <2>1
<1>9. NewestFirst'
  <2>. SUFFICES ASSUME NEW n \in DOMAIN order', NEW m \in 1..n-1, order'[n] \notin canceled'
                PROVE  PlaceIn(history', order'[m]) < PlaceIn(history', order'[n])
    BY DEF NewestFirst, Place, PlaceIn
  <2>0. ToSet(order) \subseteq ToSet(history)
    BY <1>0 DEF OrderMatchesMap, Histories
  <2>1. ASSUME NEW i \in ToSet(order)
        PROVE  /\ PlaceIn(history', i) = PlaceIn(history, i)
               /\ PlaceIn(history, i) \in 1..Len(history)
    <3>1. PICK k \in 1..Len(history) : history[k] = i
      <4>1. i \in ToSet(history) /\ DOMAIN history = 1..Len(history)
        BY <1>0, <2>0
      <4>. QED BY <4>1 DEF ToSet
    <3>. QED BY <1>8, <3>1
  <2>2. /\ order'[m] \in ToSet(order)
        /\ \/ order'[n] = j
           \/ \E k \in DOMAIN order : \E i \in 1..k-1 : order'[n] = order[k] /\ order'[m] = order[i]
    <3>1. order \in Seq(Jobs)
      BY <1>0
    <3>2. PICK r : r = order'
      OBVIOUS
    <3>3. r = Append(order, j) \/ (order # <<>> /\ r = Append(Tail(order), j))
      BY <1>3, <3>2
    <3>. QED BY <3>1, <3>2, <3>3, AppendKeepsOrder
  <2>3. CASE order'[n] = j
    <3>1. Len(history) + 1 \in DOMAIN history' /\ history'[Len(history) + 1] = j
      BY <1>4
    <3>2. PlaceIn(history', j) = Len(history) + 1
      BY <1>4, <3>1, PlaceFacts
    <3>3. PlaceIn(history', order'[m]) \in 1..Len(history)
      BY <2>1, <2>2
    <3>. QED BY <1>4, <2>3, <3>2, <3>3
  <2>4. ASSUME NEW k \in DOMAIN order, NEW i \in 1..k-1,
               order'[n] = order[k], order'[m] = order[i]
        PROVE  PlaceIn(history', order'[m]) < PlaceIn(history', order'[n])
    <3>1. order[k] \notin canceled
      BY <1>0, <2>4
    <3>2. PlaceIn(history, order[i]) < PlaceIn(history, order[k])
      BY <2>4, <3>1 DEF Registry, NewestFirst, Place, PlaceIn
    <3>3. i \in DOMAIN order
      <4>1. DOMAIN order = 1..Len(order) /\ Len(order) \in Nat
        BY <1>0
      <4>. QED BY <4>1
    <3>4. order[i] \in ToSet(order) /\ order[k] \in ToSet(order)
      BY <3>3 DEF ToSet
    <3>. QED BY <2>1, <2>4, <3>2, <3>4
  <2>. QED BY <2>2, <2>3, <2>4
<1>. QED BY <1>3, <1>5, <1>6, <1>7, <1>9 DEF Registry

\* A step that leaves the order and the histories, and what the records say of
\* known and canceled: the calls may copy records, and CUPS keeps its jobs.
LEMMA RegistryKept ==
    ASSUME Registry, Shapes', UNCHANGED <<order, history, canceled>>,
           \A j \in Jobs : map'[j].known = map[j].known /\ map'[j].canceled = map[j].canceled,
           \A c \in Callers : call'[c].record.known =>
              \/ call[c].record.known /\ call'[c].job = call[c].job
              \/ call'[c].job \in Known,
           \A j \in Jobs : cups[j] # "none" => cups'[j] # "none"
    PROVE  Registry'
<1>1. Known' = Known
  BY DEF Known
<1>2. OrderMatchesMap'
  BY <1>1 DEF Registry, OrderMatchesMap
<1>3. ToSet(history) \subseteq Jobs
  BY DEF Registry, Shapes, ToSet
<1>4. Histories'
  BY <1>1, <1>3 DEF Registry, Histories
<1>5. NewestFirst'
  BY DEF Registry, NewestFirst, Place
<1>6. CancelRemembered'
  BY DEF Registry, CancelRemembered, Shapes
<1>. QED BY <1>2, <1>4, <1>5, <1>6 DEF Registry

\* What prune keeps stays in its order.
LEMMA PruneStep ==
    ASSUME Registry, PruneRegistry
    PROVE  Registry'
<1>1. PICK kept : /\ kept \subseteq Known
                  /\ map' = [j \in Jobs |-> IF j \in kept THEN map[j] ELSE NoRecord]
                  /\ order' = Filtered(order, kept)
  BY DEF PruneRegistry, OrderOf
<1>2. /\ Shapes /\ order \in Seq(Jobs) /\ Len(order) \in Nat
      /\ IsInjective(order) /\ ToSet(order) = Known /\ Len(order) <= Capacity
      /\ UNCHANGED <<cups, steady, cache, call, listing, history, canceled>>
  BY DEF Registry, OrderMatchesMap, Shapes, PruneRegistry, cupsVars, ghosts
<1>3. PICK r : r = order'
  OBVIOUS
<1>4. /\ r \in Seq(Jobs) /\ ToSet(r) = ToSet(order) \cap kept
      /\ Len(r) <= Len(order) /\ IsInjective(r)
      /\ \A i, k \in DOMAIN r : i < k =>
            \E m, n \in DOMAIN order : m < n /\ r[i] = order[m] /\ r[k] = order[n]
  BY <1>1, <1>2, <1>3, FilteredFacts
<1>5. Known' = kept
  BY <1>1, <1>2, Elements DEF Known
<1>6. OrderMatchesMap'
  <2>1. Len(r) <= Capacity
    BY <1>2, <1>4, Numbers
  <2>. QED BY <1>1, <1>2, <1>3, <1>4, <1>5, <2>1 DEF OrderMatchesMap
<1>7. Shapes'
  BY <1>1, <1>2, <1>3, <1>4, Elements DEF Shapes
<1>8. Histories'
  BY <1>1, <1>2, <1>5 DEF Registry, Histories
<1>9. NewestFirst'
  <2>. SUFFICES ASSUME NEW n \in DOMAIN r, NEW m \in 1..n-1, r[n] \notin canceled
                PROVE  Place(r[m]) < Place(r[n])
    BY <1>2, <1>3 DEF NewestFirst, Place
  <2>1. m \in DOMAIN r /\ m < n
    <3>1. DOMAIN r = 1..Len(r) /\ Len(r) \in Nat
      BY <1>4
    <3>. QED BY <3>1
  <2>2. PICK a, b \in DOMAIN order : a < b /\ r[m] = order[a] /\ r[n] = order[b]
    BY <1>4, <2>1
  <2>3. a \in 1..b-1
    <3>1. DOMAIN order = 1..Len(order) /\ Len(order) \in Nat
      BY <1>2
    <3>. QED BY <2>2, <3>1
  <2>. QED BY <2>2, <2>3 DEF Registry, NewestFirst
<1>10. CancelRemembered'
  BY <1>1, <1>2, Elements DEF Registry, CancelRemembered, Shapes
<1>. QED BY <1>6, <1>7, <1>8, <1>9, <1>10 DEF Registry

\* The record read when the cancellation began comes back with the cancellation:
\* in its place, or as the newest of all.
LEMMA FinishCancelStep ==
    ASSUME Registry, NEW c \in Callers, FinishCancel(c)
    PROVE  Registry'
<1>1. PICK j : j = call[c].job
  OBVIOUS
<1>2. PICK record : record = call[c].record
  OBVIOUS
<1>3. /\ Shapes /\ OrderMatchesMap /\ order \in Seq(Jobs) /\ map \in [Jobs -> Record]
      /\ cache' = [cache EXCEPT ![j] = Uncached]
      /\ KeepCanceled(j, record)
      /\ canceled' = canceled \cup (IF record.known THEN {j} ELSE {})
      /\ Ends(c)
      /\ UNCHANGED <<cups, steady, listing, history>>
  BY <1>1, <1>2 DEF Registry, FinishCancel, Shapes, cupsVars
<1>4. j \in Jobs /\ record \in Record
  BY <1>1, <1>2 DEF Registry, Shapes, Call, FinishCancel
<1>5. /\ call' \in [Callers -> Call] /\ call'[c] = Idle
      /\ \A b \in Callers \ {c} : call'[b] = call[b]
  BY <1>3, EndsFacts
<1>6. cache' \in [Jobs -> Entry]
  BY <1>3, <1>4, Elements DEF Shapes
<1>7. \A b \in Callers : call'[b].phase # "idle" => call'[b].job \in Jobs
  BY <1>3, <1>5, Elements DEF Shapes
<1>8. CASE ~record.known
  <2>1. UNCHANGED <<order, map, canceled>>
    BY <1>3, <1>8 DEF KeepCanceled, registryVars
  <2>2. Shapes'
    BY <1>3, <1>5, <1>6, <1>7, <2>1 DEF Shapes
  <2>. QED BY <1>3, <1>5, <2>1, <2>2, Elements, RegistryKept
<1>9. CASE record.known
  <2>1. PICK new : new = [record EXCEPT !.canceled = TRUE]
    OBVIOUS
  <2>2. new \in Record /\ new.known /\ new.canceled
    BY <1>4, <1>9, <2>1 DEF Record
  <2>3. Insert(j, new) /\ canceled' = canceled \cup {j}
    BY <1>3, <1>9, <2>1 DEF KeepCanceled
  <2>4. /\ order' \in Seq(Jobs) /\ map' \in [Jobs -> Record] /\ OrderMatchesMap'
        /\ Known' \subseteq Known \cup {j}
        /\ map'[j] = new
        /\ \A i \in Jobs \ {j} : map'[i] = map[i] \/ map'[i] = NoRecord
        /\ \/ order' = order
           \/ order' = Append(order, j)
           \/ order # <<>> /\ order' = Append(Tail(order), j)
    BY <1>3, <1>4, <2>2, <2>3, InsertFacts
  <2>5. j \in ToSet(history)
    BY <1>1, <1>2, <1>9 DEF Registry, Histories
  <2>6. Shapes'
    BY <1>3, <1>4, <1>5, <1>6, <1>7, <2>3, <2>4 DEF Shapes
  <2>7. Histories'
    <3>1. \A b \in Callers : call'[b].record.known => call'[b].job \in ToSet(history)
      BY <1>5, Elements DEF Registry, Histories
    <3>. QED BY <1>3, <2>3, <2>4, <2>5, <3>1 DEF Registry, Histories
  <2>8. CancelRemembered'
    BY <1>3, <2>2, <2>3, <2>4, Elements DEF Registry, CancelRemembered, Shapes
  <2>9. NewestFirst'
    <3>1. PICK r : r = order'
      OBVIOUS
    <3>. SUFFICES ASSUME NEW n \in DOMAIN r, NEW m \in 1..n-1, r[n] \notin canceled, r[n] # j
                  PROVE  Place(r[m]) < Place(r[n])
      BY <1>3, <2>3, <3>1 DEF NewestFirst, Place
    <3>2. CASE r = order
      BY <3>2 DEF Registry, NewestFirst
    <3>3. CASE r = Append(order, j) \/ (order # <<>> /\ r = Append(Tail(order), j))
      <4>1. PICK k \in DOMAIN order : \E i \in 1..k-1 : r[n] = order[k] /\ r[m] = order[i]
        BY <1>3, <1>4, <3>3, AppendKeepsOrder
      <4>. QED BY <4>1 DEF Registry, NewestFirst
    <3>. QED BY <2>4, <3>1, <3>2, <3>3
  <2>. QED BY <2>4, <2>6, <2>7, <2>8, <2>9 DEF Registry
<1>. QED BY <1>8, <1>9

\* The steps of reads, of cancellations before their end, of lists and of CUPS.
LEMMA CupsStep == ASSUME Registry, Cups PROVE Registry'
<1>1. PICK j \in Jobs, to \in CupsState : CupsMoves(j, to) /\ to # "none"
  BY Zenon DEF Cups, CupsCreates, CupsEnds, CupsPurges, CupsState
<1>2. UNCHANGED <<order, map, cache, call, listing, history, canceled>> /\ Shapes
  BY DEF Cups, registryVars, ghosts, Registry
<1>3. /\ cups' \in [Jobs -> CupsState]
      /\ steady' \in [Jobs -> 0..StatusTtl + IppTimeout]
      /\ cups'[j] = to
      /\ \A i \in Jobs \ {j} : cups'[i] = cups[i]
  BY <1>1, <1>2, CupsMovesFacts
<1>4. Shapes'
  BY <1>2, <1>3 DEF Shapes
<1>. QED BY <1>1, <1>2, <1>3, <1>4, RegistryKept

LEMMA StartStep ==
    ASSUME Registry, NEW c \in Callers, NEW j \in Jobs, StartGet(c, j) \/ StartCancel(c, j)
    PROVE  /\ Registry'
           /\ \E phase \in {"hit", "asking"}, seen \in Visible \cup {"none"} : Start(c, j, phase, seen)
<1>1. Shapes /\ UNCHANGED <<cups, steady, order, map, cache, listing, history, canceled>>
  BY DEF Registry, StartGet, StartCancel, cupsVars, registryVars, ghosts
<1>2. PICK phase \in {"hit", "asking"}, seen \in Visible \cup {"none"} : Start(c, j, phase, seen)
  <2>1. CASE Start(c, j, "asking", "none")
    BY <2>1
  <2>2. CASE cache[j] # Uncached /\ Start(c, j, "hit", cache[j].status)
    <3>1. cache[j] \in [status : Visible \cup {"none"}, age : 0..StatusTtl - 1]
      BY <1>1, <2>2 DEF Shapes, Entry
    <3>. QED BY <2>2, <3>1
  <2>. QED BY <2>1, <2>2 DEF StartGet, StartCancel
<1>3. /\ call' \in [Callers -> Call]
      /\ call'[c] = [phase |-> phase, job |-> j, record |-> map[j],
                     seen |-> seen, elapsed |-> 0]
      /\ \A b \in Callers \ {c} : call'[b] = call[b]
  BY <1>1, <1>2, StartFacts
<1>4. Shapes'
  <2>1. call'[c].job = j
    BY <1>3
  <2>2. ASSUME NEW b \in Callers, call'[b].phase # "idle" PROVE call'[b].job \in Jobs
    BY <1>1, <1>3, <2>1, <2>2 DEF Shapes
  <2>. QED BY <1>1, <1>3, <2>2 DEF Shapes
<1>5. call'[c].record.known => call'[c].job \in Known
  BY <1>3 DEF Known
<1>6. Registry'
  BY <1>1, <1>3, <1>4, <1>5, RegistryKept
<1>. QED BY <1>2, <1>6

LEMMA AnswerStep ==
    ASSUME Registry, NEW c \in Callers, CupsAnswersGet(c) \/ CupsCancels(c)
    PROVE  /\ Registry'
           /\ \E seen \in Visible \cup {"none"} :
                 call' = [call EXCEPT ![c].phase = "answered", ![c].seen = seen]
<1>1. Shapes /\ call[c].job \in Jobs
  BY DEF Registry, Shapes, CupsAnswersGet, CupsCancels
<1>2. UNCHANGED <<order, map, cache, listing, history, canceled>>
  BY DEF CupsAnswersGet, CupsCancels, registryVars, ghosts
<1>3. PICK seen \in Visible \cup {"none"} :
         call' = [call EXCEPT ![c].phase = "answered", ![c].seen = seen]
  <2>1. Info(cups[call[c].job]) \in Visible \cup {"none"} /\ "canceled" \in Visible
    BY DEF Info, Visible
  <2>. QED BY <2>1 DEF CupsAnswersGet, CupsCancels
<1>4. /\ call' \in [Callers -> Call]
      /\ call'[c].job = call[c].job /\ call'[c].record = call[c].record
      /\ \A b \in Callers \ {c} : call'[b] = call[b]
  BY <1>1, <1>3, AnswerFacts
<1>5. /\ cups' \in [Jobs -> CupsState]
      /\ steady' \in [Jobs -> 0..StatusTtl + IppTimeout]
      /\ \A j \in Jobs : cups[j] # "none" => cups'[j] # "none"
  <2>1. CASE CupsAnswersGet(c)
    BY <1>1, <2>1 DEF CupsAnswersGet, Shapes, cupsVars
  <2>2. CASE CupsCancels(c)
    <3>1. "canceled" \in CupsState /\ CupsMoves(call[c].job, "canceled")
      BY <2>2 DEF CupsCancels, CupsState
    <3>. QED BY <1>1, <3>1, CupsMovesFacts
  <2>. QED BY <2>1, <2>2
<1>6. Shapes'
  BY <1>1, <1>2, <1>4, <1>5 DEF Shapes
<1>7. Registry'
  BY <1>2, <1>4, <1>5, <1>6, RegistryKept
<1>. QED BY <1>3, <1>7

LEMMA EndStep ==
    ASSUME Registry, NEW c \in Callers, CallFails(c) \/ FinishGet(c)
    PROVE  Registry'
<1>1. /\ Shapes /\ Ends(c)
      /\ UNCHANGED <<cups, steady, order, map, listing, history, canceled>>
  BY DEF Registry, CallFails, FinishGet, cupsVars, registryVars, ghosts
<1>2. /\ call' \in [Callers -> Call] /\ call'[c] = Idle
      /\ \A b \in Callers \ {c} : call'[b] = call[b]
  BY <1>1, EndsFacts
<1>3. cache' \in [Jobs -> Entry]
  <2>1. CASE UNCHANGED cache
    BY <1>1, <2>1 DEF Shapes
  <2>2. CASE FinishGet(c) /\ call[c].phase = "answered"
    <3>1. PICK gone : cache' = [i \in Jobs |->
                         IF i = call[c].job THEN [status |-> call[c].seen, age |-> 0]
                         ELSE IF i \in gone THEN Uncached ELSE cache[i]]
      BY <2>2 DEF FinishGet
    <3>2. [status |-> call[c].seen, age |-> 0] \in Entry
      BY <1>1, Numbers DEF Shapes, Call, Entry
    <3>. QED BY <1>1, <3>1, <3>2, Elements DEF Shapes
  <2>. QED BY <2>1, <2>2 DEF CallFails, FinishGet
<1>4. Shapes'
  BY <1>1, <1>2, <1>3, Elements DEF Shapes
<1>. QED BY <1>1, <1>2, <1>4, Elements, RegistryKept

LEMMA ListStep ==
    ASSUME Registry, NEW c \in Listers,
           \/ \E a \in BOOLEAN, p \in Filters : StartList(c, a, p)
           \/ ListPrinter(c) \/ FinishList(c) \/ ListFails(c)
    PROVE  Registry'
<1>1. UNCHANGED <<cups, steady, order, map, cache, call, history, canceled>>
  BY DEF StartList, ListPrinter, FinishList, ListFails, cupsVars, registryVars, ghosts
<1>2. Shapes'
  BY <1>1 DEF Registry, Shapes
<1>. QED BY <1>1, <1>2, RegistryKept

LEMMA RegistryStep == Registry /\ [Next]_vars => Registry'
<1>. SUFFICES ASSUME Registry, [Next]_vars PROVE Registry'
  OBVIOUS
<1>1. CASE Cups
  BY <1>1, CupsStep
<1>2. CASE \E j \in Jobs : RegisterJob(j)
  BY <1>2, RegisterJobStep
<1>3. CASE PruneRegistry
  BY <1>3, PruneStep
<1>4. CASE \E c \in Callers, j \in Jobs : StartGet(c, j) \/ StartCancel(c, j)
  BY <1>4, StartStep
<1>5. CASE \E c \in Callers : \/ CupsAnswersGet(c) \/ CupsCancels(c) \/ CallFails(c)
                              \/ FinishGet(c) \/ FinishCancel(c)
  BY <1>5, AnswerStep, EndStep, FinishCancelStep
<1>6. CASE \E c \in Listers : \/ \E a \in BOOLEAN, p \in Filters : StartList(c, a, p)
                              \/ ListPrinter(c) \/ FinishList(c) \/ ListFails(c)
  BY <1>6, ListStep
<1>7. CASE Tick
  <2>1. /\ Shapes' /\ UNCHANGED <<cups, order, history, canceled>>
        /\ \A j \in Jobs : map'[j].known = map[j].known /\ map'[j].canceled = map[j].canceled
        /\ \A b \in Callers : call'[b].job = call[b].job /\ call'[b].record.known = call[b].record.known
    BY <1>7, TickFacts DEF Registry
  <2>. QED BY <2>1, RegistryKept
<1>8. CASE UNCHANGED vars
  <2>1. UNCHANGED <<cups, steady, order, map, cache, call, history, canceled>>
    BY <1>8 DEF vars
  <2>2. Shapes'
    BY <2>1 DEF Registry, Shapes
  <2>. QED BY <2>1, <2>2, RegistryKept
<1>. QED BY <1>1, <1>2, <1>3, <1>4, <1>5, <1>6, <1>7, <1>8 DEF Next

LEMMA RegistryInvariant == Spec => []Registry
<1>. QED BY RegistryInit, RegistryStep, PTL DEF Spec

\* The order and the map of the registry name the same jobs, each once, and no
\* more than the capacity (insert, prune and update of src/jobs.rs).
THEOREM OrderMatchesMapCorrect == Spec => []OrderMatchesMap
<1>1. Registry => OrderMatchesMap
  BY DEF Registry
<1>. QED BY <1>1, RegistryInvariant, PTL

\* What list_filtered gives is newest first, recorded cancellations apart
\* (src/jobs.rs): prune and eviction keep the order of registration.
THEOREM NewestFirstCorrect == Spec => []NewestFirst
<1>1. Registry => NewestFirst
  BY DEF Registry
<1>. QED BY <1>1, RegistryInvariant, PTL

\* A cancellation with a record in hand is not forgotten while the job has a
\* record (cancel, src/api/jobs.rs), whatever is inserted, pruned or evicted.
THEOREM CancelRememberedCorrect == Spec => []CancelRemembered
<1>1. Registry => CancelRemembered
  BY DEF Registry
<1>. QED BY <1>1, RegistryInvariant, PTL

-----------------------------------------------------------------------------
(* Statuses.                                                               *)

\* What is said of a job is what CUPS says, or CUPS has said so within n ticks.
Behind(seen, j, n) == seen = Info(cups[j]) \/ steady[j] <= n

\* A cached status and the answer to a read age with the time since CUPS gave
\* them; a read takes a status from the cache only while it is kept there.
Recent ==
    /\ \A j \in Jobs : cache[j] # Uncached =>
          Behind(cache[j].status, j, cache[j].age + IppTimeout)
    /\ \A c \in Callers :
          /\ call[c].phase = "answered" => Behind(call[c].seen, call[c].job, call[c].elapsed)
          /\ call[c].phase = "hit" =>
                Behind(call[c].seen, call[c].job, StatusTtl - 1 + IppTimeout)

LEMMA RecentInit == Init => Recent
BY Elements DEF Init, Recent

\* A step that lets no time pass leaves nothing further behind.
LEMMA BehindKept ==
    ASSUME NEW j \in Jobs, NEW seen, NEW n \in Nat, Behind(seen, j, n),
           UNCHANGED <<cups, steady>> \/ \E i \in Jobs, to \in CupsState : Shapes /\ CupsMoves(i, to)
    PROVE  Behind(seen, j, n)'
<1>1. CASE UNCHANGED <<cups, steady>>
  BY <1>1 DEF Behind
<1>2. CASE \E i \in Jobs, to \in CupsState : Shapes /\ CupsMoves(i, to)
  <2>1. PICK i \in Jobs, to \in CupsState : Shapes /\ CupsMoves(i, to)
    BY <1>2
  <2>2. /\ steady'[i] = 0 /\ (i # j => steady'[j] = steady[j] /\ cups'[j] = cups[j])
    BY <2>1, CupsMovesFacts
  <2>. QED BY <2>2 DEF Behind
<1>. QED BY <1>1, <1>2

\* The call that a step is about gets the rest to show.
LEMMA RecentKept ==
    ASSUME Shapes, Shapes', Recent, NEW c,
           UNCHANGED <<cups, steady>> \/ \E i \in Jobs, to \in CupsState : CupsMoves(i, to),
           UNCHANGED cache, \A b \in Callers \ {c} : call'[b] = call[b],
           c \in Callers =>
              /\ call'[c].phase = "answered" => Behind(call[c].seen, call[c].job, call[c].elapsed)'
              /\ call'[c].phase = "hit" =>
                    Behind(call[c].seen, call[c].job, StatusTtl - 1 + IppTimeout)'
    PROVE  Recent'
<1>1. ASSUME NEW j \in Jobs, cache[j] # Uncached
      PROVE  Behind(cache[j].status, j, cache[j].age + IppTimeout)'
  <2>1. PICK n, seen : n = cache[j].age + IppTimeout /\ seen = cache[j].status
    OBVIOUS
  <2>2. n \in Nat
    BY <1>1, <2>1, Numbers DEF Shapes, Entry
  <2>3. Behind(seen, j, n)
    BY <1>1, <2>1 DEF Recent
  <2>4. Behind(seen, j, n)'
    BY <2>2, <2>3, BehindKept
  <2>. QED BY <2>1, <2>4 DEF Behind
<1>2. ASSUME NEW b \in Callers \ {c}, NEW n \in Nat,
             call[b].phase # "idle", Behind(call[b].seen, call[b].job, n)
      PROVE  Behind(call[b].seen, call[b].job, n)'
  <2>1. PICK j, seen : j = call[b].job /\ seen = call[b].seen
    OBVIOUS
  <2>2. j \in Jobs
    BY <1>2, <2>1 DEF Shapes
  <2>3. Behind(seen, j, n)'
    BY <1>2, <2>1, <2>2, BehindKept
  <2>. QED BY <2>1, <2>3 DEF Behind
<1>3. ASSUME NEW b \in Callers
      PROVE  /\ call'[b].phase = "answered" => Behind(call[b].seen, call[b].job, call[b].elapsed)'
             /\ call'[b].phase = "hit" =>
                   Behind(call[b].seen, call[b].job, StatusTtl - 1 + IppTimeout)'
  <2>1. call[b].elapsed \in Nat /\ StatusTtl - 1 + IppTimeout \in Nat
    BY Numbers DEF Shapes, Call
  <2>2. CASE b # c
    <3>1. PICK n : n = call[b].elapsed
      OBVIOUS
    <3>2. ASSUME call'[b].phase = "answered" PROVE Behind(call[b].seen, call[b].job, n)'
      BY <1>2, <2>1, <2>2, <3>1, <3>2 DEF Recent
    <3>3. ASSUME call'[b].phase = "hit"
          PROVE  Behind(call[b].seen, call[b].job, StatusTtl - 1 + IppTimeout)'
      BY <1>2, <2>1, <2>2, <3>3 DEF Recent
    <3>4. call'[b].elapsed = n
      BY <2>2, <3>1
    <3>. QED BY <3>2, <3>3, <3>4 DEF Behind
  <2>. QED BY <2>2
<1>. QED BY <1>1, <1>3 DEF Recent

LEMMA RecentStart ==
    ASSUME Shapes, Shapes', Recent, NEW c \in Callers, NEW j \in Jobs,
           StartGet(c, j) \/ StartCancel(c, j)
    PROVE  Recent'
<1>1. UNCHANGED <<cups, steady, cache>>
  BY DEF StartGet, StartCancel, cupsVars
<1>2. CASE Start(c, j, "asking", "none")
  <2>1. /\ call'[c].phase = "asking" /\ \A b \in Callers \ {c} : call'[b] = call[b]
    BY <1>2 DEF Start, Shapes
  <2>. QED BY <1>1, <2>1, RecentKept
<1>3. CASE cache[j] # Uncached /\ Start(c, j, "hit", cache[j].status)
  <2>1. cache[j] \in [status : Visible \cup {"none"}, age : 0..StatusTtl - 1]
    BY <1>3 DEF Shapes, Entry
  <2>2. PICK seen : seen = cache[j].status
    OBVIOUS
  <2>3. /\ call'[c].phase = "hit" /\ call'[c].seen = seen /\ call'[c].job = j
        /\ \A b \in Callers \ {c} : call'[b] = call[b]
    BY <1>3, <2>2 DEF Start, Shapes
  <2>4. Behind(seen, j, StatusTtl - 1 + IppTimeout)
    <3>1. Behind(seen, j, cache[j].age + IppTimeout)
      BY <1>3, <2>2 DEF Recent
    <3>2. steady[j] \in Nat
      BY Numbers DEF Shapes
    <3>. QED BY <2>1, <3>1, <3>2, Numbers DEF Behind
  <2>5. Behind(call[c].seen, call[c].job, StatusTtl - 1 + IppTimeout)'
    BY <1>1, <2>3, <2>4 DEF Behind
  <2>. QED BY <1>1, <2>3, <2>5, RecentKept
<1>. QED BY <1>2, <1>3 DEF StartGet, StartCancel

LEMMA RecentAnswer ==
    ASSUME Shapes, Shapes', Recent, NEW c \in Callers, CupsAnswersGet(c) \/ CupsCancels(c)
    PROVE  Recent'
<1>1. call[c].job \in Jobs /\ UNCHANGED cache
  BY DEF Shapes, CupsAnswersGet, CupsCancels
<1>2. CASE CupsAnswersGet(c)
  <2>1. PICK seen : seen = Info(cups[call[c].job])
    OBVIOUS
  <2>2. seen \in Visible \cup {"none"} /\ UNCHANGED <<cups, steady>>
    BY <1>2, <2>1 DEF Info, CupsAnswersGet, cupsVars
  <2>3. call' = [call EXCEPT ![c].phase = "answered", ![c].seen = seen]
    BY <1>2, <2>1 DEF CupsAnswersGet
  <2>4. /\ call'[c].phase = "answered" /\ call'[c].seen = seen /\ call'[c].job = call[c].job
        /\ \A b \in Callers \ {c} : call'[b] = call[b]
    BY <2>2, <2>3, AnswerFacts
  <2>5. Behind(call[c].seen, call[c].job, call[c].elapsed)'
    BY <2>1, <2>2, <2>4 DEF Behind
  <2>. QED BY <1>1, <2>2, <2>4, <2>5, RecentKept
<1>3. CASE CupsCancels(c)
  <2>1. /\ CupsMoves(call[c].job, "canceled") /\ "canceled" \in CupsState
        /\ "canceled" \in Visible \cup {"none"}
        /\ call' = [call EXCEPT ![c].phase = "answered", ![c].seen = "canceled"]
    BY <1>3 DEF CupsCancels, CupsState, Visible
  <2>2. /\ call'[c].phase = "answered" /\ call'[c].seen = "canceled" /\ call'[c].job = call[c].job
        /\ \A b \in Callers \ {c} : call'[b] = call[b]
    BY <2>1, AnswerFacts
  <2>3. cups'[call[c].job] = "canceled"
    BY <1>1, <2>1, CupsMovesFacts
  <2>4. Behind(call[c].seen, call[c].job, call[c].elapsed)'
    BY <2>2, <2>3 DEF Behind, Info, Visible
  <2>. QED BY <1>1, <2>1, <2>2, <2>4, RecentKept
<1>. QED BY <1>2, <1>3

\* What is put into the cache is an answer of a call that has not timed out.
LEMMA RecentFinish ==
    ASSUME Shapes, Shapes', Recent, NEW c \in Callers,
           CallFails(c) \/ FinishGet(c) \/ FinishCancel(c)
    PROVE  Recent'
<1>1. UNCHANGED <<cups, steady>> /\ Ends(c)
  BY DEF CallFails, FinishGet, FinishCancel, cupsVars
<1>2. call'[c].phase = "idle" /\ \A b \in Callers \ {c} : call'[b] = call[b]
  BY <1>1, EndsFacts, Elements
<1>3. CASE UNCHANGED cache
  BY <1>1, <1>2, <1>3, RecentKept
<1>4. CASE \E j \in Jobs : \E seen :
           /\ Behind(seen, j, IppTimeout)
           /\ cache'[j] = Uncached \/ cache'[j] = [status |-> seen, age |-> 0]
           /\ \A i \in Jobs \ {j} : cache'[i] \in {cache[i], Uncached}
  <2>1. PICK j, seen :
           /\ j \in Jobs
           /\ Behind(seen, j, IppTimeout)
           /\ cache'[j] = Uncached \/ cache'[j] = [status |-> seen, age |-> 0]
           /\ \A i \in Jobs \ {j} : cache'[i] \in {cache[i], Uncached}
    BY <1>4
  <2>2. ASSUME NEW i \in Jobs, cache'[i] # Uncached
        PROVE  Behind(cache[i].status, i, cache[i].age + IppTimeout)'
    <3>1. CASE i # j
      <4>1. cache'[i] = cache[i]
        BY <2>1, <2>2, <3>1
      <4>2. Behind(cache[i].status, i, cache[i].age + IppTimeout)
        BY <2>2, <4>1 DEF Recent
      <4>. QED BY <1>1, <4>1, <4>2 DEF Behind
    <3>2. CASE i = j
      <4>1. cache'[j].status = seen /\ cache'[j].age = 0
        BY <2>1, <2>2, <3>2
      <4>2. cache'[j].age + IppTimeout = IppTimeout
        BY <4>1, Numbers
      <4>. QED BY <1>1, <2>1, <3>2, <4>1, <4>2 DEF Behind
    <3>. QED BY <3>1, <3>2
  <2>3. ASSUME NEW b \in Callers
        PROVE  /\ call'[b].phase = "answered" => Behind(call[b].seen, call[b].job, call[b].elapsed)'
               /\ call'[b].phase = "hit" =>
                     Behind(call[b].seen, call[b].job, StatusTtl - 1 + IppTimeout)'
    <3>1. CASE b = c
      BY <1>2, <3>1
    <3>2. CASE b # c
      BY <1>1, <1>2, <3>2 DEF Recent, Behind
    <3>. QED BY <3>1, <3>2
  <2>. QED BY <2>2, <2>3 DEF Recent
<1>5. CASE FinishGet(c) /\ call[c].phase = "answered"
  <2>1. PICK gone : cache' = [i \in Jobs |->
                       IF i = call[c].job THEN [status |-> call[c].seen, age |-> 0]
                       ELSE IF i \in gone THEN Uncached ELSE cache[i]]
    BY <1>5 DEF FinishGet
  <2>2. /\ call[c].job \in Jobs /\ call[c].elapsed \in 0..IppTimeout
        /\ Behind(call[c].seen, call[c].job, call[c].elapsed)
    BY <1>5 DEF Shapes, Call, Recent
  <2>3. Behind(call[c].seen, call[c].job, IppTimeout)
    <3>1. steady[call[c].job] \in Nat
      BY <2>2, Numbers DEF Shapes
    <3>. QED BY <2>2, <3>1, Numbers DEF Behind
  <2>. QED BY <1>4, <2>1, <2>2, <2>3
<1>6. CASE FinishCancel(c)
  <2>1. call[c].job \in Jobs /\ cache' = [cache EXCEPT ![call[c].job] = Uncached]
    BY <1>6 DEF FinishCancel, Shapes
  <2>2. \A i \in Jobs \ {call[c].job} : cache'[i] = cache[i]
    BY <2>1 DEF Shapes
  <2>3. cache'[call[c].job] = Uncached
    BY <2>1 DEF Shapes
  <2>4. Behind(Info(cups[call[c].job]), call[c].job, IppTimeout)
    BY DEF Behind
  <2>. QED BY <1>4, <2>1, <2>2, <2>3, <2>4
<1>. QED BY <1>3, <1>5, <1>6 DEF CallFails, FinishGet

LEMMA RecentTick == ASSUME Shapes, Recent, Tick PROVE Recent'
<1>1. /\ cups' = cups
      /\ \A c \in Callers :
            /\ call[c].phase # "hit" /\ call'[c].phase = call[c].phase
            /\ call'[c].job = call[c].job /\ call'[c].seen = call[c].seen
            /\ call[c].phase # "idle" => call'[c].elapsed = call[c].elapsed + 1
      /\ \A j \in Jobs :
            \/ cache'[j] = Uncached
            \/ /\ cache[j] # Uncached /\ cache'[j].status = cache[j].status
               /\ cache'[j].age = cache[j].age + 1
      /\ \A j \in Jobs : steady'[j] <= steady[j] + 1 /\ steady[j] \in Nat /\ steady'[j] \in Nat
  <2>1. Shapes'
    BY TickFacts
  <2>2. \A j \in Jobs : steady[j] \in Nat /\ steady'[j] \in Nat
    BY <2>1, Numbers DEF Shapes
  <2>. QED BY <2>2, TickFacts
<1>2. ASSUME NEW j \in Jobs, NEW seen, NEW n \in Nat, Behind(seen, j, n)
      PROVE  Behind(seen, j, n + 1)'
  BY <1>1, <1>2 DEF Behind
<1>3. ASSUME NEW j \in Jobs, cache'[j] # Uncached
      PROVE  Behind(cache[j].status, j, cache[j].age + IppTimeout)'
  <2>1. PICK n, seen : n = cache[j].age + IppTimeout /\ seen = cache[j].status
    OBVIOUS
  <2>2. /\ cache[j] # Uncached /\ cache'[j].status = seen /\ cache'[j].age = cache[j].age + 1
    BY <1>1, <1>3, <2>1
  <2>3. cache[j].age \in Nat
    BY <2>2, Numbers DEF Shapes, Entry
  <2>4. n \in Nat /\ cache'[j].age + IppTimeout = n + 1
    BY <2>1, <2>2, <2>3, Numbers
  <2>5. Behind(seen, j, n)
    BY <2>1, <2>2 DEF Recent
  <2>6. Behind(seen, j, n + 1)'
    BY <1>2, <2>4, <2>5
  <2>. QED BY <2>2, <2>4, <2>6 DEF Behind
<1>4. ASSUME NEW c \in Callers, call'[c].phase = "answered"
      PROVE  Behind(call[c].seen, call[c].job, call[c].elapsed)'
  <2>1. /\ call[c].phase = "answered" /\ call[c].job \in Jobs /\ call[c].elapsed \in Nat
        /\ call'[c].elapsed = call[c].elapsed + 1
    BY <1>1, <1>4 DEF Shapes, Call
  <2>2. PICK n, seen, j : n = call[c].elapsed /\ seen = call[c].seen /\ j = call[c].job
    OBVIOUS
  <2>3. Behind(seen, j, n + 1)'
    <3>1. Behind(seen, j, n)
      BY <2>1, <2>2 DEF Recent
    <3>. QED BY <1>2, <2>1, <2>2, <3>1
  <2>. QED BY <1>1, <2>1, <2>2, <2>3 DEF Behind
<1>. QED BY <1>1, <1>3, <1>4 DEF Recent

LEMMA RecentStep == Registry /\ Registry' /\ Recent /\ [Next]_vars => Recent'
<1>. SUFFICES ASSUME Registry, Registry', Recent, [Next]_vars PROVE Recent'
  OBVIOUS
<1>. Shapes /\ Shapes'
  BY DEF Registry
<1>1. CASE /\ UNCHANGED <<cache, call>>
           /\ UNCHANGED <<cups, steady>> \/ \E i \in Jobs, to \in CupsState : CupsMoves(i, to)
  <2>1. PICK c : c \notin Callers     \* no call changes
    <3>. DEFINE R == {x \in Callers : x \notin x}
    <3>1. R \notin Callers
      OBVIOUS
    <3>. QED BY <3>1
  <2>. QED BY <1>1, <2>1, RecentKept
<1>2. CASE Cups
  <2>1. \E j \in Jobs, to \in CupsState : CupsMoves(j, to)
    BY <1>2, Zenon DEF Cups, CupsCreates, CupsEnds, CupsPurges, CupsState
  <2>. QED BY <1>1, <1>2, <2>1 DEF Cups
<1>3. CASE (\E j \in Jobs : RegisterJob(j)) \/ PruneRegistry
  BY <1>1, <1>3 DEF RegisterJob, PruneRegistry, cupsVars
<1>4. CASE \E c \in Callers, j \in Jobs : StartGet(c, j) \/ StartCancel(c, j)
  BY <1>4, RecentStart
<1>5. CASE \E c \in Callers : \/ CupsAnswersGet(c) \/ CupsCancels(c) \/ CallFails(c)
                              \/ FinishGet(c) \/ FinishCancel(c)
  BY <1>5, RecentAnswer, RecentFinish
<1>6. CASE \E c \in Listers : \/ \E a \in BOOLEAN, p \in Filters : StartList(c, a, p)
                              \/ ListPrinter(c) \/ FinishList(c) \/ ListFails(c)
  BY <1>1, <1>6 DEF StartList, ListPrinter, FinishList, ListFails, cupsVars
<1>7. CASE Tick
  BY <1>7, RecentTick
<1>8. CASE UNCHANGED vars
  BY <1>1, <1>8 DEF vars
<1>. QED BY <1>2, <1>3, <1>4, <1>5, <1>6, <1>7, <1>8 DEF Next

\* However reads, cancellations and late answers meet in the cache of statuses
\* (src/cups/mod.rs), a read shows what CUPS says or said less than the time to
\* live of a status and one IPP call ago.
THEOREM StatusCatchesUpCorrect == Spec => []StatusCatchesUp
<1>1. Registry /\ Recent => StatusCatchesUp
  <2>. SUFFICES ASSUME Registry, Recent, NEW c \in Readers,
                       call[c].phase \in {"hit", "answered"},
                       steady[call[c].job] >= StatusTtl + IppTimeout
                PROVE  call[c].seen = Info(cups[call[c].job])
    BY DEF StatusCatchesUp
  <2>1. /\ c \in Callers /\ call[c].job \in Jobs /\ call[c].elapsed \in 0..IppTimeout
        /\ steady[call[c].job] \in Nat
    BY Numbers DEF Registry, Shapes, Call, Callers
  <2>2. CASE call[c].phase = "hit"
    <3>1. Behind(call[c].seen, call[c].job, StatusTtl - 1 + IppTimeout)
      BY <2>1, <2>2 DEF Recent
    <3>2. ~(steady[call[c].job] <= StatusTtl - 1 + IppTimeout)
      BY <2>1, Numbers
    <3>. QED BY <3>1, <3>2 DEF Behind
  <2>3. CASE call[c].phase = "answered"
    <3>1. Behind(call[c].seen, call[c].job, call[c].elapsed)
      BY <2>1, <2>3 DEF Recent
    <3>2. ~(steady[call[c].job] <= call[c].elapsed)
      BY <2>1, Numbers
    <3>. QED BY <3>1, <3>2 DEF Behind
  <2>. QED BY <2>2, <2>3
<1>2. Spec => []Recent
  BY RecentInit, RecentStep, RegistryInvariant, PTL DEF Spec
<1>. QED BY <1>1, <1>2, RegistryInvariant, PTL

-----------------------------------------------------------------------------
(* Lists.                                                                  *)

\* The first elements of a sequence, at most n.
Prefix(s, n) == SubSeq(s, 1, IF Len(s) < n THEN Len(s) ELSE n)

LEMMA PrefixFacts ==
    ASSUME NEW S, NEW s \in Seq(S), NEW n \in Nat
    PROVE  /\ Prefix(s, n) \in Seq(S)
           /\ Len(Prefix(s, n)) <= Len(s)
           /\ ToSet(Prefix(s, n)) \subseteq ToSet(s)
           /\ Prefix(s, n) = s \/ Len(Prefix(s, n)) = n
<1>1. PICK m : m = IF Len(s) < n THEN Len(s) ELSE n
  OBVIOUS
<1>2. m \in Nat /\ m <= Len(s) /\ Len(s) \in Nat /\ (m = Len(s) \/ m = n)
  BY <1>1
<1>3. PICK q : q = SubSeq(s, 1, m)
  OBVIOUS
<1>4. /\ q \in Seq(S) /\ Len(q) = m
      /\ \A i \in 1..m : q[i] = s[i]
  BY <1>2, <1>3
<1>5. ToSet(q) \subseteq ToSet(s)
  BY <1>2, <1>4 DEF ToSet
<1>6. m = Len(s) => q = s
  BY <1>2, <1>4
<1>7. q = Prefix(s, n)
  BY <1>1, <1>3 DEF Prefix
<1>. QED BY <1>2, <1>4, <1>5, <1>6, <1>7

LEMMA ReverseFacts ==
    ASSUME NEW S, NEW s \in Seq(S)
    PROVE  /\ Reverse(s) \in Seq(S) /\ Len(Reverse(s)) = Len(s)
           /\ ToSet(Reverse(s)) \subseteq ToSet(s)
<1>1. PICK q : q = Reverse(s)
  OBVIOUS
<1>2. Len(s) \in Nat /\ q = [i \in 1..Len(s) |-> s[(Len(s) - i) + 1]]
  BY <1>1 DEF Reverse
<1>3. \A i \in 1..Len(s) : (Len(s) - i) + 1 \in 1..Len(s)
  BY <1>2
<1>4. q \in Seq(S) /\ Len(q) = Len(s) /\ DOMAIN q = 1..Len(s) /\ DOMAIN s = 1..Len(s)
  BY <1>2, <1>3
<1>5. ToSet(q) \subseteq ToSet(s)
  BY <1>2, <1>3, <1>4 DEF ToSet
<1>. QED BY <1>1, <1>4, <1>5

\* What the registry lists are jobs it has.
LEMMA ListFilteredFacts ==
    ASSUME order \in Seq(Jobs), NEW p, NEW n \in Nat
    PROVE  /\ ListFiltered(p, n) \in Seq(Jobs)
           /\ Len(ListFiltered(p, n)) <= Len(order)
           /\ ToSet(ListFiltered(p, n)) \subseteq ToSet(order)
<1>1. PICK r : r = Reverse(order)
  OBVIOUS
<1>2. PICK wanted : wanted = Filtered(r, {j \in Jobs : p \in {"all", Printer[j]}})
  OBVIOUS
<1>3. /\ r \in Seq(Jobs) /\ Len(r) = Len(order) /\ ToSet(r) \subseteq ToSet(order)
  BY <1>1, ReverseFacts
<1>4. /\ wanted \in Seq(Jobs) /\ Len(wanted) <= Len(r) /\ ToSet(wanted) \subseteq ToSet(r)
  BY <1>2, <1>3, FilteredFacts
<1>5. ListFiltered(p, n) = Prefix(wanted, n)
  BY <1>1, <1>2, Zenon DEF ListFiltered, Prefix
<1>6. PICK q : q = Prefix(wanted, n)
  OBVIOUS
<1>7. q \in Seq(Jobs) /\ Len(q) <= Len(wanted) /\ ToSet(q) \subseteq ToSet(wanted)
  BY <1>4, <1>6, PrefixFacts
<1>8. Len(q) <= Len(order)
  BY <1>3, <1>4, <1>7
<1>. QED BY <1>3, <1>4, <1>5, <1>6, <1>7, <1>8

\* What get-jobs has said of the jobs of some printers.
Infos == UNION {[P -> UNION {[J -> Visible \cup {"none"}] : J \in SUBSET Jobs}] : P \in SUBSET Printers}

Listing == [phase : {"idle", "asking"}, active : BOOLEAN, records : Seq(Jobs),
            info : Infos, present : SUBSET Jobs]

\* A list began with jobs that CUPS had created, an active one with all it could
\* show; and as a job is active only at first, one that still is was when its
\* printer was asked.
Listed(x) ==
    /\ \A j \in ToSet(x.records) : cups[j] # "none"
    /\ x.active => x.present = ToSet(x.records)
    /\ \A j \in ToSet(x.records) : Printer[j] \in DOMAIN x.info /\ cups[j] = "active" =>
          x.info[Printer[j]][j] = "active"

Lists ==
    /\ listing \in [Listers -> Listing]
    /\ \A c \in Listers : Len(listing[c].records) <= Capacity /\ Listed(listing[c])

LEMMA NoListFacts == NoList \in Listing /\ Len(NoList.records) <= Capacity /\ Listed(NoList)
<1>1. NoList = [phase |-> "idle", active |-> FALSE, records |-> <<>>,
                info |-> [p \in {} |-> {}], present |-> {}]
  BY DEF NoList
<1>2. PICK f : f = [p \in {} |-> {}]
  OBVIOUS
<1>3. f \in Infos
  <2>1. f \in [{} -> UNION {[J -> Visible \cup {"none"}] : J \in SUBSET Jobs}]
    BY <1>2
  <2>. QED BY <2>1 DEF Infos
<1>4. <<>> \in Seq(Jobs) /\ Len(<<>>) = 0 /\ ToSet(<<>>) = {}
  BY DEF ToSet
<1>. QED BY <1>1, <1>2, <1>3, <1>4, Numbers DEF Listing, Listed

LEMMA ListsInit == Init => Lists
BY NoListFacts DEF Init, Lists

\* A job that CUPS has created stays created, and none becomes active again.
LEMMA CupsOnlyEnds ==
    ASSUME Shapes, [Next]_vars, NEW j \in Jobs, cups[j] # "none"
    PROVE  cups'[j] # "none" /\ (cups'[j] = "active" => cups[j] = "active")
<1>1. CASE UNCHANGED cups
  BY <1>1
<1>2. CASE \E i \in Jobs, to \in {"completed", "canceled", "gone"} : CupsMoves(i, to)
  BY <1>2, CupsMovesFacts DEF CupsState
<1>3. CASE \E i \in Jobs : CupsCreates(i)
  BY <1>3, CupsMovesFacts DEF CupsState, CupsCreates
<1>4. CASE Cups
  BY <1>2, <1>3, <1>4, Zenon DEF Cups, CupsEnds, CupsPurges
<1>5. CASE \E c \in Callers : CupsCancels(c)
  <2>1. PICK c \in Callers : CupsCancels(c)
    BY <1>5
  <2>2. call[c].job \in Jobs /\ CupsMoves(call[c].job, "canceled")
    BY <2>1 DEF CupsCancels, Shapes
  <2>. QED BY <1>2, <2>2
<1>6. CASE \/ \E i \in Jobs : RegisterJob(i)
           \/ PruneRegistry \/ Tick \/ UNCHANGED vars
  BY <1>1, <1>6 DEF RegisterJob, PruneRegistry, Tick, vars, cupsVars
<1>7. CASE \E c \in Callers, i \in Jobs : StartGet(c, i) \/ StartCancel(c, i)
  BY <1>1, <1>7 DEF StartGet, StartCancel, cupsVars
<1>8. CASE \E c \in Callers : CupsAnswersGet(c) \/ CallFails(c) \/ FinishGet(c) \/ FinishCancel(c)
  BY <1>1, <1>8 DEF CupsAnswersGet, CallFails, FinishGet, FinishCancel, cupsVars
<1>9. CASE \E c \in Listers : \/ \E a \in BOOLEAN, p \in Filters : StartList(c, a, p)
                              \/ ListPrinter(c) \/ FinishList(c) \/ ListFails(c)
  BY <1>1, <1>9 DEF StartList, ListPrinter, FinishList, ListFails, cupsVars
<1>. QED BY <1>4, <1>5, <1>6, <1>7, <1>8, <1>9, Zenon DEF Next

LEMMA StartListFacts ==
    ASSUME Registry, Lists, NEW c \in Listers, NEW a \in BOOLEAN, NEW p \in Filters,
           StartList(c, a, p)
    PROVE  \E x \in Listing : /\ listing' = [listing EXCEPT ![c] = x]
                              /\ Len(x.records) <= Capacity /\ Listed(x)
<1>1. PICK s : s = ListFiltered(p, RegistryLimit(a))
  OBVIOUS
<1>2. PICK t : t = ListFiltered(p, Capacity)
  OBVIOUS
<1>3. PICK f : f = [q \in {} |-> {}]
  OBVIOUS
<1>4. PICK x : x = [phase |-> "asking", active |-> a, records |-> s, info |-> f,
                    present |-> ToSet(t)]
  OBVIOUS
<1>5. listing' = [listing EXCEPT ![c] = x]
  BY <1>1, <1>2, <1>3, <1>4 DEF StartList
<1>6. order \in Seq(Jobs) /\ Len(order) \in Nat /\ Len(order) <= Capacity
      /\ \A j \in ToSet(order) : j \in Jobs /\ cups[j] # "none"
  BY DEF Registry, Shapes, OrderMatchesMap, Histories, Known
<1>7. RegistryLimit(a) \in Nat /\ (a => RegistryLimit(a) = Capacity)
  BY Numbers DEF RegistryLimit
<1>8. /\ s \in Seq(Jobs) /\ Len(s) <= Len(order) /\ ToSet(s) \subseteq ToSet(order)
  BY <1>1, <1>6, <1>7, ListFilteredFacts
<1>9. ToSet(t) \subseteq ToSet(order)
  BY <1>2, <1>6, Numbers, ListFilteredFacts
<1>10. f \in Infos /\ DOMAIN f = {}
  <2>1. f \in [{} -> UNION {[J -> Visible \cup {"none"}] : J \in SUBSET Jobs}]
    BY <1>3
  <2>. QED BY <2>1 DEF Infos
<1>11. x \in Listing
  BY <1>4, <1>6, <1>8, <1>9, <1>10 DEF Listing
<1>12. Len(x.records) <= Capacity
  BY <1>4, <1>6, <1>8, Numbers
<1>13. Listed(x)
  <2>1. a => s = t
    BY <1>1, <1>2, <1>7
  <2>. QED BY <1>4, <1>6, <1>8, <1>10, <2>1 DEF Listed
<1>. QED BY <1>5, <1>11, <1>12, <1>13

LEMMA ListPrinterFacts ==
    ASSUME Registry, Lists, NEW c \in Listers, ListPrinter(c)
    PROVE  \E x \in Listing : /\ listing' = [listing EXCEPT ![c] = x]
                              /\ Len(x.records) <= Capacity /\ Listed(x)
<1>1. PICK y : y = listing[c]
  OBVIOUS
<1>2. y \in Listing /\ Len(y.records) <= Capacity /\ Listed(y) /\ listing \in [Listers -> Listing]
  BY <1>1 DEF Lists
<1>3. PICK p : /\ p \in ToAsk(c)
               /\ listing' = [listing EXCEPT ![c].info =
                    [q \in DOMAIN @ \cup {p} |->
                       IF q = p THEN [j \in {i \in Jobs : Printer[i] = p} |-> Info(cups[j])]
                       ELSE @[q]]]
  BY Zenon DEF ListPrinter
<1>4. PICK f : f = [j \in {i \in Jobs : Printer[i] = p} |-> Info(cups[j])]
  OBVIOUS
<1>5. PICK info : info = [q \in DOMAIN y.info \cup {p} |-> IF q = p THEN f ELSE y.info[q]]
  OBVIOUS
<1>6. listing' = [listing EXCEPT ![c].info = info]
  BY <1>1, <1>3, <1>4, <1>5
<1>7. PICK x : x = [y EXCEPT !.info = info]
  OBVIOUS
<1>8. listing' = [listing EXCEPT ![c] = x]
  BY <1>1, <1>2, <1>6, <1>7
<1>9. p \in Printers
  <2>1. \A j \in ToSet(y.records) : j \in Jobs
    BY <1>2 DEF Listing, ToSet
  <2>2. p \in {Printer[j] : j \in ToSet(y.records)}
    BY <1>1, <1>3 DEF ToAsk
  <2>. QED BY <2>1, <2>2, RegistryAssumption
<1>10. f \in UNION {[J -> Visible \cup {"none"}] : J \in SUBSET Jobs}
  <2>1. f \in [{i \in Jobs : Printer[i] = p} -> Visible \cup {"none"}]
    BY <1>4 DEF Info
  <2>. QED BY <2>1
<1>11. info \in Infos
  <2>1. PICK F : F = UNION {[J -> Visible \cup {"none"}] : J \in SUBSET Jobs}
    OBVIOUS
  <2>2. y.info \in UNION {[P -> F] : P \in SUBSET Printers}
    BY <1>2, <2>1 DEF Listing, Infos
  <2>3. PICK P \in SUBSET Printers : y.info \in [P -> F]
    BY <2>2
  <2>4. info \in [P \cup {p} -> F]
    BY <1>5, <1>10, <2>1, <2>3
  <2>5. P \cup {p} \in SUBSET Printers
    BY <1>9
  <2>. QED BY <2>1, <2>4, <2>5 DEF Infos
<1>12. /\ x \in Listing /\ x.records = y.records /\ x.active = y.active
       /\ x.present = y.present /\ x.info = info
  BY <1>2, <1>7, <1>11 DEF Listing
<1>13. Listed(x)
  <2>1. ASSUME NEW j \in ToSet(y.records), Printer[j] \in DOMAIN info, cups[j] = "active"
        PROVE  info[Printer[j]][j] = "active"
    <3>1. CASE Printer[j] = p
      <4>1. j \in Jobs
        BY <1>2 DEF Listing, ToSet
      <4>2. f[j] = "active"
        BY <1>4, <2>1, <3>1, <4>1 DEF Info, Visible
      <4>. QED BY <1>5, <2>1, <3>1, <4>2
    <3>2. CASE Printer[j] # p
      BY <1>2, <1>5, <2>1, <3>2 DEF Listed
    <3>. QED BY <3>1, <3>2
  <2>. QED BY <1>2, <1>12, <2>1 DEF Listed
<1>. QED BY <1>2, <1>8, <1>12, <1>13

LEMMA ListsStep == Registry /\ Lists /\ [Next]_vars => Lists'
<1>. SUFFICES ASSUME Registry, Lists, [Next]_vars PROVE Lists'
  OBVIOUS
<1>1. ASSUME NEW x \in Listing, Listed(x)
      PROVE  Listed(x)'
  <2>1. \A j \in ToSet(x.records) : j \in Jobs
    BY <1>1 DEF Listing, ToSet
  <2>2. \A j \in ToSet(x.records) : cups'[j] # "none" /\ (cups'[j] = "active" => cups[j] = "active")
    BY <1>1, <2>1, CupsOnlyEnds DEF Registry, Listed
  <2>. QED BY <1>1, <2>2 DEF Listed
<1>2. ASSUME NEW c \in Listers, NEW x \in Listing, listing' = [listing EXCEPT ![c] = x],
             Len(x.records) <= Capacity, Listed(x)
      PROVE  Lists'
  <2>1. listing' \in [Listers -> Listing] /\ listing'[c] = x
        /\ \A b \in Listers \ {c} : listing'[b] = listing[b]
    BY <1>2 DEF Lists
  <2>2. ASSUME NEW b \in Listers
        PROVE  Len(listing'[b].records) <= Capacity /\ Listed(listing[b])'
    <3>1. PICK y \in Listing : y = listing'[b] /\ Len(y.records) <= Capacity /\ Listed(y)
      BY <1>2, <2>1 DEF Lists
    <3>2. Listed(y)'
      BY <1>1, <3>1
    <3>. QED BY <3>1, <3>2 DEF Listed
  <2>. QED BY <2>1, <2>2 DEF Lists
<1>3. CASE UNCHANGED listing
  <2>1. ASSUME NEW b \in Listers PROVE Listed(listing[b])'
    <3>1. PICK y \in Listing : y = listing[b] /\ Listed(y)
      BY DEF Lists
    <3>2. Listed(y)'
      BY <1>1, <3>1
    <3>. QED BY <1>3, <3>1, <3>2 DEF Listed
  <2>. QED BY <1>3, <2>1 DEF Lists
<1>4. CASE \E c \in Listers : \/ \E a \in BOOLEAN, p \in Filters : StartList(c, a, p)
                              \/ ListPrinter(c) \/ FinishList(c) \/ ListFails(c)
  <2>1. PICK c \in Listers : \/ \E a \in BOOLEAN, p \in Filters : StartList(c, a, p)
                             \/ ListPrinter(c) \/ FinishList(c) \/ ListFails(c)
    BY <1>4
  <2>2. CASE \E a \in BOOLEAN, p \in Filters : StartList(c, a, p)
    BY <1>2, <2>2, StartListFacts
  <2>3. CASE ListPrinter(c)
    BY <1>2, <2>3, ListPrinterFacts
  <2>4. CASE FinishList(c) \/ ListFails(c)
    BY <1>2, <2>4, NoListFacts DEF FinishList, ListFails
  <2>. QED BY <2>1, <2>2, <2>3, <2>4
<1>5. CASE Cups \/ PruneRegistry \/ Tick \/ (\E j \in Jobs : RegisterJob(j)) \/ UNCHANGED vars
  BY <1>3, <1>5 DEF Cups, PruneRegistry, Tick, RegisterJob, vars
<1>6. CASE \E c \in Callers, j \in Jobs : StartGet(c, j) \/ StartCancel(c, j)
  BY <1>3, <1>6 DEF StartGet, StartCancel
<1>7. CASE \E c \in Callers : \/ CupsAnswersGet(c) \/ CupsCancels(c) \/ CallFails(c)
                              \/ FinishGet(c) \/ FinishCancel(c)
  BY <1>3, <1>7 DEF CupsAnswersGet, CupsCancels, CallFails, FinishGet, FinishCancel
<1>. QED BY <1>4, <1>5, <1>6, <1>7, Zenon DEF Next

\* When all printers of a list of active jobs have answered, every job it could
\* show that is still active passes the filter.
LEMMA ActiveShown ==
    ASSUME Registry, Lists, NEW c \in Listers, listing[c].active, ToAsk(c) = {},
           NEW j \in listing[c].present, cups[j] = "active"
    PROVE  Contains(Views(c), j) \/ Len(Views(c)) = Limit
<1>1. PICK x : x = listing[c]
  OBVIOUS
<1>2. /\ x \in Listing /\ Listed(x) /\ x.active /\ x.records \in Seq(Jobs)
      /\ j \in ToSet(x.records)
  BY <1>1 DEF Lists, Listed, Listing
<1>3. Printer[j] \in DOMAIN x.info
  BY <1>1, <1>2 DEF ToAsk
<1>4. PICK kept : kept = {i \in ToSet(x.records) : Status(c, i) = "active"}
  OBVIOUS
<1>5. j \in kept
  BY <1>1, <1>2, <1>3, <1>4 DEF Listed, Status
<1>6. PICK shown : shown = Filtered(x.records, kept)
  OBVIOUS
<1>7. shown \in Seq(Jobs) /\ ToSet(shown) = ToSet(x.records) \cap kept
  BY <1>2, <1>6, FilteredFacts
<1>8. Views(c) = Prefix(shown, Limit)
  BY <1>1, <1>2, <1>4, <1>6, Zenon DEF Views, Prefix
<1>9. PICK v : v = Views(c)
  OBVIOUS
<1>10. v \in Seq(Jobs) /\ (v = shown \/ Len(v) = Limit)
  BY <1>7, <1>8, <1>9, Numbers, PrefixFacts
<1>11. j \in ToSet(shown)
  BY <1>2, <1>5, <1>7
<1>12. CASE v = shown
  <2>1. PICK n \in DOMAIN v : v[n] = j
    BY <1>11, <1>12 DEF ToSet
  <2>2. DOMAIN v = 1..Len(v)
    BY <1>10
  <2>. QED BY <1>9, <2>1, <2>2 DEF Contains
<1>. QED BY <1>9, <1>10, <1>12

LEMMA ListsInvariant == Spec => []Lists
<1>. QED BY ListsInit, ListsStep, RegistryInvariant, PTL DEF Spec

\* A job that a list of active jobs could show when it began, and that is still
\* in CUPS's queue at its end, is in it unless it is full (list,
\* src/api/jobs.rs): the registry does not cut it before the statuses are known.
THEOREM ActiveNotCrowdedOutCorrect == Spec => ActiveNotCrowdedOut
<1>1. Registry /\ Lists => [\A c \in Listers :
                               FinishList(c) /\ listing[c].active =>
                                  \A j \in listing[c].present :
                                     cups[j] = "active" => \/ Contains(Views(c), j)
                                                           \/ Len(Views(c)) = Limit]_vars
  <2>. SUFFICES ASSUME Registry, Lists, NEW c \in Listers, FinishList(c), listing[c].active,
                       NEW j \in listing[c].present, cups[j] = "active"
                PROVE  Contains(Views(c), j) \/ Len(Views(c)) = Limit
    OBVIOUS
  <2>1. ToAsk(c) = {}
    BY DEF FinishList
  <2>. QED BY <2>1, ActiveShown
<1>. QED BY <1>1, RegistryInvariant, ListsInvariant, PTL DEF ActiveNotCrowdedOut

\* Every variable of JobRegistry keeps to its type; that no more jobs are in the
\* history than there are needs a finite set of jobs.
THEOREM TypeCorrect == IsFiniteSet(Jobs) => (Spec => []TypeOK)
<1>. SUFFICES ASSUME IsFiniteSet(Jobs) PROVE Spec => []TypeOK
  OBVIOUS
<1>1. ASSUME NEW s \in Seq(Jobs), NEW n \in Nat, Len(s) <= n PROVE s \in SeqOf(Jobs, n)
  <2>1. Len(s) \in 0..n /\ s \in [1..Len(s) -> Jobs]
    BY <1>1
  <2>. QED BY <2>1 DEF SeqOf
<1>2. ASSUME Registry, Lists PROVE TypeOK
  <2>1. order \in SeqOf(Jobs, Capacity)
    BY <1>1, <1>2, Numbers DEF Registry, Shapes, OrderMatchesMap
  <2>2. history \in SeqOf(Jobs, Cardinality(Jobs))
    <3>1. ToSet(history) \subseteq Jobs /\ history \in Seq(Jobs) /\ IsInjective(history)
      BY <1>2 DEF Registry, Shapes, Histories, ToSet
    <3>2. Cardinality(Jobs) \in Nat /\ Cardinality(ToSet(history)) <= Cardinality(Jobs)
      BY <3>1, FS_CardinalityType, FS_Subset
    <3>3. Cardinality(ToSet(history)) = Len(history)
      BY <3>1, InjectiveLength
    <3>4. PICK n : n = Cardinality(Jobs)
      OBVIOUS
    <3>5. n \in Nat /\ Len(history) <= n
      BY <3>2, <3>3, <3>4
    <3>. QED BY <1>1, <3>1, <3>4, <3>5
  <2>3. ASSUME NEW c \in Listers
        PROVE  /\ listing[c].phase \in {"idle", "asking"}
               /\ listing[c].records \in SeqOf(Jobs, Capacity)
               /\ listing[c].present \subseteq Jobs
    <3>1. listing[c] \in Listing /\ Len(listing[c].records) <= Capacity
      BY <1>2 DEF Lists
    <3>. QED BY <1>1, <3>1, Numbers DEF Listing
  <2>4. cache \in [Jobs -> [status : Visible \cup {"none", "uncached"}, age : 0..StatusTtl - 1]]
    <3>1. ASSUME NEW e \in Entry
          PROVE  e \in [status : Visible \cup {"none", "uncached"}, age : 0..StatusTtl - 1]
      BY Numbers DEF Entry, Uncached
    <3>. QED BY <1>2, <3>1 DEF Registry, Shapes
  <2>5. call \in [Callers -> [phase : {"idle", "hit", "asking", "answered"},
                              job : Jobs \cup {NoJob}, record : Record,
                              seen : Visible \cup {"none"}, elapsed : 0..IppTimeout]]
    BY <1>2, Zenon DEF Registry, Shapes, Call
  <2>6. /\ cups \in [Jobs -> CupsState] /\ steady \in [Jobs -> 0..StatusTtl + IppTimeout]
        /\ map \in [Jobs -> Record] /\ canceled \subseteq Jobs
    BY <1>2 DEF Registry, Shapes
  <2>. QED BY ONLY <2>1, <2>2, <2>3, <2>4, <2>5, <2>6 DEF TypeOK
<1>. QED BY <1>2, RegistryInvariant, ListsInvariant, PTL
=============================================================================
