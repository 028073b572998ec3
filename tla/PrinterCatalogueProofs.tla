----------------------- MODULE PrinterCatalogueProofs -----------------------
(***************************************************************************)
(* What the printer snapshot and the option catalogue promise, for any     *)
(* printers, reports, requests, times to live and timeouts.                *)
(*                                                                         *)
(* First the pure part: what encode_value sends is something the printer   *)
(* said it supports, and what parse_options offers is accepted back.  Then *)
(* the snapshot: which versions of the printers it can hold, and how long  *)
(* ago they were replaced.                                                 *)
(***************************************************************************)
EXTENDS PrinterCatalogue, FiniteSetTheorems, NaturalsInduction, WellFoundedInduction, TLAPS

-----------------------------------------------------------------------------
(* Options.                                                                *)

\* value_int_choices only yields numbers the printer supports: single numbers,
\* and the ends of ranges that are ranges.
LEMMA ChoicesSupported ==
    ASSUME NEW Words, NEW supported, IsAttribute(supported, Words),
           \A s \in Tagged(supported.values, "range") : s.min <= s.max,
           NEW n \in IntChoices(supported.values)
    PROVE  Supports(supported, Whole(n))
<1>1. CASE \E s \in Tagged(supported.values, "integer") : n = s.number
  <2>1. PICK s \in Tagged(supported.values, "integer") : n = s.number
    BY <1>1
  <2>2. s = Whole(n)
    BY <2>1 DEF Tagged, Whole, IsAttribute, Values
  <2> QED BY <2>2 DEF Supports, Tagged
<1>2. CASE \E s \in Tagged(supported.values, "enum") : n = s.number
  BY <1>2 DEF Supports, Whole
<1>3. CASE \E s \in Tagged(supported.values, "range") : n \in {s.min, s.max}
  <2>1. PICK s \in Tagged(supported.values, "range") : n \in {s.min, s.max}
    BY <1>3
  <2>2. s.min \in Int /\ s.max \in Int /\ s.min <= s.max
    BY DEF Tagged, IsAttribute, Values
  <2>3. s.min <= n /\ n <= s.max
    BY <2>1, <2>2
  <2> QED BY <2>3 DEF Supports, Whole
<1> QED BY <1>1, <1>2, <1>3 DEF IntChoices

\* Whatever a client sends, an option that is accepted is encoded as a value the
\* printer reported it supports: parse_options and encode_value agree.
THEOREM EncodedIsSupported ==
    ASSUME NEW Words, NEW o \in Options, NEW default,
           NEW supported, IsAttribute(supported, Words),
           \A s \in Tagged(supported.values, "range") : s.min <= s.max,
           NEW text, IsText(text),
           NEW v \in Encoded(o, Spec1(o, supported, default), text)
    PROVE  Supports(supported, v)
<1> DEFINE spec == Spec1(o, supported, default)
<1>1. CASE spec = NoSpec
  BY <1>1 DEF Encoded, NoSpec
<1>2. CASE spec # NoSpec /\ o \in KeywordOptions
  <2>1. /\ spec.kind = "keyword"
        /\ spec.words = {s.word : s \in Tagged(supported.values, "string")}
    <3>0. supported.values # {}
      BY <1>2 DEF Spec1
    <3>1. spec = KeywordSpec(supported, default)
      BY <1>2, <3>0 DEF Spec1, KeywordOptions, EnumOptions, IntegerOptions
    <3>2. spec # NoSpec
      BY <1>2
    <3> HIDE DEF spec
    <3>3. {s.word : s \in Tagged(supported.values, "string")} # {}
      BY <3>1, <3>2, Zenon DEF KeywordSpec
    <3> QED BY <3>1, <3>3 DEF KeywordSpec
  <2>2. PICK s \in Tagged(supported.values, "string") : v = String(s.word)
    BY <2>1 DEF Encoded
  <2>3. v = s
    BY <2>2 DEF String, Tagged, IsAttribute, Values
  <2> QED BY <2>3 DEF Supports, Tagged
<1>3. CASE spec # NoSpec /\ o \in EnumOptions
  <2>1. /\ spec.kind = "enum"
        /\ spec.numbers = {s.number : s \in Tagged(supported.values, "enum")}
    <3>0. supported.values # {}
      BY <1>3 DEF Spec1
    <3>1. spec = EnumSpec(o, supported, default)
      BY <1>3, <3>0 DEF Spec1, KeywordOptions, EnumOptions, IntegerOptions
    <3>2. spec # NoSpec
      BY <1>3
    <3> HIDE DEF spec
    <3>3. {s.number : s \in Tagged(supported.values, "enum")} # {}
      BY <3>1, <3>2, Zenon DEF EnumSpec
    <3> QED BY <3>1, <3>3 DEF EnumSpec
  <2>2. PICK s \in Tagged(supported.values, "enum") : v = Enum(s.number)
    BY <2>1 DEF Encoded, EncodedEnum
  <2>3. v = s
    BY <2>2 DEF Enum, Tagged, IsAttribute, Values
  <2> QED BY <2>3 DEF Supports, Tagged
<1>4. CASE spec # NoSpec /\ o \in IntegerOptions
  <2>0. spec = IntegerSpec(supported, default)
    BY <1>4 DEF Spec1, KeywordOptions, EnumOptions, IntegerOptions
  <2>1. CASE supported.array
    <3>1. spec.kind = "choices" /\ spec.numbers = IntChoices(supported.values)
      BY <1>4, <2>0, <2>1 DEF IntegerSpec
    <3>2. PICK n \in IntChoices(supported.values) : v = Whole(n)
      BY <3>1 DEF Encoded
    <3> QED BY <3>2, ChoicesSupported
  <2>2. CASE ~supported.array
    <3>1. supported.first \in supported.values
      BY <2>2 DEF IsAttribute
    <3>2. CASE supported.first.tag = "range"
      <4>1. /\ spec.kind = "integer"
            /\ spec.min = supported.first.min /\ spec.max = supported.first.max
        BY <2>0, <2>2, <3>2 DEF IntegerSpec
      <4>2. PICK n : v = Whole(n) /\ spec.min <= n /\ n <= spec.max
        BY <4>1 DEF Encoded
      <4> QED BY <3>1, <3>2, <4>1, <4>2 DEF Supports, Whole, Tagged
    <3>3. CASE supported.first.tag = "integer"
      <4>1. /\ spec.kind = "integer"
            /\ spec.min = supported.first.number /\ spec.max = supported.first.number
        BY <2>0, <2>2, <3>3 DEF IntegerSpec
      <4>2. PICK n \in NumberOf(text) : v = Whole(n) /\ spec.min <= n /\ n <= spec.max
        BY <4>1 DEF Encoded
      <4>3. n \in Int /\ supported.first.number \in Int
        BY <3>1, <3>3 DEF NumberOf, IsText, IsAttribute, Values
      <4>4. n = supported.first.number
        BY <4>1, <4>2, <4>3
      <4>5. v = supported.first
        BY <4>2, <4>4, <3>1, <3>3 DEF Whole, IsAttribute, Values
      <4> QED BY <3>1, <4>5 DEF Supports
    <3>4. CASE supported.first.tag \notin {"range", "integer"}
      BY <1>4, <2>0, <2>2, <3>4 DEF IntegerSpec
    <3> QED BY <3>2, <3>3, <3>4
  <2> QED BY <2>1, <2>2
<1>5. CASE spec # NoSpec /\ o = "printer-resolution"
  <2>1. /\ spec.kind = "resolution"
        /\ spec.dots = Tagged(supported.values, "resolution")
    BY <1>5 DEF Spec1, ResolutionSpec, KeywordOptions, EnumOptions, IntegerOptions
  <2>2. v \in Tagged(supported.values, "resolution")
    BY <2>1 DEF Encoded
  <2> QED BY <2>2 DEF Supports, Tagged
<1> QED BY <1>1, <1>2, <1>3, <1>4, <1>5 DEF Options

\* Every text the catalogue offers for an option is one it accepts.
LEMMA OfferedIsAccepted ==
    ASSUME NEW attrs, NEW o \in Options, NEW text \in Offered(o, Catalogue(attrs)[o])
    PROVE  Acceptable(Catalogue(attrs), [x \in {o} |-> text])
<1>. DEFINE spec == Catalogue(attrs)[o]
<1>1. Encoded(o, spec, text) # {}
  <2>. HIDE DEF spec
  <2>0. text \in Offered(o, spec)
    BY DEF spec
  <2>1. CASE spec.kind = "keyword"
    <3>1. PICK w \in spec.words : text = Word(w)
      BY <2>0, <2>1 DEF Offered
    <3>. QED BY <2>1, <3>1 DEF Encoded
  <2>2. CASE spec.kind = "enum"
    <3>1. PICK n \in spec.numbers : text = EnumName(o, n)
      BY <2>0, <2>2 DEF Offered
    <3>. QED BY <2>2, <3>1 DEF Encoded, EncodedEnum
  <2>3. CASE spec.kind = "integer"
    <3>1. PICK n \in spec.min..spec.max : text = Number(n)
      BY <2>0, <2>3 DEF Offered
    <3>2. NumberOf(text) = {n}
      BY <3>1 DEF NumberOf, Number
    <3>3. spec.min <= n /\ n <= spec.max
      BY <3>1
    <3>. QED BY <2>3, <3>2, <3>3 DEF Encoded
  <2>4. CASE spec.kind = "choices"
    <3>1. PICK n \in spec.numbers : text = Number(n)
      BY <2>0, <2>4 DEF Offered
    <3>. QED BY <2>4, <3>1 DEF Encoded, NumberOf, Number
  <2>5. CASE spec.kind = "resolution"
    <3>1. PICK v \in spec.dots : text = ResolutionLabel(v)
      BY <2>0, <2>5 DEF Offered
    <3>. QED BY <2>5, <3>1 DEF Encoded
  <2>6. CASE spec.kind \notin {"keyword", "enum", "integer", "choices", "resolution"}
    BY <2>0, <2>6 DEF Offered
  <2>. QED BY <2>1, <2>2, <2>3, <2>4, <2>5, <2>6
<1>2. DOMAIN Catalogue(attrs) = Options
  BY DEF Catalogue
<1>. QED BY <1>1, <1>2 DEF Acceptable

Alone(o, text) == [x \in {o} |-> text]

\* What an entry of the snapshot offers, alone, is accepted with that entry.
LEMMA OffersFit ==
    ASSUME NEW p, NEW entry, NEW o \in Options, NEW text \in Offered(o, OffersOf(p, entry)[o])
    PROVE  Acceptable(OffersOf(p, entry), Alone(o, text))
<1>1. PICK attrs : OffersOf(p, entry) = Catalogue(attrs)
  BY DEF OffersOf
<1>2. text \in Offered(o, Catalogue(attrs)[o])
  BY <1>1
<1>. QED BY <1>1, <1>2, OfferedIsAccepted DEF Alone

\* A list never offers what a print with the same snapshot would refuse (GET
\* /api/printers and encode_job_attributes), whatever a printer reports.
THEOREM OffersArePrintableCorrect == Spec => OffersArePrintable
<1>1. [Next]_vars =>
        [\A r \in Requests :
          at[r] # "done" /\ at'[r] = "done" /\ answer'[r].kind = "listed" =>
              \A p \in Printers :
                  LET offers == OffersOf(p, answer'[r].value[p]) IN
                  \A o \in Options : \A text \in Offered(o, offers[o]) :
                      Acceptable(offers, [x \in {o} |-> text])]_vars
  <2>. SUFFICES ASSUME NEW r \in Requests, NEW p \in Printers,
                       NEW o \in Options,
                       NEW text \in Offered(o, OffersOf(p, answer'[r].value[p])[o])
                PROVE  Acceptable(OffersOf(p, answer'[r].value[p]), [x \in {o} |-> text])
    BY Zenon
  <2>1. Acceptable(OffersOf(p, answer'[r].value[p]), Alone(o, text))
    BY OffersFit
  <2>. QED BY <2>1 DEF Alone
<1>. QED BY <1>1, PTL DEF Spec, OffersArePrintable

-----------------------------------------------------------------------------
(* The shape of the state.                                                 *)

Moments == [version : Versions, quiet : BOOLEAN]
Answers == [kind : {"listed", "submitted", "refused", "error", "gone"},
            value : Snapshot \cup {Nothing}]
Pending == {"check", "queue", "recheck", "fetching"}

Sorts ==
    /\ TypeOK
    /\ cache # Nothing => cache \in [value : Snapshot, age : 0..CacheTtl]
    /\ ask \in [Requests -> Demands \cup {Nothing}]
    /\ seen \in [Requests -> Moments \cup {Nothing}]
    /\ answer \in [Requests -> Answers \cup {Nothing}]

\* A request that began has said what it wants, in a version that has been, and
\* whoever fetches waits for its fetch.
CatalogueShape ==
    /\ Sorts
    /\ \A r \in Requests :
          at[r] # "idle" => ask[r] \in Demands /\ seen[r] \in Moments /\ seen[r].version <= world
    /\ fetch # Nothing => at[fetch.by] = "fetching"

LEMMA Numbers ==
    /\ {PrinterCount, Concurrency, IppTimeout, CacheTtl} \subseteq Nat \ {0}
    /\ PrinterCount \in Nat /\ IppTimeout \in Nat /\ CacheTtl \in Nat /\ LastVersion \in Nat
    /\ Versions \subseteq Nat /\ Versions \subseteq Int
    /\ Rounds \in Nat /\ Longest \in Nat /\ Horizon \in Nat
    /\ Nothing \notin Versions /\ Failed \notin Versions /\ Nothing # Failed
<1>1. /\ PrinterCount \in Nat \ {0} /\ Concurrency \in Nat \ {0} /\ IppTimeout \in Nat \ {0}
      /\ CacheTtl \in Nat \ {0} /\ LastVersion \in Nat
      /\ Nothing \notin Versions \cup {Failed} /\ Failed \notin Versions
  BY CatalogueAssumption
<1>2. Versions \subseteq Nat
  BY <1>1 DEF Versions
<1>3. Rounds \in Nat
  <2>1. PICK n \in Nat, c \in Nat \ {0} : n = PrinterCount + Concurrency - 1 /\ c = Concurrency
    BY <1>1
  <2>. QED BY <2>1 DEF Rounds
<1>4. IppTimeout * Rounds \in Nat
  BY <1>1, <1>3
<1>. QED BY <1>1, <1>2, <1>3, <1>4 DEF Longest, Horizon

LEMMA ResponseType ==
    ASSUME NEW r, NEW value \in Snapshot
    PROVE  /\ Response(r, value) \in Answers /\ Response(r, value).value = value
           /\ Response(r, value).kind \in {"listed", "submitted", "refused"}
           /\ Lister(r) <=> Response(r, value).kind = "listed"
           /\ Response(r, value).kind = "submitted" =>
                 /\ ~Lister(r)
                 /\ Printable(ask[r].printer, value[ask[r].printer], ask[r].wants)
  BY DEF Response, Answers

\* What is fetched is a snapshot.
LEMMA FetchedType ==
    ASSUME Sorts, fetch # Nothing, fetch.listed # Nothing
    PROVE  Fetched \in Snapshot
<1>1. fetch.listed \in Versions /\ \A p \in Printers : fetch.loaded[p] \in Versions \cup {Nothing, Failed}
  BY DEF Sorts, TypeOK, Call
<1>. QED BY <1>1 DEF Fetched, Snapshot

\* The steps that answer, and with what.
Answering(r, value) ==
    /\ at[r] \in Pending
    /\ Reply(r, Response(r, value))
    /\ UNCHANGED <<world, gone, ask, seen>>
    /\ \/ /\ Fresh /\ value = cache.value /\ at[r] # "fetching"
          /\ UNCHANGED <<cache, fetch>>
       \/ /\ fetch # Nothing /\ fetch.listed # Nothing
          /\ \A p \in Listed : fetch.loaded[p] # Nothing
          /\ value = Fetched /\ r = fetch.by
          /\ cache' = [value |-> Fetched, age |-> 0]
          /\ fetch' = Nothing
    /\ lock' \in {lock, Nothing}

\* Giving up, with nothing.
Dropping(r) ==
    /\ at[r] \in Pending
    /\ \E kind \in {"error", "gone"} : Reply(r, [kind |-> kind, value |-> Nothing])
    /\ fetch' \in {Nothing, fetch} /\ lock' \in {lock, Nothing}
    /\ fetch # Nothing /\ fetch.by = r => fetch' = Nothing
    /\ UNCHANGED <<world, gone, cache, ask, seen>>

\* Moving on, without an answer.
Waiting(r) ==
    /\ at[r] \in Pending
    /\ UNCHANGED <<world, gone, cache, ask, seen, answer>>
    /\ \/ /\ at' = [at EXCEPT ![r] = "queue"] /\ at[r] = "check" /\ UNCHANGED <<fetch, lock>>
       \/ /\ at' = [at EXCEPT ![r] = "recheck"] /\ at[r] = "queue" /\ lock' = r /\ UNCHANGED fetch
       \/ /\ at' = [at EXCEPT ![r] = "fetching"] /\ fetch' = NewFetch(r) /\ UNCHANGED lock
          /\ ~Fresh

\* An IPP call of the fetch ends.
Loads(p) ==
    /\ fetch # Nothing /\ fetch.listed # Nothing /\ p \in Loading
    /\ \/ fetch' = [fetch EXCEPT !.loaded[p] = Failed]
       \/ Exists(p, world) /\ fetch' = [fetch EXCEPT !.loaded[p] = world]
    /\ UNCHANGED <<world, gone, cache, lock, ask, at, seen, answer>>

\* Every step is one of these.
LEMMA Steps ==
    ASSUME CatalogueShape, Next
    PROVE  \/ \E r \in Requests : \/ \E d \in Demands : Begin(r, d)
                                  \/ \E value \in Snapshot : Answering(r, value)
                                  \/ Dropping(r)
                                  \/ Waiting(r)
           \/ ListAnswers
           \/ \E p \in Printers : Loads(p)
           \/ Change \/ Tick
<1>s. /\ at \in [Requests -> {"idle", "done"} \cup Pending]
      /\ fetch # Nothing => fetch.by \in Requests /\ at[fetch.by] = "fetching"
  BY DEF CatalogueShape, Sorts, TypeOK, Call, Pending
<1>f. Fresh => cache.value \in Snapshot
  BY DEF CatalogueShape, Sorts, TypeOK, Fresh
<1>1. ASSUME NEW r \in Requests, CheckCache(r)
      PROVE  Waiting(r) \/ \E value \in Snapshot : Answering(r, value)
  BY <1>f, <1>1 DEF CheckCache, Waiting, Answering, Pending
<1>2. ASSUME NEW r \in Requests, TakeLock(r) PROVE Waiting(r)
  BY <1>2 DEF TakeLock, Waiting, Pending
<1>3. ASSUME NEW r \in Requests, Recheck(r)
      PROVE  Waiting(r) \/ \E value \in Snapshot : Answering(r, value)
  BY <1>f, <1>3 DEF Recheck, Waiting, Answering, Pending
<1>4. ASSUME NEW r \in Requests, Leave(r) PROVE Dropping(r)
  BY <1>s, <1>4 DEF Leave, Dropping, Pending
<1>5. ASSUME ListFails PROVE \E r \in Requests : Dropping(r)
  <2>1. fetch # Nothing /\ fetch.by \in Requests /\ at[fetch.by] \in Pending
    BY <1>s, <1>5 DEF ListFails, Pending
  <2>2. Dropping(fetch.by)
    BY <1>5, <2>1 DEF ListFails, Dropping
  <2>. QED BY <2>1, <2>2
<1>6. ASSUME Store PROVE \E r \in Requests, value \in Snapshot : Answering(r, value)
  <2>1. fetch # Nothing /\ fetch.by \in Requests /\ at[fetch.by] \in Pending
    BY <1>s, <1>6 DEF Store, Pending
  <2>2. Fetched \in Snapshot
    BY <1>6, FetchedType DEF Store, CatalogueShape
  <2>3. Answering(fetch.by, Fetched)
    BY <1>6, <2>1 DEF Store, Answering
  <2>. QED BY <2>1, <2>2, <2>3
<1>7. ASSUME NEW p \in Printers, OptionsAnswer(p) \/ OptionsFail(p) PROVE Loads(p)
  BY <1>7 DEF OptionsAnswer, OptionsFail, Loads
<1>. QED BY <1>1, <1>2, <1>3, <1>4, <1>5, <1>6, <1>7 DEF Next, Reading, Fetching

LEMMA InitCatalogue == Init => CatalogueShape
<1>. SUFFICES ASSUME Init PROVE CatalogueShape
  OBVIOUS
<1>1. 0 \in Versions /\ 0 \in 0..Horizon
  BY Numbers DEF Versions
<1>2. TypeOK
  BY <1>1 DEF Init, TypeOK
<1>. QED BY <1>1, <1>2 DEF Init, CatalogueShape, Sorts

LEMMA CatalogueStep ==
    ASSUME CatalogueShape, [Next]_vars
    PROVE  CatalogueShape'
<1>s. /\ world \in Versions /\ gone \in [Versions -> 0..Horizon]
      /\ cache # Nothing => cache \in [value : Snapshot, age : 0..CacheTtl]
      /\ lock \in Requests \cup {Nothing}
      /\ fetch # Nothing => fetch \in Call
      /\ at \in [Requests -> {"idle", "done"} \cup Pending]
      /\ ask \in [Requests -> Demands \cup {Nothing}]
      /\ seen \in [Requests -> Moments \cup {Nothing}]
      /\ answer \in [Requests -> Answers \cup {Nothing}]
  BY DEF CatalogueShape, Sorts, TypeOK, Pending
<1>r. \A r \in Requests :
        at[r] # "idle" => ask[r] \in Demands /\ seen[r] \in Moments /\ seen[r].version <= world
  BY DEF CatalogueShape
<1>f. fetch # Nothing => fetch.by \in Requests /\ at[fetch.by] = "fetching"
  BY <1>s DEF CatalogueShape, Call
\* It is enough to look at what is new.
<1>k. ASSUME /\ world' \in Versions /\ gone' \in [Versions -> 0..Horizon]
             /\ cache' # Nothing => cache' \in [value : Snapshot, age : 0..CacheTtl]
             /\ lock' \in Requests \cup {Nothing}
             /\ fetch' # Nothing => fetch' \in Call /\ at'[fetch'.by] = "fetching"
             /\ at' \in [Requests -> {"idle", "done"} \cup Pending]
             /\ ask' \in [Requests -> Demands \cup {Nothing}]
             /\ seen' \in [Requests -> Moments \cup {Nothing}]
             /\ answer' \in [Requests -> Answers \cup {Nothing}],
             \A r \in Requests : at'[r] # "idle" =>
                ask'[r] \in Demands /\ seen'[r] \in Moments /\ seen'[r].version <= world'
      PROVE  CatalogueShape'
  <2>1. TypeOK'
    BY <1>k DEF TypeOK, Pending
  <2>2. Sorts'
    BY <1>k, <2>1 DEF Sorts
  <2>. QED BY <1>k, <2>2 DEF CatalogueShape
<1>1. ASSUME NEW r \in Requests, NEW d \in Demands, Begin(r, d) PROVE CatalogueShape'
  <2>1. Moment \in Moments /\ Moment.version = world /\ world <= world
    BY <1>s, Numbers DEF Moment, Moments
  <2>2. /\ at[r] = "idle" /\ ask' = [ask EXCEPT ![r] = d] /\ at' = [at EXCEPT ![r] = "check"]
        /\ seen' = [seen EXCEPT ![r] = Moment]
        /\ cache' \in {cache, Nothing} /\ UNCHANGED <<world, gone, lock, fetch, answer>>
    BY <1>1 DEF Begin
  <2>3. at' \in [Requests -> {"idle", "done"} \cup Pending]
    BY <1>s, <2>2 DEF Pending
  <2>4. fetch # Nothing => at'[fetch.by] = "fetching"
    BY <1>s, <1>f, <2>2
  <2>5. \A s \in Requests : at'[s] # "idle" =>
           ask'[s] \in Demands /\ seen'[s] \in Moments /\ seen'[s].version <= world
    BY <1>s, <1>r, <2>1, <2>2
  <2>6. /\ ask' \in [Requests -> Demands \cup {Nothing}]
        /\ seen' \in [Requests -> Moments \cup {Nothing}]
    BY <1>s, <2>1, <2>2
  <2>. QED BY <1>k, <1>s, <2>2, <2>3, <2>4, <2>5, <2>6
<1>2. ASSUME NEW r \in Requests, NEW value \in Snapshot, Answering(r, value) PROVE CatalogueShape'
  <2>1. /\ at' = [at EXCEPT ![r] = "done"] /\ answer' = [answer EXCEPT ![r] = Response(r, value)]
        /\ at[r] # "idle" /\ lock' \in {lock, Nothing} /\ UNCHANGED <<world, gone, ask, seen>>
    BY <1>2 DEF Answering, Reply, Pending
  <2>2. /\ cache' # Nothing => cache' \in [value : Snapshot, age : 0..CacheTtl]
        /\ fetch' = Nothing \/ (at[r] # "fetching" /\ fetch' = fetch)
    BY <1>s, <1>2, Numbers DEF Answering
  <2>3. fetch' # Nothing => fetch' \in Call /\ at'[fetch'.by] = "fetching"
    BY <1>s, <1>f, <2>1, <2>2
  <2>. QED BY <1>k, <1>s, <1>r, <2>1, <2>2, <2>3, ResponseType
<1>3. ASSUME NEW r \in Requests, Dropping(r) PROVE CatalogueShape'
  <2>1. PICK kind \in {"error", "gone"} : Reply(r, [kind |-> kind, value |-> Nothing])
    BY <1>3 DEF Dropping
  <2>2. /\ at' = [at EXCEPT ![r] = "done"] /\ answer' = [answer EXCEPT ![r] = [kind |-> kind, value |-> Nothing]]
        /\ at[r] # "idle" /\ lock' \in {lock, Nothing} /\ UNCHANGED <<world, gone, cache, ask, seen>>
    BY <1>3, <2>1 DEF Dropping, Reply, Pending
  <2>3. [kind |-> kind, value |-> Nothing] \in Answers
    BY DEF Answers
  <2>4. fetch' # Nothing => fetch' \in Call /\ at'[fetch'.by] = "fetching"
    BY <1>s, <1>f, <1>3, <2>2 DEF Dropping
  <2>. QED BY <1>k, <1>s, <1>r, <2>2, <2>3, <2>4
<1>4. ASSUME NEW r \in Requests, Waiting(r) PROVE CatalogueShape'
  <2>1. at[r] # "idle" /\ UNCHANGED <<world, gone, cache, ask, seen, answer>>
        /\ \E a \in Pending : at' = [at EXCEPT ![r] = a]
        /\ lock' \in {lock, r}
    BY <1>4 DEF Waiting, Pending
  <2>2. NewFetch(r) \in Call /\ NewFetch(r).by = r
    BY Numbers DEF NewFetch, Call
  <2>3. fetch' # Nothing => fetch' \in Call /\ at'[fetch'.by] = "fetching"
    BY <1>s, <1>f, <1>4, <2>2 DEF Waiting
  <2>. QED BY <1>k, <1>s, <1>r, <2>1, <2>3
<1>5. ASSUME ListAnswers \/ \E p \in Printers : Loads(p) PROVE CatalogueShape'
  <2>1. /\ fetch # Nothing /\ UNCHANGED <<world, gone, cache, lock, ask, at, seen, answer>>
        /\ fetch' \in Call /\ fetch'.by = fetch.by
    <3>1. CASE ListAnswers
      <4>1. [p \in Printers |-> 0] \in [Printers -> 0..IppTimeout]
        BY Numbers
      <4>2. PICK zero \in [Printers -> 0..IppTimeout] :
               fetch' = [fetch EXCEPT !.listed = world, !.elapsed = zero]
        BY <3>1, <4>1 DEF ListAnswers
      <4>3. fetch \in Call /\ world \in Versions
        BY <1>s, <3>1 DEF ListAnswers
      <4>4. fetch' \in Call /\ fetch'.by = fetch.by
        BY ONLY <4>2, <4>3 DEF Call
      <4>. QED BY <3>1, <4>4 DEF ListAnswers
    <3>2. ASSUME NEW p \in Printers, Loads(p)
          PROVE  /\ fetch # Nothing /\ UNCHANGED <<world, gone, cache, lock, ask, at, seen, answer>>
                 /\ fetch' \in Call /\ fetch'.by = fetch.by
      <4>1. \E v \in Versions \cup {Failed} : fetch' = [fetch EXCEPT !.loaded[p] = v]
        BY <1>s, <3>2 DEF Loads
      <4>. QED BY <1>s, <3>2, <4>1 DEF Loads, Call
    <3>. QED BY <1>5, <3>1, <3>2
  <2>. QED BY <1>k, <1>s, <1>r, <1>f, <2>1
<1>6. CASE Change
  <2>1. world' \in Versions /\ \A v \in Versions : v <= world => v <= world'
    BY <1>s, <1>6, Numbers DEF Change, Versions
  <2>. QED BY <1>k, <1>s, <1>r, <1>f, <1>6, <2>1 DEF Change, Moments
<1>7. CASE Tick
  <2>1. UNCHANGED <<world, lock, ask, at, seen, answer>>
    BY <1>7 DEF Tick
  <2>2. gone' \in [Versions -> 0..Horizon]
    BY <1>s, <1>7, Numbers DEF Tick
  <2>3. cache' # Nothing => cache' \in [value : Snapshot, age : 0..CacheTtl]
    BY <1>s, <1>7, Numbers DEF Tick
  <2>4. fetch' # Nothing => fetch' \in Call /\ fetch'.by = fetch.by /\ fetch # Nothing
    <3>1. fetch # Nothing =>
            /\ fetch' = [fetch EXCEPT !.elapsed =
                            [p \in Printers |-> IF p \in Running THEN @[p] + 1 ELSE @[p]]]
            /\ \A p \in Running : fetch.elapsed[p] < IppTimeout
      BY <1>7 DEF Tick, CallMayLast
    <3>2. fetch # Nothing => \A p \in Printers :
             (IF p \in Running THEN fetch.elapsed[p] + 1 ELSE fetch.elapsed[p]) \in 0..IppTimeout
      BY <1>s, <3>1, Numbers DEF Call
    <3>3. fetch = Nothing => fetch' = Nothing
      BY <1>7 DEF Tick
    <3>. QED BY <1>s, <3>1, <3>2, <3>3 DEF Call
  <2>. QED BY <1>k, <1>s, <1>r, <1>f, <2>1, <2>2, <2>3, <2>4
<1>8. CASE UNCHANGED vars
  BY <1>k, <1>s, <1>r, <1>f, <1>8 DEF vars
<1>. QED BY <1>1, <1>2, <1>3, <1>4, <1>5, <1>6, <1>7, <1>8, Steps

\* The snapshot, the fetch and the clocks keep their types.
THEOREM CatalogueTypeCorrect == Spec => []TypeOK
<1>1. CatalogueShape /\ [Next]_vars => CatalogueShape'
  BY CatalogueStep
<1>2. CatalogueShape => TypeOK
  BY DEF CatalogueShape, Sorts
<1>. QED BY <1>1, <1>2, InitCatalogue, PTL DEF Spec

-----------------------------------------------------------------------------
(* A refresh that found no fetch in flight.                                *)

After(value, v) ==
    \A p \in Printers : \A w \in {value[p].state, value[p].options} \cap Versions : w >= v

FetchAfter(v) ==
    \A p \in Printers : \A w \in {fetch.listed, fetch.loaded[p]} \cap Versions : w >= v

\* Such a refresh emptied the cache while nothing was on its way into it, so what
\* is read for anybody from then on is no older than the refresh.
Renewed(r) ==
    at[r] # "idle" /\ Refresh(r) /\ seen[r].quiet =>
        /\ at[r] \in Pending =>
              /\ cache # Nothing => After(cache.value, seen[r].version)
              /\ fetch # Nothing => FetchAfter(seen[r].version)
        /\ at[r] = "done" /\ answer[r].kind = "listed" =>
              After(answer[r].value, seen[r].version)

LEMMA RenewedStep ==
    ASSUME CatalogueShape, [Next]_vars, NEW r \in Requests, Renewed(r)
    PROVE  Renewed(r)'
<1>s. /\ world \in Versions
      /\ cache # Nothing => cache \in [value : Snapshot, age : 0..CacheTtl]
      /\ fetch # Nothing => fetch \in Call
      /\ at \in [Requests -> {"idle", "done"} \cup Pending]
      /\ ask \in [Requests -> Demands \cup {Nothing}]
      /\ seen \in [Requests -> Moments \cup {Nothing}]
      /\ answer \in [Requests -> Answers \cup {Nothing}]
  BY DEF CatalogueShape, Sorts, TypeOK, Pending
<1>1. ASSUME NEW s \in Requests, NEW d \in Demands, Begin(s, d) PROVE Renewed(r)'
  <2>1. /\ at[s] = "idle" /\ ask' = [ask EXCEPT ![s] = d] /\ at' = [at EXCEPT ![s] = "check"]
        /\ seen' = [seen EXCEPT ![s] = Moment]
        /\ cache' = IF d.kind = "list" /\ d.refresh THEN Nothing ELSE cache
        /\ UNCHANGED <<world, gone, lock, fetch, answer>>
    BY <1>1 DEF Begin
  <2>2. CASE s = r
    <3>1. at'[r] = "check" /\ ask'[r] = d /\ seen'[r] = Moment
      BY <1>s, <2>1, <2>2
    <3>2. seen'[r].quiet => fetch' = Nothing
      <4>1. Moment.quiet <=> fetch = Nothing
        BY Zenon DEF Moment
      <4>2. fetch' = fetch
        BY <2>1
      <4>. QED BY ONLY <3>1, <4>1, <4>2
    <3>3. Refresh(r)' => cache' = Nothing
      BY <2>1, <3>1 DEF Refresh, Lister
    <3>. QED BY <3>1, <3>2, <3>3 DEF Renewed
  <2>3. CASE s # r
    <3>1. at'[r] = at[r] /\ ask'[r] = ask[r] /\ seen'[r] = seen[r] /\ answer'[r] = answer[r]
      BY <1>s, <2>1, <2>3
    <3>. QED BY <2>1, <3>1 DEF Renewed, Refresh, Lister, FetchAfter
  <2>. QED BY <2>2, <2>3
<1>2. ASSUME NEW s \in Requests, NEW value \in Snapshot, Answering(s, value) PROVE Renewed(r)'
  <2>1. /\ at' = [at EXCEPT ![s] = "done"] /\ answer' = [answer EXCEPT ![s] = Response(s, value)]
        /\ at[s] \in Pending /\ UNCHANGED <<ask, seen>>
    BY <1>2 DEF Answering, Reply
  <2>2. ASSUME Renewed(r), at[r] \in Pending, Refresh(r), seen[r].quiet
        PROVE  /\ After(value, seen[r].version)
               /\ cache' # Nothing => After(cache'.value, seen[r].version)
               /\ fetch' # Nothing => fetch' = fetch
    <3>1. CASE Fresh /\ value = cache.value /\ UNCHANGED <<cache, fetch>>
      BY <2>2, <3>1 DEF Fresh, Renewed, Pending
    <3>2. CASE fetch # Nothing /\ value = Fetched /\ cache' = [value |-> Fetched, age |-> 0] /\ fetch' = Nothing
      <4>1. FetchAfter(seen[r].version)
        BY <2>2, <3>2 DEF Renewed, Pending
      <4>2. After(Fetched, seen[r].version)
        BY <4>1, Numbers DEF After, FetchAfter, Fetched
      <4>. QED BY <3>2, <4>2
    <3>. QED BY <1>2, <3>1, <3>2 DEF Answering
  <2>3. CASE s = r
    <3>1. at'[r] = "done" /\ answer'[r].value = value
      BY <1>s, <2>1, <2>3, ResponseType
    <3>. QED BY <2>1, <2>2, <2>3, <3>1 DEF Renewed, Refresh, Lister, Pending, After
  <2>4. CASE s # r
    <3>1. at'[r] = at[r] /\ answer'[r] = answer[r]
      BY <1>s, <2>1, <2>4
    <3>. QED BY <2>1, <2>2, <3>1 DEF Renewed, Refresh, Lister, After, FetchAfter
  <2>. QED BY <2>3, <2>4
<1>3. ASSUME NEW s \in Requests, Dropping(s) PROVE Renewed(r)'
  <2>1. PICK kind \in {"error", "gone"} : Reply(s, [kind |-> kind, value |-> Nothing])
    BY <1>3 DEF Dropping
  <2>2. /\ at' = [at EXCEPT ![s] = "done"] /\ answer' = [answer EXCEPT ![s] = [kind |-> kind, value |-> Nothing]]
        /\ fetch' \in {Nothing, fetch} /\ UNCHANGED <<cache, ask, seen>>
    BY <1>3, <2>1 DEF Dropping, Reply
  <2>3. CASE s = r
    <3>1. at'[r] = "done" /\ answer'[r].kind # "listed"
      BY <1>s, <2>2, <2>3
    <3>. QED BY <3>1 DEF Renewed, Pending
  <2>4. CASE s # r
    <3>1. at'[r] = at[r] /\ answer'[r] = answer[r]
      BY <1>s, <2>2, <2>4
    <3>. QED BY <2>2, <3>1 DEF Renewed, Refresh, Lister, After, FetchAfter
  <2>. QED BY <2>3, <2>4
<1>4. ASSUME NEW s \in Requests, Waiting(s) PROVE Renewed(r)'
  <2>1. /\ at[s] \in Pending /\ UNCHANGED <<cache, ask, seen, answer>>
        /\ \E a \in Pending : at' = [at EXCEPT ![s] = a]
        /\ fetch' \in {fetch, NewFetch(s)}
    BY <1>4 DEF Waiting, Pending
  <2>2. at'[r] = at[r] \/ (at[r] \in Pending /\ at'[r] \in Pending)
    BY <1>s, <2>1
  <2>3. CASE fetch' = fetch
    BY <2>1, <2>2, <2>3 DEF Renewed, Refresh, Lister, After, FetchAfter, Pending
  <2>4. CASE fetch' = NewFetch(s)
    <3>1. FetchAfter(seen[r].version)'
      BY <2>4, Numbers DEF FetchAfter, NewFetch
    <3>. QED BY <2>1, <2>2, <3>1 DEF Renewed, Refresh, Lister, After, Pending
  <2>. QED BY <2>1, <2>3, <2>4
<1>5. ASSUME ListAnswers \/ \E p \in Printers : Loads(p) PROVE Renewed(r)'
  <2>1. UNCHANGED <<cache, ask, seen, at, answer>> /\ fetch # Nothing
    BY <1>5 DEF ListAnswers, Loads
  <2>2. /\ fetch'.listed \in {fetch.listed, world}
        /\ \A p \in Printers : fetch'.loaded[p] \in {fetch.loaded[p], world, Failed}
    <3>1. CASE ListAnswers
      BY <1>s, <2>1, <3>1 DEF ListAnswers, Call
    <3>2. ASSUME NEW p \in Printers, Loads(p)
          PROVE  /\ fetch'.listed = fetch.listed
                 /\ \A q \in Printers : fetch'.loaded[q] \in {fetch.loaded[q], world, Failed}
      BY <1>s, <2>1, <3>2 DEF Loads, Call
    <3>. QED BY <1>5, <3>1, <3>2
  <2>3. at[r] # "idle" => seen[r].version <= world
    BY DEF CatalogueShape
  <2>4. at[r] # "idle" /\ FetchAfter(seen[r].version) => FetchAfter(seen[r].version)'
    BY <1>s, <2>1, <2>2, <2>3, Numbers DEF FetchAfter, CatalogueShape, Moments
  <2>. QED BY <2>1, <2>4 DEF Renewed, Refresh, Lister, After
<1>6. CASE Change
  BY <1>6 DEF Change, Renewed, Refresh, Lister, After, FetchAfter
<1>7. CASE Tick
  <2>1. /\ UNCHANGED <<ask, seen, at, answer>>
        /\ cache = Nothing => cache' = Nothing
        /\ cache # Nothing => cache'.value = cache.value
    BY <1>s, <1>7 DEF Tick
  <2>2. /\ fetch = Nothing => fetch' = Nothing
        /\ fetch # Nothing => fetch'.listed = fetch.listed /\ fetch'.loaded = fetch.loaded
    BY <1>s, <1>7 DEF Tick, Call
  <2>. QED BY <2>1, <2>2 DEF Renewed, Refresh, Lister, After, FetchAfter
<1>8. CASE UNCHANGED vars
  BY <1>8 DEF vars, Renewed, Refresh, Lister, After, FetchAfter
<1>. QED BY <1>1, <1>2, <1>3, <1>4, <1>5, <1>6, <1>7, <1>8, Steps

\* A refresh=true that meets no fetch in flight is answered with nothing older
\* than itself (invalidate_printers, then list_printers, of src/cups/mod.rs).
THEOREM RefreshSeesChangeCorrect == Spec => []RefreshSeesChange
<1>. DEFINE AllRenewed == \A r \in Requests : Renewed(r)
<1>1. Init => AllRenewed
  BY DEF Init, Renewed
<1>2. CatalogueShape /\ AllRenewed /\ [Next]_vars => AllRenewed'
  BY RenewedStep
<1>3. AllRenewed => RefreshSeesChange
  BY DEF Renewed, RefreshSeesChange, After
<1>4. CatalogueShape /\ [Next]_vars => CatalogueShape'
  BY CatalogueStep
<1>. HIDE DEF AllRenewed
<1>. QED BY <1>1, <1>2, <1>3, <1>4, InitCatalogue, PTL DEF Spec

-----------------------------------------------------------------------------
(* How old an answer can be.                                               *)

LEMMA Division ==
    ASSUME NEW n \in Nat, NEW c \in Nat \ {0}
    PROVE  /\ n \div c \in Nat
           /\ c * (n \div c) <= n /\ n < c * (n \div c) + c
OBVIOUS

LEMMA ProductGrows ==
    ASSUME NEW c \in Nat, NEW m \in Nat, NEW n \in Nat, m <= n
    PROVE  c * m <= c * n /\ c * m \in Nat /\ c * (m + 1) = c * m + c
<1>1. PICK k \in Nat : k = n - m
  OBVIOUS
<1>2. c * k >= 0 /\ n = m + k
  BY <1>1
<1>3. c * n = c * m + c * k
  BY <1>2
<1>4. c * m \in Nat /\ c * (m + 1) = c * m + c
  OBVIOUS
<1>. QED BY <1>2, <1>3, <1>4

LEMMA DivisionGrows ==
    ASSUME NEW m \in Nat, NEW n \in Nat, NEW c \in Nat \ {0}, m <= n
    PROVE  m \div c <= n \div c
<1>. DEFINE a == m \div c
            b == n \div c
<1>1. /\ a \in Nat /\ b \in Nat /\ c * a <= m /\ n < c * b + c
  BY Division
<1>. HIDE DEF a, b
<1>2. SUFFICES ASSUME b + 1 <= a PROVE FALSE
  BY <1>1 DEF a, b
<1>3. c * (b + 1) <= c * a /\ c * (b + 1) = c * b + c /\ c * a \in Nat /\ c * b \in Nat
  BY <1>1, <1>2, ProductGrows
<1>. QED BY <1>1, <1>3

LEMMA DivisionNext ==
    ASSUME NEW n \in Nat, NEW c \in Nat \ {0}
    PROVE  (n + c) \div c = (n \div c) + 1
OBVIOUS

LEMMA LessThanWellFounded == IsWellFoundedOn({ss \in Nat \X Nat : ss[1] < ss[2]}, Nat)
BY NatLessThanWellFounded DEF OpToRel

LEMMA Least ==
    ASSUME NEW T \in SUBSET Nat, T # {}
    PROVE  \E n \in T : \A m \in T : n <= m
<1>1. PICK n \in T : \A m \in T : ~(<<m, n>> \in {ss \in Nat \X Nat : ss[1] < ss[2]})
  BY LessThanWellFounded, WFMin
<1>2. \A m \in T : ~(m < n)
  BY <1>1
<1>. QED BY <1>2

\* The turn of a printer among those whose options are read: the round in which
\* it is reached, if every round takes Concurrency of them.
Turn(p) == Position(p) \div Concurrency

LEMMA TurnFacts ==
    ASSUME NEW p \in Listed
    PROVE  /\ Position(p) \in Nat /\ Turn(p) \in Nat /\ Turn(p) + 1 <= Rounds
           /\ IsFiniteSet(Listed)
<1>0. PrinterCount \in Nat \ {0} /\ Concurrency \in Nat \ {0}
  BY CatalogueAssumption
<1>1. IsFiniteSet(1..PrinterCount) /\ Listed \subseteq 1..PrinterCount /\ p \in 1..PrinterCount
  BY <1>0, FS_Interval DEF Listed, Printers
<1>2. IsFiniteSet(Listed)
  BY <1>1, FS_Subset
<1>3. /\ IsFiniteSet(1..(p-1)) /\ Cardinality(1..(p-1)) = p - 1
  <2>1. p - 1 \in Int /\ 1 \in Int /\ p \in Nat /\ p >= 1
    BY <1>1
  <2>2. IsFiniteSet(1..(p-1)) /\ Cardinality(1..(p-1)) = IF 1 > p - 1 THEN 0 ELSE (p - 1) - 1 + 1
    BY <2>1, FS_Interval
  <2>. QED BY <2>1, <2>2
<1>4. {q \in Listed : q < p} \in SUBSET (1..(p-1))
  <2>1. ASSUME NEW q \in Listed, q < p PROVE q \in 1..(p-1)
    <3>1. q \in 1..PrinterCount
      BY <1>1
    <3>. QED BY <1>0, <1>1, <2>1, <3>1
  <2>. QED BY <2>1
<1>5. Position(p) <= p - 1 /\ Position(p) \in Nat
  <2>1. /\ IsFiniteSet({q \in Listed : q < p})
        /\ Cardinality({q \in Listed : q < p}) <= Cardinality(1..(p-1))
    BY <1>3, <1>4, FS_Subset
  <2>2. Cardinality({q \in Listed : q < p}) \in Nat
    BY <2>1, FS_CardinalityType
  <2>. QED BY <1>3, <2>1, <2>2 DEF Position
<1>6. PICK last \in Nat : last = PrinterCount - 1
  BY <1>0
<1>7. Position(p) <= last /\ PrinterCount + Concurrency - 1 = last + Concurrency
  BY <1>0, <1>1, <1>5, <1>6
<1>8. Turn(p) <= last \div Concurrency /\ Turn(p) \in Nat /\ last \div Concurrency \in Nat
  BY <1>0, <1>5, <1>7, DivisionGrows, Division DEF Turn
<1>9. Rounds = (last \div Concurrency) + 1
  BY <1>0, <1>7, DivisionNext DEF Rounds
<1>. QED BY <1>2, <1>5, <1>8, <1>9

LEMMA PlaceType ==
    ASSUME NEW L, L \subseteq Printers, NEW p
    PROVE  Cardinality({q \in L : q < p}) \div Concurrency \in Nat
<1>1. PrinterCount \in Nat \ {0} /\ Concurrency \in Nat \ {0}
  BY CatalogueAssumption
<1>2. IsFiniteSet(1..PrinterCount)
  BY <1>1, FS_Interval
<1>3. Cardinality({q \in L : q < p}) \in Nat
  <2>1. {q \in L : q < p} \in SUBSET (1..PrinterCount)
    BY DEF Printers
  <2>. QED BY <1>2, <2>1, FS_Subset, FS_CardinalityType
<1>. QED BY <1>1, <1>3, Division

\* While options are missing, those of the first printer without are being read,
\* and nobody further on than Concurrency is.
LEMMA FirstMissing ==
    ASSUME NEW p \in Listed, fetch.loaded[p] = Nothing
    PROVE  \E f \in Loading : /\ f \in Listed /\ Position(f) = Yielded
                              /\ p \notin Loading => Turn(f) + 1 <= Turn(p)
<1>0. Concurrency \in Nat \ {0} /\ Printers \subseteq Nat /\ Listed \subseteq Printers
  BY CatalogueAssumption DEF Printers, Listed
<1>1. PICK f \in {q \in Listed : fetch.loaded[q] = Nothing} :
         \A q \in {q \in Listed : fetch.loaded[q] = Nothing} : f <= q
  <2>1. {q \in Listed : fetch.loaded[q] = Nothing} \in SUBSET Nat
    BY <1>0
  <2>. QED BY <2>1, Least
<1>2. {q \in Listed : q < f} = {q \in Listed : \A s \in Listed : s <= q => fetch.loaded[s] # Nothing}
  <2>1. ASSUME NEW q \in Listed, q < f, NEW s \in Listed, s <= q PROVE fetch.loaded[s] # Nothing
    BY <1>0, <1>1, <2>1
  <2>2. ASSUME NEW q \in Listed, \A s \in Listed : s <= q => fetch.loaded[s] # Nothing PROVE q < f
    BY <1>0, <1>1, <2>2
  <2>. QED BY <2>1, <2>2
<1>3. Position(f) = Yielded
  BY <1>2 DEF Position, Yielded
<1>4. Position(f) \in Nat /\ Position(p) \in Nat /\ Turn(f) \in Nat /\ Turn(p) \in Nat
  BY <1>1, TurnFacts
<1>5. f \in Loading
  BY <1>0, <1>1, <1>3, <1>4 DEF Loading
<1>6. ASSUME p \notin Loading PROVE Turn(f) + 1 <= Turn(p)
  <2>1. Position(f) + Concurrency <= Position(p)
    BY <1>0, <1>3, <1>4, <1>6 DEF Loading
  <2>2. Position(f) + Concurrency \in Nat
    BY <1>0, <1>4
  <2>3. (Position(f) + Concurrency) \div Concurrency <= Turn(p)
    BY <1>0, <1>4, <2>1, <2>2, DivisionGrows DEF Turn
  <2>. QED BY <1>0, <1>4, <2>3, DivisionNext DEF Turn
<1>. QED BY <1>1, <1>3, <1>5, <1>6

\* The clocks of the versions: one that is in place has none, and the older of two
\* was replaced first.
Clocks ==
    /\ \A v \in Versions : v >= world => gone[v] = 0
    /\ \A v, w \in Versions : v <= w => gone[w] <= gone[v]

\* What a fetch has read: the list first, then options of the same version or a
\* newer one; those still missing have had their turn no longer than one call.
FetchAged ==
    fetch # Nothing =>
        IF fetch.listed = Nothing THEN \A p \in Printers : fetch.loaded[p] = Nothing
        ELSE /\ fetch.listed <= world
             /\ gone[fetch.listed] <= Longest
             /\ \A p \in Printers :
                   fetch.loaded[p] \in Versions =>
                      fetch.listed <= fetch.loaded[p] /\ fetch.loaded[p] <= world
             /\ \A p \in Listed :
                   fetch.loaded[p] = Nothing =>
                      gone[fetch.listed] <= IppTimeout * Turn(p) + fetch.elapsed[p]

\* What a snapshot holds was replaced at most that long ago.
NoOlder(value, bound) ==
    \A p \in Printers : \A v \in {value[p].state, value[p].options} \cap Versions :
        gone[v] <= bound

CacheAged == cache # Nothing => NoOlder(cache.value, cache.age + Longest)

Aged == Clocks /\ FetchAged /\ CacheAged

\* What was fetched is as old as its list at most.
LEMMA FetchedAged ==
    ASSUME CatalogueShape, Aged, fetch # Nothing, fetch.listed # Nothing
    PROVE  NoOlder(Fetched, Longest)
<1>1. /\ fetch.listed \in Versions /\ \A p \in Printers : fetch.loaded[p] \in Versions \cup {Nothing, Failed}
      /\ gone \in [Versions -> 0..Horizon]
  BY DEF CatalogueShape, Sorts, TypeOK, Call
<1>2. /\ gone[fetch.listed] <= Longest
      /\ \A p \in Printers : fetch.loaded[p] \in Versions => gone[fetch.loaded[p]] <= gone[fetch.listed]
  BY <1>1 DEF Aged, Clocks, FetchAged
<1>3. ASSUME NEW p \in Printers, NEW v \in {Fetched[p].state, Fetched[p].options} \cap Versions
      PROVE  gone[v] <= Longest
  <2>1. v = fetch.listed \/ (v = fetch.loaded[p] /\ fetch.loaded[p] \in Versions)
    BY <1>3, Numbers DEF Fetched
  <2>2. v \in Versions /\ Horizon \in Nat /\ Longest \in Nat
    BY <1>3, Numbers
  <2>3. gone[v] \in 0..Horizon /\ gone[fetch.listed] \in 0..Horizon
    BY <1>1, <2>2
  <2>. QED BY <1>2, <2>1, <2>2, <2>3
<1>. QED BY <1>3 DEF NoOlder

LEMMA AgedInit == Init => Aged
<1>. SUFFICES ASSUME Init PROVE Aged
  OBVIOUS
<1>. QED BY Numbers DEF Init, Aged, Clocks, FetchAged, CacheAged

\* The clock ticks: the printers whose options are being read have waited a tick
\* longer, too.
LEMMA AgedTick ==
    ASSUME CatalogueShape, Aged, Tick
    PROVE  Aged'
<1>s. /\ world \in Versions /\ gone \in [Versions -> 0..Horizon]
      /\ cache # Nothing => cache \in [value : Snapshot, age : 0..CacheTtl]
      /\ fetch # Nothing => fetch \in Call
  BY DEF CatalogueShape, Sorts, TypeOK
<1>1. /\ world' = world
      /\ gone' = [v \in Versions |-> IF v < world /\ gone[v] < Horizon THEN gone[v] + 1 ELSE gone[v]]
      /\ cache' = IF cache = Nothing \/ cache.age = CacheTtl THEN cache ELSE [cache EXCEPT !.age = @ + 1]
      /\ fetch' = IF fetch = Nothing THEN fetch
                  ELSE [fetch EXCEPT !.elapsed =
                           [p \in Printers |-> IF p \in Running THEN @[p] + 1 ELSE @[p]]]
      /\ fetch # Nothing => Running # {}
      /\ \A p \in Running : fetch.elapsed[p] < IppTimeout
  BY DEF Tick, CallMayLast
<1>2. \A v \in Versions : /\ gone[v] \in Nat /\ gone'[v] \in Nat /\ gone'[v] <= Horizon
                          /\ gone[v] <= gone'[v] /\ gone'[v] <= gone[v] + 1
                          /\ v \in Int
  BY <1>s, <1>1, Numbers
<1>3. Clocks'
  <2>1. ASSUME NEW v \in Versions, v >= world PROVE gone'[v] = 0
    <3>1. ~(v < world) /\ gone[v] = 0
      BY <1>s, <2>1, Numbers DEF Aged, Clocks
    <3>. QED BY <1>1, <3>1
  <2>2. ASSUME NEW v \in Versions, NEW w \in Versions, v <= w PROVE gone'[w] <= gone'[v]
    <3>1. gone[w] <= gone[v] /\ v \in Int /\ w \in Int /\ world \in Int /\ Horizon \in Nat
          /\ gone[v] \in 0..Horizon /\ gone[w] \in 0..Horizon
      BY <1>s, <2>2, Numbers DEF Aged, Clocks
    <3>2. w >= world => gone[w] = 0
      BY DEF Aged, Clocks
    <3>. QED BY <1>1, <2>2, <3>1, <3>2
  <2>. QED BY <1>1, <2>1, <2>2 DEF Clocks
<1>4. CacheAged'
  <2>. SUFFICES ASSUME cache' # Nothing
                PROVE  \A p \in Printers : \A v \in {cache'.value[p].state, cache'.value[p].options} \cap Versions :
                          gone'[v] <= cache'.age + Longest
    BY DEF CacheAged, NoOlder
  <2>1. /\ cache # Nothing /\ cache \in [value : Snapshot, age : 0..CacheTtl] /\ cache'.value = cache.value
        /\ cache'.age = IF cache.age = CacheTtl THEN CacheTtl ELSE cache.age + 1
    BY <1>s, <1>1
  <2>2. ASSUME NEW p \in Printers, NEW v \in {cache.value[p].state, cache.value[p].options} \cap Versions
        PROVE  gone'[v] <= cache'.age + Longest
    <3>1. gone[v] <= cache.age + Longest
      BY <2>1 DEF Aged, CacheAged, NoOlder
    <3>2. cache.age \in 0..CacheTtl
      BY <2>1
    <3>3. gone[v] \in Nat /\ gone'[v] \in Nat /\ gone'[v] <= Horizon /\ gone'[v] <= gone[v] + 1
      BY <1>2
    <3>. QED BY <2>1, <3>1, <3>2, <3>3, Numbers DEF Horizon
  <2>. QED BY <2>1, <2>2
<1>5. FetchAged'
  <2>. SUFFICES ASSUME fetch # Nothing, fetch' # Nothing PROVE FetchAged'
    BY <1>1 DEF FetchAged
  <2>1. /\ fetch \in Call /\ fetch'.listed = fetch.listed /\ fetch'.loaded = fetch.loaded
        /\ \A p \in Printers : fetch'.elapsed[p] = IF p \in Running THEN fetch.elapsed[p] + 1
                                                  ELSE fetch.elapsed[p]
    BY <1>s, <1>1 DEF Call
  <2>2. CASE fetch.listed = Nothing
    BY <2>1, <2>2 DEF Aged, FetchAged
  <2>3. CASE fetch.listed # Nothing
    <3>1. /\ fetch.listed \in Versions /\ fetch.listed <= world /\ gone[fetch.listed] <= Longest
          /\ \A p \in Printers : fetch.loaded[p] \in Versions =>
                fetch.listed <= fetch.loaded[p] /\ fetch.loaded[p] <= world
          /\ \A p \in Listed : fetch.loaded[p] = Nothing =>
                gone[fetch.listed] <= IppTimeout * Turn(p) + fetch.elapsed[p]
      BY <2>1, <2>3 DEF Aged, FetchAged, Call
    <3>2. /\ Running = Loading /\ Loading # {} /\ Loading \subseteq Listed /\ Listed \subseteq Printers
          /\ \A p \in Loading : fetch.loaded[p] = Nothing
      BY <1>1, <2>3 DEF Running, Loading, Listed
    <3>3. /\ gone[fetch.listed] \in Nat /\ gone'[fetch.listed] \in Nat
          /\ gone'[fetch.listed] <= gone[fetch.listed] + 1
      BY <1>2, <3>1
    \* Where a call is being waited for, it has not reached its timeout.
    <3>4. ASSUME NEW p \in Loading
          PROVE  /\ gone'[fetch.listed] <= IppTimeout * Turn(p) + fetch'.elapsed[p]
                 /\ gone'[fetch.listed] <= IppTimeout * (Turn(p) + 1)
                 /\ Turn(p) \in Nat /\ Turn(p) + 1 <= Rounds
      <4>1. /\ gone[fetch.listed] <= IppTimeout * Turn(p) + fetch.elapsed[p]
            /\ fetch'.elapsed[p] = fetch.elapsed[p] + 1 /\ fetch.elapsed[p] < IppTimeout
            /\ fetch.elapsed[p] \in 0..IppTimeout /\ p \in Listed
        BY <1>1, <2>1, <3>1, <3>2 DEF Call
      <4>2. Turn(p) \in Nat /\ Turn(p) + 1 <= Rounds
        BY <4>1, TurnFacts
      <4>3. IppTimeout * Turn(p) \in Nat /\ IppTimeout * (Turn(p) + 1) = IppTimeout * Turn(p) + IppTimeout
        BY <4>2, Numbers, ProductGrows
      <4>. QED BY <3>3, <4>1, <4>2, <4>3, Numbers
    <3>5. gone'[fetch.listed] <= Longest
      <4>1. PICK p \in Loading : TRUE
        BY <3>2
      <4>2. IppTimeout * (Turn(p) + 1) <= Longest /\ IppTimeout * (Turn(p) + 1) \in Nat
        BY <3>4, Numbers, ProductGrows DEF Longest
      <4>. QED BY <3>3, <3>4, <4>2, Numbers
    <3>6. ASSUME NEW p \in Listed, fetch.loaded[p] = Nothing
          PROVE  gone'[fetch.listed] <= IppTimeout * Turn(p) + fetch'.elapsed[p]
      <4>1. CASE p \in Loading
        BY <3>4, <4>1
      <4>2. CASE p \notin Loading
        <5>1. PICK f \in Loading : Turn(f) + 1 <= Turn(p)
          BY <3>6, <4>2, FirstMissing
        <5>2. /\ Turn(p) \in Nat /\ Turn(f) \in Nat
              /\ gone'[fetch.listed] <= IppTimeout * (Turn(f) + 1)
          BY <3>4, TurnFacts
        <5>3. /\ IppTimeout * (Turn(f) + 1) <= IppTimeout * Turn(p)
              /\ IppTimeout * (Turn(f) + 1) \in Nat /\ IppTimeout * Turn(p) \in Nat
          BY <5>1, <5>2, Numbers, ProductGrows
        <5>4. fetch'.elapsed[p] \in Nat
          BY <2>1, <3>2, <4>2, Numbers DEF Call
        <5>. QED BY <3>3, <5>2, <5>3, <5>4, Numbers
      <4>. QED BY <4>1, <4>2
    <3>7. Listed' = Listed /\ \A p \in Printers : Turn(p)' = Turn(p)
      BY <2>1 DEF Listed, Turn, Position
    <3>8. \A p \in Listed' : (fetch.loaded[p] = Nothing =>
                gone[fetch.listed] <= IppTimeout * Turn(p) + fetch.elapsed[p])'
      BY <2>1, <3>2, <3>6, <3>7
    <3>. QED BY <1>1, <2>1, <2>3, <3>1, <3>5, <3>8 DEF FetchAged
  <2>. QED BY <2>2, <2>3
<1>. QED BY <1>3, <1>4, <1>5 DEF Aged

\* What a snapshot is made of does not age while the clocks of the versions stand.
LEMMA AgedStep ==
    ASSUME CatalogueShape, Aged, [Next]_vars
    PROVE  Aged'
<1>s. /\ world \in Versions /\ gone \in [Versions -> 0..Horizon]
      /\ cache # Nothing => cache \in [value : Snapshot, age : 0..CacheTtl]
      /\ fetch # Nothing => fetch \in Call
  BY DEF CatalogueShape, Sorts, TypeOK
<1>a. Clocks /\ FetchAged /\ CacheAged
  BY DEF Aged
\* The clocks and the world stand still in most steps.
<1>k. ASSUME UNCHANGED <<world, gone>> PROVE Clocks'
  BY <1>a, <1>k DEF Clocks
<1>f. ASSUME UNCHANGED <<world, gone>>, fetch' \in {fetch, Nothing} PROVE FetchAged'
  <2>1. CASE fetch' = Nothing
    BY <2>1 DEF FetchAged
  <2>2. CASE fetch' = fetch
    BY <1>a, <1>f, <2>2 DEF FetchAged, Listed, Turn, Position
  <2>. QED BY <1>f, <2>1, <2>2
<1>c. ASSUME gone' = gone, cache' \in {cache, Nothing} PROVE CacheAged'
  BY <1>a, <1>c DEF CacheAged, NoOlder
<1>1. ASSUME NEW r \in Requests, NEW d \in Demands, Begin(r, d) PROVE Aged'
  BY <1>k, <1>f, <1>c, <1>1 DEF Begin, Aged
<1>2. ASSUME NEW r \in Requests, NEW value \in Snapshot, Answering(r, value) PROVE Aged'
  <2>1. UNCHANGED <<world, gone>> /\ fetch' \in {fetch, Nothing}
    BY <1>2 DEF Answering
  <2>2. CASE cache' = cache
    BY <1>k, <1>f, <1>c, <2>1, <2>2 DEF Aged
  <2>3. CASE fetch # Nothing /\ fetch.listed # Nothing /\ cache' = [value |-> Fetched, age |-> 0]
    <3>1. NoOlder(Fetched, Longest)
      BY <2>3, FetchedAged
    <3>2. cache'.value = Fetched /\ cache'.age + Longest = Longest
      BY <2>3, Numbers
    <3>3. CacheAged'
      BY <2>1, <3>1, <3>2 DEF CacheAged, NoOlder
    <3>. QED BY <1>k, <1>f, <2>1, <3>3 DEF Aged
  <2>. QED BY <1>2, <2>2, <2>3 DEF Answering
<1>3. ASSUME NEW r \in Requests, Dropping(r) PROVE Aged'
  BY <1>k, <1>f, <1>c, <1>3 DEF Dropping, Aged
<1>4. ASSUME NEW r \in Requests, Waiting(r) PROVE Aged'
  <2>1. UNCHANGED <<world, gone, cache>> /\ (fetch' = fetch \/ fetch' = NewFetch(r))
    BY <1>4 DEF Waiting
  <2>2. CASE fetch' = fetch
    BY <1>k, <1>f, <1>c, <2>1, <2>2 DEF Aged
  <2>3. CASE fetch' = NewFetch(r)
    <3>1. fetch'.listed = Nothing /\ \A p \in Printers : fetch'.loaded[p] = Nothing
      BY <2>3 DEF NewFetch
    <3>2. FetchAged'
      BY <3>1 DEF FetchAged
    <3>. QED BY <1>k, <1>c, <2>1, <3>2 DEF Aged
  <2>. QED BY <2>1, <2>2, <2>3
<1>5. ASSUME ListAnswers PROVE Aged'
  <2>1. /\ UNCHANGED <<world, gone, cache>> /\ fetch # Nothing /\ fetch.listed = Nothing
        /\ fetch' = [fetch EXCEPT !.listed = world, !.elapsed = [p \in Printers |-> 0]]
    BY <1>5 DEF ListAnswers
  <2>2. /\ fetch'.listed = world /\ fetch'.loaded = fetch.loaded
        /\ \A p \in Printers : fetch'.elapsed[p] = 0
    BY <1>s, <2>1 DEF Call
  <2>3. \A p \in Printers : fetch.loaded[p] = Nothing
    BY <1>a, <2>1 DEF FetchAged
  <2>4. gone[world] = 0 /\ world \in Int
    BY <1>s, <1>a, Numbers DEF Clocks
  <2>5. ASSUME NEW p \in Listed' PROVE 0 <= IppTimeout * (Turn(p)') + fetch'.elapsed[p]
    <3>1. p \in Printers /\ fetch'.elapsed[p] = 0
      BY <2>2 DEF Listed
    <3>2. Turn(p)' \in Nat
      BY PlaceType, Numbers DEF Turn, Position, Listed
    <3>. QED BY <3>1, <3>2, Numbers, ProductGrows
  <2>6. FetchAged'
    BY <2>1, <2>2, <2>3, <2>4, <2>5, Numbers DEF FetchAged
  <2>. QED BY <1>k, <1>c, <2>1, <2>6 DEF Aged
<1>6. ASSUME NEW p \in Printers, Loads(p) PROVE Aged'
  <2>1. /\ UNCHANGED <<world, gone, cache>> /\ fetch # Nothing /\ fetch.listed # Nothing
        /\ fetch' = [fetch EXCEPT !.loaded[p] = Failed] \/ fetch' = [fetch EXCEPT !.loaded[p] = world]
    BY <1>6 DEF Loads
  <2>2. /\ fetch \in Call /\ fetch'.listed = fetch.listed /\ fetch'.elapsed = fetch.elapsed
        /\ \A q \in Printers : fetch'.loaded[q] = fetch.loaded[q] \/ (q = p /\ fetch'.loaded[q] \in {Failed, world})
    BY <1>s, <2>1 DEF Call
  <2>3. /\ fetch.listed <= world /\ gone[fetch.listed] <= Longest
        /\ \A q \in Printers : fetch.loaded[q] \in Versions =>
              fetch.listed <= fetch.loaded[q] /\ fetch.loaded[q] <= world
        /\ \A q \in Listed : fetch.loaded[q] = Nothing =>
              gone[fetch.listed] <= IppTimeout * Turn(q) + fetch.elapsed[q]
    BY <1>a, <2>1 DEF FetchAged
  <2>4. ASSUME NEW q \in Printers, fetch'.loaded[q] \in Versions
        PROVE  fetch.listed <= fetch'.loaded[q] /\ fetch'.loaded[q] <= world
    BY <1>s, <2>2, <2>3, <2>4, Numbers
  <2>5. Listed' = Listed /\ \A q \in Printers : Turn(q)' = Turn(q)
    BY <2>2 DEF Listed, Turn, Position
  <2>6. \A q \in Listed : fetch'.loaded[q] = Nothing => fetch.loaded[q] = Nothing
    BY <1>s, <2>2, Numbers DEF Listed
  <2>7. \A q \in Listed' : (fetch.loaded[q] = Nothing =>
              gone[fetch.listed] <= IppTimeout * Turn(q) + fetch.elapsed[q])'
    BY <2>1, <2>2, <2>3, <2>5, <2>6 DEF Listed
  <2>8. FetchAged'
    BY <2>1, <2>2, <2>3, <2>4, <2>7 DEF FetchAged
  <2>. QED BY <1>k, <1>c, <2>1, <2>8 DEF Aged
<1>7. CASE Change
  <2>1. /\ world' = world + 1 /\ UNCHANGED <<gone, cache, fetch>> /\ world \in Int
    BY <1>s, <1>7, Numbers DEF Change
  <2>2. Clocks'
    BY <1>a, <2>1, Numbers DEF Clocks
  <2>3. FetchAged'
    <3>1. Listed' = Listed /\ \A q \in Printers : Turn(q)' = Turn(q)
      BY <2>1 DEF Listed, Turn, Position
    <3>2. ASSUME NEW v \in Versions, v <= world PROVE v <= world + 1
      BY <2>1, <3>2, Numbers
    <3>. QED BY <1>s, <1>a, <2>1, <3>1, <3>2 DEF FetchAged, Call, Listed
  <2>. QED BY <1>c, <2>1, <2>2, <2>3 DEF Aged
<1>8. CASE Tick
  BY <1>8, AgedTick
<1>9. CASE UNCHANGED vars
  BY <1>k, <1>f, <1>c, <1>9 DEF vars, Aged
<1>. QED BY <1>1, <1>2, <1>3, <1>4, <1>5, <1>6, <1>7, <1>8, <1>9, Steps

\* Whoever is answered is answered with the snapshot it read or fetched.
LEMMA AnswerIsRecent ==
    ASSUME CatalogueShape, Aged, [Next]_vars, NEW r \in Requests,
           answer[r] = Nothing, answer'[r] # Nothing, answer'[r].value # Nothing
    PROVE  NoOlder(answer'[r].value, CacheTtl - 1 + Longest)
<1>s. /\ world \in Versions /\ gone \in [Versions -> 0..Horizon]
      /\ cache # Nothing => cache \in [value : Snapshot, age : 0..CacheTtl]
      /\ answer \in [Requests -> Answers \cup {Nothing}]
  BY DEF CatalogueShape, Sorts, TypeOK
<1>1. ASSUME NEW s \in Requests, NEW value \in Snapshot, Answering(s, value)
      PROVE  NoOlder(answer'[r].value, CacheTtl - 1 + Longest)
  <2>1. answer' = [answer EXCEPT ![s] = Response(s, value)]
    BY <1>1 DEF Answering, Reply
  <2>2. s = r /\ answer'[r].value = value
    BY <1>s, <2>1, ResponseType
  <2>3. CASE Fresh /\ value = cache.value
    <3>1. cache.age \in 0..CacheTtl /\ cache.age < CacheTtl /\ NoOlder(value, cache.age + Longest)
      BY <1>s, <2>3 DEF Fresh, Aged, CacheAged
    <3>2. ASSUME NEW p \in Printers, NEW v \in {value[p].state, value[p].options} \cap Versions
          PROVE  gone[v] <= CacheTtl - 1 + Longest
      <4>1. gone[v] <= cache.age + Longest /\ gone[v] \in 0..Horizon
        BY <1>s, <3>1 DEF NoOlder
      <4>. QED BY <3>1, <4>1, Numbers
    <3>. QED BY <2>2, <3>2 DEF NoOlder
  <2>4. CASE fetch # Nothing /\ fetch.listed # Nothing /\ value = Fetched
    <3>1. NoOlder(value, Longest)
      BY <2>4, FetchedAged
    <3>2. ASSUME NEW p \in Printers, NEW v \in {value[p].state, value[p].options} \cap Versions
          PROVE  gone[v] <= CacheTtl - 1 + Longest
      <4>1. gone[v] <= Longest /\ gone[v] \in 0..Horizon
        BY <1>s, <3>1 DEF NoOlder
      <4>. QED BY <4>1, Numbers
    <3>. QED BY <2>2, <3>2 DEF NoOlder
  <2>. QED BY <1>1, <2>3, <2>4 DEF Answering
<1>2. ASSUME NEW s \in Requests, Dropping(s) PROVE FALSE
  <2>1. PICK kind \in {"error", "gone"} : answer' = [answer EXCEPT ![s] = [kind |-> kind, value |-> Nothing]]
    BY <1>2 DEF Dropping, Reply
  <2>. QED BY <1>s, <2>1
<1>3. ASSUME answer' = answer PROVE FALSE
  BY <1>3
<1>4. CASE \E s \in Requests : Waiting(s) \/ \E d \in Demands : Begin(s, d)
  BY <1>3, <1>4 DEF Waiting, Begin
<1>5. CASE ListAnswers \/ (\E p \in Printers : Loads(p)) \/ Change \/ Tick \/ UNCHANGED vars
  BY <1>3, <1>5 DEF ListAnswers, Loads, Change, Tick, vars
<1>. QED BY <1>1, <1>2, <1>4, <1>5, Steps

\* What a request is answered with was true no longer ago than the cache lives plus
\* the time its options took to read (list_printers and fetch_printers of
\* src/cups/mod.rs, whose calls all carry the IPP timeout).
THEOREM AnswersAreRecentCorrect == Spec => AnswersAreRecent
<1>1. CatalogueShape /\ Aged /\ [Next]_vars =>
        [\A r \in Requests :
            answer[r] = Nothing /\ answer'[r] # Nothing /\ answer'[r].value # Nothing =>
                \A p \in Printers :
                    LET e == answer'[r].value[p] IN
                    \A v \in {e.state, e.options} \cap Versions :
                        gone[v] <= CacheTtl - 1 + Longest]_vars
  BY AnswerIsRecent DEF NoOlder
<1>2. CatalogueShape /\ [Next]_vars => CatalogueShape'
  BY CatalogueStep
<1>3. CatalogueShape /\ Aged /\ [Next]_vars => Aged'
  BY AgedStep
<1>. QED BY <1>1, <1>2, <1>3, InitCatalogue, AgedInit, PTL DEF Spec, AnswersAreRecent

-----------------------------------------------------------------------------
(* What is submitted.                                                      *)

\* The options a snapshot holds are those of a printer that was there.
Known(value) ==
    \A p \in Printers : value[p].options \in Versions => Exists(p, value[p].options)

\* Options are only ever read of a printer that exists, and what was submitted was
\* printable with the snapshot it was submitted with.
Readable ==
    /\ fetch # Nothing =>
          \A p \in Printers : fetch.loaded[p] \in Versions => Exists(p, fetch.loaded[p])
    /\ cache # Nothing => Known(cache.value)
    /\ \A r \in Requests : answer[r] # Nothing =>
          /\ at[r] = "done"
          /\ answer[r].kind = "submitted" =>
                /\ ask[r].kind # "list" /\ answer[r].value \in Snapshot /\ Known(answer[r].value)
                /\ Printable(ask[r].printer, answer[r].value[ask[r].printer], ask[r].wants)

LEMMA ReadableInit == Init => Readable
BY DEF Init, Readable

LEMMA ReadableStep ==
    ASSUME CatalogueShape, Readable, [Next]_vars
    PROVE  Readable'
<1>s. /\ world \in Versions
      /\ cache # Nothing => cache \in [value : Snapshot, age : 0..CacheTtl]
      /\ fetch # Nothing => fetch \in Call
      /\ at \in [Requests -> {"idle", "done"} \cup Pending]
      /\ ask \in [Requests -> Demands \cup {Nothing}]
      /\ answer \in [Requests -> Answers \cup {Nothing}]
  BY DEF CatalogueShape, Sorts, TypeOK, Pending
<1>a. /\ fetch # Nothing =>
            \A p \in Printers : fetch.loaded[p] \in Versions => Exists(p, fetch.loaded[p])
      /\ cache # Nothing => Known(cache.value)
      /\ \A r \in Requests : answer[r] # Nothing =>
            /\ at[r] = "done"
            /\ answer[r].kind = "submitted" =>
                  /\ ask[r].kind # "list" /\ answer[r].value \in Snapshot /\ Known(answer[r].value)
                  /\ Printable(ask[r].printer, answer[r].value[ask[r].printer], ask[r].wants)
  BY DEF Readable
\* It is enough to look at what is new.
<1>k. ASSUME fetch' # Nothing =>
                \A p \in Printers : fetch'.loaded[p] \in Versions => Exists(p, fetch'.loaded[p]),
             cache' # Nothing => Known(cache'.value),
             \A r \in Requests : \/ answer'[r] = Nothing
                                 \/ answer'[r] = answer[r] /\ ask'[r] = ask[r] /\ at'[r] = at[r]
                                 \/ at'[r] = "done" /\ answer'[r].kind # "submitted"
                                 \/ /\ at'[r] = "done" /\ ask'[r].kind # "list"
                                    /\ answer'[r].value \in Snapshot /\ Known(answer'[r].value)
                                    /\ Printable(ask'[r].printer, answer'[r].value[ask'[r].printer],
                                                 ask'[r].wants)
      PROVE  Readable'
  BY <1>a, <1>k DEF Readable
<1>f. fetch' \in {fetch, Nothing} => (fetch' # Nothing =>
          \A p \in Printers : fetch'.loaded[p] \in Versions => Exists(p, fetch'.loaded[p]))
  BY <1>a
<1>1. ASSUME NEW r \in Requests, NEW d \in Demands, Begin(r, d) PROVE Readable'
  <2>1. /\ at[r] = "idle" /\ ask' = [ask EXCEPT ![r] = d] /\ at' = [at EXCEPT ![r] = "check"]
        /\ cache' \in {cache, Nothing} /\ fetch' = fetch /\ answer' = answer
    BY <1>1 DEF Begin
  <2>2. answer[r] = Nothing
    BY <1>a, <2>1
  <2>. QED BY <1>k, <1>s, <1>a, <1>f, <2>1, <2>2
<1>2. ASSUME NEW r \in Requests, NEW value \in Snapshot, Answering(r, value) PROVE Readable'
  <2>1. /\ at' = [at EXCEPT ![r] = "done"] /\ answer' = [answer EXCEPT ![r] = Response(r, value)]
        /\ ask' = ask /\ fetch' \in {fetch, Nothing}
    BY <1>2 DEF Answering, Reply
  <2>2. Known(value) /\ (cache' # Nothing => Known(cache'.value))
    <3>1. CASE Fresh /\ value = cache.value /\ cache' = cache
      BY <1>a, <3>1 DEF Fresh
    <3>2. CASE fetch # Nothing /\ value = Fetched /\ cache' = [value |-> Fetched, age |-> 0]
      <4>1. Known(Fetched)
        BY <1>a, <3>2, Numbers DEF Known, Fetched
      <4>. QED BY <3>2, <4>1
    <3>. QED BY <1>2, <3>1, <3>2 DEF Answering
  <2>3. /\ at'[r] = "done" /\ answer'[r].value \in Snapshot /\ Known(answer'[r].value)
        /\ answer'[r].kind = "submitted" =>
              /\ ask[r].kind # "list"
              /\ Printable(ask[r].printer, answer'[r].value[ask[r].printer], ask[r].wants)
    BY <1>s, <2>1, <2>2, ResponseType DEF Lister
  <2>4. \A s \in Requests \ {r} : answer'[s] = answer[s] /\ at'[s] = at[s]
    BY <1>s, <2>1
  <2>. QED BY <1>k, <1>f, <2>1, <2>2, <2>3, <2>4
<1>3. ASSUME NEW r \in Requests, Dropping(r) PROVE Readable'
  <2>1. PICK kind \in {"error", "gone"} : Reply(r, [kind |-> kind, value |-> Nothing])
    BY <1>3 DEF Dropping
  <2>2. /\ at' = [at EXCEPT ![r] = "done"] /\ answer' = [answer EXCEPT ![r] = [kind |-> kind, value |-> Nothing]]
        /\ fetch' \in {fetch, Nothing} /\ UNCHANGED <<cache, ask>>
    BY <1>3, <2>1 DEF Dropping, Reply
  <2>3. at'[r] = "done" /\ answer'[r].kind # "submitted"
    BY <1>s, <2>2
  <2>4. \A s \in Requests \ {r} : answer'[s] = answer[s] /\ at'[s] = at[s]
    BY <1>s, <2>2
  <2>. QED BY <1>k, <1>a, <1>f, <2>2, <2>3, <2>4
<1>4. ASSUME NEW r \in Requests, Waiting(r) PROVE Readable'
  <2>1. /\ at[r] \in Pending /\ UNCHANGED <<cache, ask, answer>>
        /\ fetch' = fetch \/ fetch' = NewFetch(r)
        /\ \A s \in Requests \ {r} : at'[s] = at[s]
    BY <1>s, <1>4 DEF Waiting
  <2>2. answer[r] = Nothing
    BY <1>a, <2>1 DEF Pending
  <2>3. fetch' # Nothing =>
          \A p \in Printers : fetch'.loaded[p] \in Versions => Exists(p, fetch'.loaded[p])
    BY <1>a, <2>1, Numbers DEF NewFetch
  <2>. QED BY <1>k, <1>a, <2>1, <2>2, <2>3
<1>5. CASE ListAnswers
  <2>1. fetch # Nothing /\ fetch'.loaded = fetch.loaded /\ UNCHANGED <<cache, ask, at, answer>>
    BY <1>s, <1>5 DEF ListAnswers, Call
  <2>. QED BY <1>k, <1>a, <2>1
<1>6. ASSUME NEW p \in Printers, Loads(p) PROVE Readable'
  <2>1. /\ fetch # Nothing /\ UNCHANGED <<cache, ask, at, answer>>
        /\ \/ fetch' = [fetch EXCEPT !.loaded[p] = Failed]
           \/ Exists(p, world) /\ fetch' = [fetch EXCEPT !.loaded[p] = world]
    BY <1>6 DEF Loads
  <2>2. \A q \in Printers : fetch'.loaded[q] \in Versions => Exists(q, fetch'.loaded[q])
    BY <1>s, <1>a, <2>1, Numbers DEF Call
  <2>. QED BY <1>k, <1>a, <2>1, <2>2
<1>7. CASE Change
  BY <1>k, <1>a, <1>7 DEF Change
<1>8. CASE Tick
  <2>1. /\ UNCHANGED <<ask, at, answer>>
        /\ fetch' # Nothing => fetch # Nothing /\ fetch'.loaded = fetch.loaded
        /\ cache' # Nothing => cache # Nothing /\ cache'.value = cache.value
    BY <1>s, <1>8 DEF Tick, Call
  <2>. QED BY <1>k, <1>a, <2>1
<1>9. CASE UNCHANGED vars
  BY <1>k, <1>a, <1>9 DEF vars
<1>. QED BY <1>1, <1>2, <1>3, <1>4, <1>5, <1>6, <1>7, <1>8, <1>9, Steps

\* A print that was submitted sends values the printer reported, and no option at
\* all if its options could not be read.
LEMMA SubmittedIsReported ==
    ASSUME NEW words, WellReported(words),
           NEW p \in Printers, NEW e, e.options \in Versions => Exists(p, e.options),
           NEW wants, wants = [o \in DOMAIN wants |-> wants[o]],
           \A o \in DOMAIN wants : IsText(wants[o]),
           Acceptable(OffersOf(p, e), wants)
    PROVE  /\ e.options \notin Versions => wants = <<>>
           /\ \A sent \in Encodings(OffersOf(p, e), wants) :
                 \A o \in DOMAIN wants :
                    Supports(Report[p][e.options].options[o].supported, sent[o])
<1>1. ASSUME NEW o \in DOMAIN wants
      PROVE  /\ o \in Options /\ e.options \in Versions
             /\ o \in DOMAIN Report[p][e.options].options
             /\ OffersOf(p, e)[o] = Spec1(o, Report[p][e.options].options[o].supported,
                                             Report[p][e.options].options[o].default)
  <2>1. o \in DOMAIN OffersOf(p, e) /\ Encoded(o, OffersOf(p, e)[o], wants[o]) # {}
    BY DEF Acceptable
  <2>2. Encoded(o, NoSpec, wants[o]) = {}
    BY DEF Encoded, NoSpec
  <2>3. e.options \in Versions
    <3>. SUFFICES ASSUME e.options \notin Versions PROVE FALSE
      OBVIOUS
    <3>1. OffersOf(p, e) = Catalogue(<<>>)
      BY DEF OffersOf
    <3>2. o \notin DOMAIN <<>>
      OBVIOUS
    <3>. QED BY <2>1, <2>2, <3>1, <3>2 DEF Catalogue
  <2>4. OffersOf(p, e) = Catalogue(Report[p][e.options].options)
    BY <2>3 DEF OffersOf
  <2>. QED BY <2>1, <2>2, <2>3, <2>4 DEF Catalogue
<1>2. ASSUME e.options \notin Versions PROVE wants = <<>>
  <2>1. DOMAIN wants = {}
    BY <1>1, <1>2
  <2>2. wants = [o \in {} |-> wants[o]]
    BY <2>1
  <2>. QED BY <2>1, <2>2
<1>3. ASSUME NEW sent \in Encodings(OffersOf(p, e), wants), NEW o \in DOMAIN wants
      PROVE  Supports(Report[p][e.options].options[o].supported, sent[o])
  <2>1. sent[o] \in Encoded(o, OffersOf(p, e)[o], wants[o])
    BY DEF Encodings
  <2>2. PICK supported : supported = Report[p][e.options].options[o].supported
    OBVIOUS
  <2>3. PICK default : default = Report[p][e.options].options[o].default
    OBVIOUS
  <2>4. /\ IsAttribute(supported, words)
        /\ \A s \in Tagged(supported.values, "range") : s.min <= s.max
    BY <1>1, <2>2 DEF WellReported
  <2>5. sent[o] \in Encoded(o, Spec1(o, supported, default), wants[o])
    BY <1>1, <2>1, <2>2, <2>3
  <2>6. Supports(supported, sent[o])
    BY <1>1, <2>4, <2>5, EncodedIsSupported
  <2>. QED BY <2>2, <2>6
<1>. QED BY <1>2, <1>3

\* Whatever a print submits, the printer reported that it supports it (submit_inner
\* of src/cups/mod.rs with encode_job_attributes of src/cups/options.rs).
THEOREM SubmitsWhatWasReportedCorrect ==
    ASSUME NEW words, WellReported(words), WellAsked
    PROVE  Spec => []SubmitsWhatWasReported
<1>1. CatalogueShape /\ Readable => SubmitsWhatWasReported
  <2>. SUFFICES ASSUME CatalogueShape, Readable, NEW r \in Requests,
                       answer[r] # Nothing, answer[r].kind = "submitted"
                PROVE  LET p == ask[r].printer
                           e == answer[r].value[p]
                           wants == ask[r].wants
                       IN  /\ e.options \notin Versions => wants = <<>>
                           /\ \A sent \in Encodings(OffersOf(p, e), wants) :
                                 \A o \in DOMAIN wants :
                                    Supports(Report[p][e.options].options[o].supported, sent[o])
    BY DEF SubmitsWhatWasReported
  <2>1. /\ at[r] = "done" /\ ask[r].kind # "list" /\ Known(answer[r].value)
        /\ Printable(ask[r].printer, answer[r].value[ask[r].printer], ask[r].wants)
    BY DEF Readable
  <2>2. ask[r] \in Demands
    BY <2>1 DEF CatalogueShape
  <2>3. PICK p \in Printers : p = ask[r].printer
    BY <2>1, <2>2 DEF WellAsked
  <2>4. PICK wants : wants = ask[r].wants
    OBVIOUS
  <2>5. wants = [o \in DOMAIN wants |-> wants[o]] /\ \A o \in DOMAIN wants : IsText(wants[o])
    BY <2>1, <2>2, <2>4 DEF WellAsked
  <2>6. PICK e : e = answer[r].value[p]
    OBVIOUS
  <2>7. (e.options \in Versions => Exists(p, e.options)) /\ Acceptable(OffersOf(p, e), wants)
    BY <2>1, <2>3, <2>4, <2>6 DEF Known, Printable
  <2>8. /\ e.options \notin Versions => wants = <<>>
        /\ \A sent \in Encodings(OffersOf(p, e), wants) :
              \A o \in DOMAIN wants :
                 Supports(Report[p][e.options].options[o].supported, sent[o])
    BY <2>5, <2>7, SubmittedIsReported
  <2>. QED BY <2>3, <2>4, <2>6, <2>8
<1>2. CatalogueShape /\ [Next]_vars => CatalogueShape'
  BY CatalogueStep
<1>3. CatalogueShape /\ Readable /\ [Next]_vars => Readable'
  BY ReadableStep
<1>. QED BY <1>1, <1>2, <1>3, InitCatalogue, ReadableInit, PTL DEF Spec

-----------------------------------------------------------------------------
(* The snapshot implements RecentReads.                                    *)

\* The abstract state a state of PrinterCatalogue stands for.
Marks == {seen[r].version : r \in {q \in Requests : CutOff(q)}}
Given == [r \in Requests |-> IF answer[r] = Nothing THEN {} ELSE {answer[r].value} \ {Nothing}]

LEMMA ReadsVars == Reads!vars = <<world, gone, Marks, Given>>
  BY DEF Reads!vars, Marks, Given

\* What can be read, in version w, if the list was given in version v.
IsView(value, v, w) ==
    \E options \in [Printers -> {Failed} \cup v..w] :
        /\ \A p \in Printers : options[p] # Failed => Exists(p, options[p])
        /\ value = [p \in Printers |->
                      IF Exists(p, v) THEN [state |-> v, options |-> options[p]]
                      ELSE [state |-> Nothing, options |-> Nothing]]

LEMMA ViewIsView ==
    ASSUME NEW v \in Versions, NEW value, IsView(value, v, world), world \in Versions
    PROVE  value \in Reads!Views(v)
<1>. DEFINE Present == [w \in Versions |-> {p \in Printers : Exists(p, w)}]
<1>1. PICK options \in [Printers -> {Failed} \cup v..world] :
         /\ \A p \in Printers : options[p] # Failed => Exists(p, options[p])
         /\ value = [p \in Printers |->
                       IF Exists(p, v) THEN [state |-> v, options |-> options[p]]
                       ELSE [state |-> Nothing, options |-> Nothing]]
  BY DEF IsView
<1>2. v..world \subseteq Versions
  BY CatalogueAssumption DEF Versions
<1>3. ASSUME NEW p \in Printers, options[p] # Failed PROVE p \in Present[options[p]]
  BY <1>1, <1>2, <1>3
<1>4. \A p \in Printers : p \in Present[v] <=> Exists(p, v)
  OBVIOUS
<1>5. value = [p \in Printers |->
                 IF p \in Present[v] THEN [state |-> v, options |-> options[p]]
                 ELSE [state |-> Nothing, options |-> Nothing]]
  BY <1>1, <1>4
<1>. QED BY <1>1, <1>3, <1>5 DEF Reads!Views

\* Its dates lie between the two.
LEMMA ViewDates ==
    ASSUME NEW v \in Versions, NEW w \in Versions, v <= w, NEW value, IsView(value, v, w),
           NEW d \in Reads!Dates(value) \cap Versions
    PROVE  v <= d /\ d <= w
<1>1. PICK options \in [Printers -> {Failed} \cup v..w] :
         value = [p \in Printers |->
                    IF Exists(p, v) THEN [state |-> v, options |-> options[p]]
                    ELSE [state |-> Nothing, options |-> Nothing]]
  BY DEF IsView
<1>2. PICK p \in Printers : d \in {value[p].state, value[p].options}
  BY DEF Reads!Dates
<1>3. d \in {v, options[p], Nothing} /\ options[p] \in {Failed} \cup v..w
  BY <1>1, <1>2
<1>. QED BY <1>3, Numbers

LEMMA ViewLasts ==
    ASSUME NEW v \in Versions, NEW w \in Versions, NEW value, IsView(value, v, w)
    PROVE  IsView(value, v, w + 1)
<1>1. v..w \subseteq v..(w + 1)
  BY Numbers
<1>. QED BY <1>1 DEF IsView

Until(value, v) == \A w \in Reads!Dates(value) \cap Versions : w <= v

\* One list, from after every mark, replaced at most that long ago, and no older
\* than what anybody was given.
Newest(value, bound, now, ages, marks, given) ==
    /\ \E v \in Versions :
          /\ v <= now /\ IsView(value, v, now)
          /\ ages[v] <= bound
          /\ \A m \in marks : m <= v
    /\ \A r \in Requests : \A e \in given[r] : Reads!Follows(value, e)

\* What anybody was given is of the past; what is on its way is of the time since,
\* and since the last refresh that cut off the past, and nobody is given anything
\* meanwhile; the snapshot is one list, as recent as its age says, from after such a
\* refresh, and no older than what anybody was given.
Viewed ==
    /\ \A r \in Requests : \A e \in Given[r] : Until(e, world)
    /\ \A m \in Marks : m \in Versions /\ m <= world
    /\ fetch # Nothing =>
          /\ ~Fresh
          /\ fetch.listed # Nothing =>
                /\ \A m \in Marks : m <= fetch.listed
                /\ \A r \in Requests : \A e \in Given[r] : Until(e, fetch.listed)
    /\ cache # Nothing => Newest(cache.value, cache.age + Longest, world, gone, Marks, Given)

LEMMA ViewedInit == Init => Viewed /\ Reads!Init
<1>. SUFFICES ASSUME Init PROVE Viewed /\ Reads!Init
  OBVIOUS
<1>1. Given = [r \in Requests |-> {}] /\ Marks = {}
  BY DEF Init, Given, Marks, CutOff
<1>2. Reads!Init
  BY <1>1 DEF Init, Reads!Init, Given, Marks
<1>. QED BY <1>1, <1>2 DEF Init, Viewed

\* What has been fetched is one list, as recent as its calls were short.
LEMMA FetchedView ==
    ASSUME CatalogueShape, Aged, Readable, Viewed, fetch # Nothing, fetch.listed # Nothing,
           \A p \in Listed : fetch.loaded[p] # Nothing
    PROVE  /\ fetch.listed \in Versions /\ fetch.listed <= world
           /\ IsView(Fetched, fetch.listed, world)
           /\ gone[fetch.listed] <= Longest
           /\ \A m \in Marks : m <= fetch.listed
           /\ \A r \in Requests : \A e \in Given[r] :
                 Until(e, fetch.listed) /\ Reads!Follows(Fetched, e)
<1>1. /\ fetch.listed \in Versions /\ world \in Versions
      /\ \A p \in Printers : fetch.loaded[p] \in Versions \cup {Nothing, Failed}
  BY DEF CatalogueShape, Sorts, TypeOK, Call
<1>2. /\ fetch.listed <= world /\ gone[fetch.listed] <= Longest
      /\ \A p \in Printers : fetch.loaded[p] \in Versions =>
            fetch.listed <= fetch.loaded[p] /\ fetch.loaded[p] <= world
  BY <1>1 DEF Aged, FetchAged
<1>3. IsView(Fetched, fetch.listed, world)
  <2>. DEFINE options == [p \in Printers |-> IF fetch.loaded[p] \in Versions THEN fetch.loaded[p]
                                            ELSE Failed]
  <2>1. \A p \in Printers : fetch.loaded[p] \in Versions => fetch.loaded[p] \in fetch.listed..world
    BY <1>1, <1>2, Numbers
  <2>2. options \in [Printers -> {Failed} \cup fetch.listed..world]
    BY <2>1
  <2>3. \A p \in Printers : options[p] # Failed => Exists(p, options[p])
    BY DEF Readable
  <2>4. Fetched = [p \in Printers |->
                     IF Exists(p, fetch.listed) THEN [state |-> fetch.listed, options |-> options[p]]
                     ELSE [state |-> Nothing, options |-> Nothing]]
    <3>1. ASSUME NEW p \in Printers, Exists(p, fetch.listed) PROVE options[p] = fetch.loaded[p]
      BY <1>1, <3>1 DEF Listed
    <3>2. \A p \in Printers : p \in Listed <=> Exists(p, fetch.listed)
      BY DEF Listed
    <3>. QED BY <3>1, <3>2 DEF Fetched
  <2>. HIDE DEF options
  <2>. QED BY <2>2, <2>3, <2>4 DEF IsView
<1>4. /\ \A m \in Marks : m <= fetch.listed
      /\ \A r \in Requests : \A e \in Given[r] : Until(e, fetch.listed)
  BY DEF Viewed
<1>5. ASSUME NEW r \in Requests, NEW e \in Given[r] PROVE Reads!Follows(Fetched, e)
  <2>1. ASSUME NEW v \in Reads!Dates(Fetched) \cap Versions, NEW w \in Reads!Dates(e) \cap Versions
        PROVE  w <= v
    <3>1. fetch.listed <= v
      BY <1>1, <1>2, <1>3, <2>1, ViewDates
    <3>2. w <= fetch.listed
      BY <1>4, <2>1 DEF Until
    <3>3. v \in Int /\ w \in Int /\ fetch.listed \in Int
      <4>1. v \in Versions /\ w \in Versions /\ Versions \subseteq Int
        BY <2>1, Numbers
      <4>. QED BY <1>1, <4>1
    <3>. QED BY ONLY <3>1, <3>2, <3>3
  <2>. QED BY <2>1 DEF Reads!Follows
<1>. QED BY <1>1, <1>2, <1>3, <1>4, <1>5

LEMMA MarksStay ==
    ASSUME UNCHANGED <<ask, seen>>, \A r \in Requests : at'[r] = "idle" <=> at[r] = "idle"
    PROVE  Marks' = Marks
<1>1. \A q \in Requests : CutOff(q)' <=> CutOff(q)
  BY DEF CutOff, Refresh, Lister
<1>. QED BY <1>1 DEF Marks

\* An answer is one more reading, or none; nobody else's changes.
LEMMA AnswerGives ==
    ASSUME CatalogueShape, Readable, NEW r \in Requests, NEW a, at[r] \in Pending, Reply(r, a),
           UNCHANGED <<ask, seen>>
    PROVE  /\ Given[r] = {} /\ Marks' = Marks
           /\ Given' = Given \/ Given' = [Given EXCEPT ![r] = {a.value}]
           /\ a.value = Nothing => Given' = Given
<1>1. /\ at \in [Requests -> {"idle", "done"} \cup Pending]
      /\ answer \in [Requests -> Answers \cup {Nothing}]
  BY DEF CatalogueShape, Sorts, TypeOK, Pending
<1>2. answer[r] = Nothing
  BY DEF Readable, Pending
<1>3. answer' = [answer EXCEPT ![r] = a] /\ at' = [at EXCEPT ![r] = "done"]
  BY DEF Reply
<1>4. Given[r] = {}
  BY <1>2 DEF Given
<1>5. answer'[r] = a /\ \A q \in Requests : q # r => answer'[q] = answer[q]
  BY <1>1, <1>3
<1>6. CASE a = Nothing \/ a.value = Nothing
  <2>1. \A q \in Requests : Given'[q] = Given[q]
    BY <1>4, <1>5, <1>6 DEF Given
  <2>2. Given' = Given
    BY <2>1 DEF Given
  <2>. QED BY <1>1, <1>3, <1>4, <2>2, MarksStay DEF Pending
<1>7. CASE a # Nothing /\ a.value # Nothing
  <2>1. Given' = [q \in Requests |-> IF q = r THEN {a.value} ELSE Given[q]]
    BY <1>5, <1>7 DEF Given
  <2>2. Given' = [Given EXCEPT ![r] = {a.value}]
    BY <2>1 DEF Given
  <2>. QED BY <1>1, <1>3, <1>4, <1>7, <2>2, MarksStay DEF Pending
<1>. QED BY <1>6, <1>7

\* Beginning marks the moment, if it empties the cache and nothing is on its way.
LEMMA BeginMarks ==
    ASSUME CatalogueShape, NEW r \in Requests, NEW d \in Demands, Begin(r, d)
    PROVE  \/ Marks' = Marks
           \/ Marks' = Marks \cup {world} /\ cache' = Nothing /\ fetch = Nothing
<1>1. /\ at[r] = "idle" /\ ask' = [ask EXCEPT ![r] = d] /\ at' = [at EXCEPT ![r] = "check"]
      /\ seen' = [seen EXCEPT ![r] = Moment]
      /\ cache' = IF d.kind = "list" /\ d.refresh THEN Nothing ELSE cache
      /\ ask \in [Requests -> Demands \cup {Nothing}]
      /\ seen \in [Requests -> Moments \cup {Nothing}]
      /\ at \in [Requests -> {"idle", "done"} \cup Pending]
  BY DEF Begin, CatalogueShape, Sorts, TypeOK, Pending
<1>2. /\ at'[r] = "check" /\ ask'[r] = d /\ seen'[r] = Moment /\ ~CutOff(r)
      /\ \A q \in Requests : q # r => /\ at'[q] = at[q] /\ ask'[q] = ask[q] /\ seen'[q] = seen[q]
  BY <1>1 DEF CutOff
<1>3. \A q \in Requests : q # r => (CutOff(q)' <=> CutOff(q)) /\ seen'[q] = seen[q]
  BY <1>2 DEF CutOff, Refresh, Lister
<1>4. CASE CutOff(r)'
  <2>1. cache' = Nothing
    BY <1>1, <1>2, <1>4 DEF CutOff, Refresh, Lister
  <2>2. seen'[r].version = world /\ (seen'[r].quiet <=> fetch = Nothing)
    <3>1. Moment.version = world /\ (Moment.quiet <=> fetch = Nothing)
      BY Zenon DEF Moment
    <3>. QED BY ONLY <1>2, <3>1
  <2>3. fetch = Nothing
    BY <1>4, <2>2 DEF CutOff
  <2>4. {q \in Requests : CutOff(q)}' = {q \in Requests : CutOff(q)} \cup {r}
    BY <1>3, <1>4
  <2>5. Marks' = Marks \cup {world}
    BY <1>2, <1>3, <2>2, <2>4 DEF Marks
  <2>. QED BY <2>1, <2>3, <2>5
<1>5. CASE ~CutOff(r)'
  <2>1. {q \in Requests : CutOff(q)}' = {q \in Requests : CutOff(q)}
    BY <1>2, <1>3, <1>5
  <2>2. Marks' = Marks
    BY <1>2, <1>3, <2>1 DEF Marks
  <2>. QED BY <2>2
<1>. QED BY <1>4, <1>5

\* The clock ticks: a snapshot ages no slower than the versions in it.
LEMMA ViewedTick ==
    ASSUME CatalogueShape, Aged, Viewed, Tick
    PROVE  Viewed'
<1>s. /\ world \in Versions /\ gone \in [Versions -> 0..Horizon]
      /\ cache # Nothing => cache \in [value : Snapshot, age : 0..CacheTtl]
      /\ fetch # Nothing => fetch \in Call
  BY DEF CatalogueShape, Sorts, TypeOK
<1>1. /\ world' = world /\ UNCHANGED <<ask, at, seen, answer>>
      /\ gone' = [v \in Versions |-> IF v < world /\ gone[v] < Horizon THEN gone[v] + 1 ELSE gone[v]]
      /\ cache' = IF cache = Nothing \/ cache.age = CacheTtl THEN cache ELSE [cache EXCEPT !.age = @ + 1]
      /\ fetch = Nothing => fetch' = Nothing
      /\ fetch # Nothing => fetch'.listed = fetch.listed
  BY <1>s DEF Tick, Call
<1>2. Marks' = Marks /\ Given' = Given
  BY <1>1, MarksStay DEF Given
<1>3. cache' # Nothing =>
         /\ cache # Nothing /\ cache'.value = cache.value
         /\ cache.age \in 0..CacheTtl
         /\ cache'.age = IF cache.age = CacheTtl THEN CacheTtl ELSE cache.age + 1
  BY <1>s, <1>1
<1>4. Fresh' => Fresh
  BY <1>3, Numbers DEF Fresh
<1>5. ASSUME cache' # Nothing, NEW v \in Versions, gone[v] <= cache.age + Longest
      PROVE  gone'[v] <= cache'.age + Longest
  <2>1. gone[v] \in 0..Horizon /\ gone'[v] <= gone[v] + 1 /\ gone'[v] <= Horizon /\ gone'[v] \in Int
    BY <1>s, <1>1, Numbers
  <2>. QED BY <1>3, <1>5, <2>1, Numbers DEF Horizon
<1>6. cache' # Nothing => Newest(cache'.value, cache'.age + Longest, world, gone', Marks, Given)
  BY <1>3, <1>5 DEF Viewed, Newest
<1>7. /\ \A r \in Requests : \A e \in Given[r] : Until(e, world)
      /\ \A m \in Marks : m \in Versions /\ m <= world
      /\ fetch # Nothing =>
          /\ ~Fresh
          /\ fetch.listed # Nothing =>
                /\ \A m \in Marks : m <= fetch.listed
                /\ \A r \in Requests : \A e \in Given[r] : Until(e, fetch.listed)
  BY DEF Viewed
<1>. QED
  <2>1. (\A r \in Requests : \A e \in Given[r] : Until(e, world))'
    BY <1>1, <1>2, <1>7
  <2>2. (\A m \in Marks : m \in Versions /\ m <= world)'
    BY <1>1, <1>2, <1>7
  <2>3. (fetch # Nothing =>
          /\ ~Fresh
          /\ fetch.listed # Nothing =>
                /\ \A m \in Marks : m <= fetch.listed
                /\ \A r \in Requests : \A e \in Given[r] : Until(e, fetch.listed))'
    BY <1>1, <1>2, <1>4, <1>7
  <2>4. (cache # Nothing => Newest(cache.value, cache.age + Longest, world, gone, Marks, Given))'
    BY <1>1, <1>2, <1>6
  <2>. QED BY <2>1, <2>2, <2>3, <2>4 DEF Viewed

\* A reading is recent, of after every mark, and follows all that came before.
ReadsNow(r, value) ==
    /\ Given[r] = {} /\ (Given' = Given \/ Given' = [Given EXCEPT ![r] = {value}])
    /\ Marks' = Marks /\ UNCHANGED <<world, gone>>
    /\ \E v \in Versions :
          /\ v <= world /\ IsView(value, v, world)
          /\ gone[v] <= CacheTtl - 1 + Longest
          /\ \A m \in Marks : m <= v
    /\ \A q \in Requests : \A e \in Given[q] : Reads!Follows(value, e)

LEMMA AnswersRead ==
    ASSUME CatalogueShape, Aged, Readable, Viewed,
           NEW r \in Requests, NEW value \in Snapshot, Answering(r, value)
    PROVE  ReadsNow(r, value)
<1>s. /\ world \in Versions /\ gone \in [Versions -> 0..Horizon]
      /\ cache # Nothing => cache \in [value : Snapshot, age : 0..CacheTtl]
  BY DEF CatalogueShape, Sorts, TypeOK
<1>1. /\ Given[r] = {} /\ (Given' = Given \/ Given' = [Given EXCEPT ![r] = {value}])
      /\ Marks' = Marks /\ UNCHANGED <<world, gone>>
  <2>1. at[r] \in Pending /\ Reply(r, Response(r, value)) /\ UNCHANGED <<world, gone, ask, seen>>
    BY DEF Answering
  <2>2. Response(r, value).value = value
    BY ResponseType
  <2>. QED BY <2>1, <2>2, AnswerGives
<1>2. ASSUME NEW v \in Versions, NEW n \in 0..(CacheTtl - 1), gone[v] <= n + Longest
      PROVE  gone[v] <= CacheTtl - 1 + Longest
  BY <1>s, <1>2, Numbers
<1>3. CASE Fresh /\ value = cache.value
  <2>1. cache # Nothing /\ cache.age \in 0..(CacheTtl - 1)
    BY <1>s, <1>3, Numbers DEF Fresh
  <2>2. PICK v \in Versions :
           /\ v <= world /\ IsView(cache.value, v, world)
           /\ gone[v] <= cache.age + Longest
           /\ \A m \in Marks : m <= v
    BY <2>1 DEF Viewed, Newest
  <2>3. gone[v] <= CacheTtl - 1 + Longest
    BY <1>2, <2>1, <2>2
  <2>4. \A q \in Requests : \A e \in Given[q] : Reads!Follows(cache.value, e)
    BY <2>1 DEF Viewed, Newest
  <2>. QED BY <1>1, <1>3, <2>2, <2>3, <2>4 DEF ReadsNow
<1>4. CASE /\ fetch # Nothing /\ fetch.listed # Nothing
           /\ \A p \in Listed : fetch.loaded[p] # Nothing
           /\ value = Fetched
  <2>1. /\ fetch.listed \in Versions /\ fetch.listed <= world
        /\ IsView(Fetched, fetch.listed, world)
        /\ gone[fetch.listed] <= Longest
        /\ \A m \in Marks : m <= fetch.listed
        /\ \A q \in Requests : \A e \in Given[q] : Reads!Follows(Fetched, e)
    BY <1>4, FetchedView
  <2>2. gone[fetch.listed] <= 0 + Longest /\ 0 \in 0..(CacheTtl - 1)
    BY <2>1, Numbers
  <2>3. gone[fetch.listed] <= CacheTtl - 1 + Longest
    BY <1>2, <2>1, <2>2
  <2>. QED BY <1>1, <1>4, <2>1, <2>3 DEF ReadsNow
<1>. QED BY <1>3, <1>4 DEF Answering

\* Giving up gives nothing.
LEMMA DroppedReadsNothing ==
    ASSUME CatalogueShape, Readable, NEW r \in Requests, Dropping(r)
    PROVE  Given' = Given /\ Marks' = Marks
<1>1. PICK kind \in {"error", "gone"} : Reply(r, [kind |-> kind, value |-> Nothing])
  BY DEF Dropping
<1>2. at[r] \in Pending /\ UNCHANGED <<ask, seen>>
  BY DEF Dropping
<1>. QED BY <1>1, <1>2, AnswerGives

\* Viewed is kept where nobody is given anything and the past stays what it was.
LEMMA ViewedStays ==
    ASSUME Viewed, Given' = Given, Marks' = Marks, UNCHANGED <<world, gone>>,
           cache' \in {cache, Nothing},
           fetch' # Nothing => fetch' = fetch \/ (~Fresh /\ fetch'.listed = Nothing)
    PROVE  Viewed'
<1>1. Fresh' => Fresh
  BY DEF Fresh
<1>2. (\A r \in Requests : \A e \in Given[r] : Until(e, world))'
  BY DEF Viewed
<1>3. (\A m \in Marks : m \in Versions /\ m <= world)'
  BY DEF Viewed
<1>4. (fetch # Nothing =>
        /\ ~Fresh
        /\ fetch.listed # Nothing =>
              /\ \A m \in Marks : m <= fetch.listed
              /\ \A r \in Requests : \A e \in Given[r] : Until(e, fetch.listed))'
  BY <1>1 DEF Viewed
<1>5. (cache # Nothing => Newest(cache.value, cache.age + Longest, world, gone, Marks, Given))'
  BY DEF Viewed
<1>. QED BY <1>2, <1>3, <1>4, <1>5 DEF Viewed

\* Somebody is given what the cache holds, or what it will hold from now on.
LEMMA ViewedAnswering ==
    ASSUME CatalogueShape, Aged, Readable, Viewed,
           NEW r \in Requests, NEW value \in Snapshot, Answering(r, value)
    PROVE  Viewed'
<1>s. world \in Versions
  BY DEF CatalogueShape, Sorts, TypeOK
<1>1. ReadsNow(r, value)
  BY AnswersRead
<1>2. /\ Marks' = Marks /\ UNCHANGED <<world, gone>> /\ Given[r] = {}
      /\ Given' = Given \/ Given' = [Given EXCEPT ![r] = {value}]
  BY <1>1 DEF ReadsNow
<1>3. \A q \in Requests : Given'[q] \subseteq Given[q] \cup {value}
  BY <1>2 DEF Given
<1>4. Until(value, world)
  BY <1>s, <1>1, ViewDates DEF ReadsNow, Until
<1>5. \A q \in Requests : \A e \in Given'[q] : Until(e, world) /\ Reads!Follows(value, e)
  BY <1>1, <1>3, <1>4 DEF Viewed, ReadsNow, Reads!Follows
<1>6. (\A q \in Requests : \A e \in Given[q] : Until(e, world))'
  BY <1>2, <1>5
<1>7. (\A m \in Marks : m \in Versions /\ m <= world)'
  BY <1>2 DEF Viewed
<1>8. fetch' = Nothing
  BY DEF Answering, Viewed
<1>9. cache' # Nothing =>
         /\ cache'.value = value
         /\ \E v \in Versions :
               /\ v <= world /\ IsView(value, v, world)
               /\ gone[v] <= cache'.age + Longest
               /\ \A m \in Marks : m <= v
  <2>1. CASE Fresh /\ value = cache.value /\ cache' = cache
    BY <2>1 DEF Viewed, Newest
  <2>2. CASE /\ fetch # Nothing /\ fetch.listed # Nothing
             /\ \A p \in Listed : fetch.loaded[p] # Nothing
             /\ value = Fetched
             /\ cache' = [value |-> Fetched, age |-> 0]
    <3>1. cache'.value = value /\ cache'.age + Longest = Longest
      BY <2>2, Numbers
    <3>. QED BY <2>2, <3>1, FetchedView
  <2>. QED BY <2>1, <2>2 DEF Answering
<1>10. (cache # Nothing => Newest(cache.value, cache.age + Longest, world, gone, Marks, Given))'
  BY <1>2, <1>5, <1>9 DEF Newest
<1>. QED BY <1>6, <1>7, <1>8, <1>10 DEF Viewed

\* The list arrives: it is of now, and so follows all that was given.
LEMMA ViewedLoading ==
    ASSUME CatalogueShape, Aged, Viewed, ListAnswers \/ \E p \in Printers : Loads(p)
    PROVE  Viewed'
<1>s. world \in Versions /\ (fetch # Nothing => fetch \in Call)
  BY DEF CatalogueShape, Sorts, TypeOK
<1>1. /\ UNCHANGED <<world, gone, cache, ask, at, seen, answer>> /\ fetch # Nothing
      /\ fetch'.listed \in {fetch.listed, world}
      /\ fetch'.listed = fetch.listed => fetch.listed # Nothing \/ fetch'.listed = world
  BY <1>s DEF ListAnswers, Loads, Call
<1>2. Given' = Given /\ Marks' = Marks
  BY <1>1, MarksStay DEF Given
<1>3. (fetch # Nothing =>
        /\ ~Fresh
        /\ fetch.listed # Nothing =>
              /\ \A m \in Marks : m <= fetch.listed
              /\ \A r \in Requests : \A e \in Given[r] : Until(e, fetch.listed))'
  BY <1>1, <1>2 DEF Viewed, Fresh
<1>4. (cache # Nothing => Newest(cache.value, cache.age + Longest, world, gone, Marks, Given))'
  BY <1>1, <1>2 DEF Viewed
<1>5. (\A r \in Requests : \A e \in Given[r] : Until(e, world))'
  BY <1>1, <1>2 DEF Viewed
<1>6. (\A m \in Marks : m \in Versions /\ m <= world)'
  BY <1>1, <1>2 DEF Viewed
<1>. QED BY <1>3, <1>4, <1>5, <1>6 DEF Viewed

\* The printers change: what was of the past still is.
LEMMA ViewedChange ==
    ASSUME CatalogueShape, Viewed, Change
    PROVE  Viewed'
<1>s. world \in Versions /\ Versions \subseteq Int
  BY Numbers DEF CatalogueShape, Sorts, TypeOK
<1>1. world' = world + 1 /\ UNCHANGED <<gone, cache, fetch, ask, at, seen, answer>>
  BY DEF Change
<1>2. Given' = Given /\ Marks' = Marks
  BY <1>1, MarksStay DEF Given
<1>3. \A v \in Versions : v <= world => v <= world + 1
  BY <1>s
<1>4. \A e : Until(e, world) => Until(e, world + 1)
  BY <1>3 DEF Until
<1>5. (\A r \in Requests : \A e \in Given[r] : Until(e, world))'
  BY <1>1, <1>2, <1>4 DEF Viewed
<1>6. (\A m \in Marks : m \in Versions /\ m <= world)'
  BY <1>1, <1>2, <1>3 DEF Viewed
<1>7. (fetch # Nothing =>
        /\ ~Fresh
        /\ fetch.listed # Nothing =>
              /\ \A m \in Marks : m <= fetch.listed
              /\ \A r \in Requests : \A e \in Given[r] : Until(e, fetch.listed))'
  BY <1>1, <1>2 DEF Viewed, Fresh
<1>8. (cache # Nothing => Newest(cache.value, cache.age + Longest, world, gone, Marks, Given))'
  <2>1. ASSUME cache # Nothing
        PROVE  \E v \in Versions :
              /\ v <= world + 1 /\ IsView(cache.value, v, world + 1)
              /\ gone[v] <= cache.age + Longest
              /\ \A m \in Marks : m <= v
    BY <1>s, <1>3, <2>1, ViewLasts DEF Viewed, Newest
  <2>2. cache # Nothing => \A r \in Requests : \A e \in Given[r] : Reads!Follows(cache.value, e)
    BY DEF Viewed, Newest
  <2>. QED BY <1>1, <1>2, <2>1, <2>2 DEF Newest
<1>. QED BY <1>5, <1>6, <1>7, <1>8 DEF Viewed

LEMMA ViewedStep ==
    ASSUME CatalogueShape, Aged, Readable, Viewed, [Next]_vars
    PROVE  Viewed'
<1>s. at \in [Requests -> {"idle", "done"} \cup Pending]
  BY DEF CatalogueShape, Sorts, TypeOK, Pending
<1>1. ASSUME NEW r \in Requests, NEW d \in Demands, Begin(r, d) PROVE Viewed'
  <2>1. /\ cache' \in {cache, Nothing} /\ UNCHANGED <<world, gone, fetch, answer>>
        /\ Given' = Given
    BY <1>1 DEF Begin, Given
  <2>2. CASE Marks' = Marks
    BY <2>1, <2>2, ViewedStays
  <2>3. CASE Marks' = Marks \cup {world} /\ cache' = Nothing /\ fetch = Nothing
    <3>1. (\A q \in Requests : \A e \in Given[q] : Until(e, world))'
      BY <2>1 DEF Viewed
    <3>2. (\A m \in Marks : m \in Versions /\ m <= world)'
      <4>1. world \in Versions /\ world <= world
        BY Numbers DEF CatalogueShape, Sorts, TypeOK
      <4>. QED BY <2>1, <2>3, <4>1 DEF Viewed
    <3>. QED BY <2>1, <2>3, <3>1, <3>2 DEF Viewed
  <2>. QED BY <1>1, <2>2, <2>3, BeginMarks
<1>2. ASSUME NEW r \in Requests, NEW value \in Snapshot, Answering(r, value) PROVE Viewed'
  BY <1>2, ViewedAnswering
<1>3. ASSUME NEW r \in Requests, Dropping(r) PROVE Viewed'
  BY <1>3, DroppedReadsNothing, ViewedStays DEF Dropping
<1>4. ASSUME NEW r \in Requests, Waiting(r) PROVE Viewed'
  <2>1. /\ UNCHANGED <<world, gone, cache, ask, seen, answer>> /\ at[r] # "idle"
        /\ \E a \in Pending : at' = [at EXCEPT ![r] = a]
        /\ fetch' = fetch \/ (fetch' = NewFetch(r) /\ ~Fresh)
    BY <1>4 DEF Waiting, Pending
  <2>2. \A q \in Requests : at'[q] = "idle" <=> at[q] = "idle"
    BY <1>s, <2>1 DEF Pending
  <2>3. Marks' = Marks /\ Given' = Given
    BY <2>1, <2>2, MarksStay DEF Given
  <2>4. fetch' # Nothing => fetch' = fetch \/ (~Fresh /\ fetch'.listed = Nothing)
    BY <2>1 DEF NewFetch
  <2>. QED BY <2>1, <2>3, <2>4, ViewedStays
<1>5. CASE UNCHANGED vars
  <2>1. Marks' = Marks /\ Given' = Given
    BY <1>5, MarksStay DEF Given, vars
  <2>. QED BY <1>5, <2>1, ViewedStays DEF vars
<1>. QED BY <1>1, <1>2, <1>3, <1>4, <1>5, ViewedLoading, ViewedChange, ViewedTick, Steps

\* Every step is one of RecentReads or changes nothing it speaks of.
LEMMA ReadsStep ==
    ASSUME CatalogueShape, Aged, Readable, Viewed, [Next]_vars
    PROVE  [Reads!Next]_(Reads!vars)
<1>s. world \in Versions /\ gone \in [Versions -> 0..Horizon]
      /\ at \in [Requests -> {"idle", "done"} \cup Pending]
  BY DEF CatalogueShape, Sorts, TypeOK, Pending
<1>. DEFINE Stutters == UNCHANGED <<world, gone, Marks, Given>>
<1>v. Stutters => UNCHANGED Reads!vars
  BY ReadsVars DEF Reads!vars, Marks, Given
<1>. SUFFICES Reads!Next \/ Stutters
  BY <1>v
<1>1. ASSUME NEW r \in Requests, NEW d \in Demands, Begin(r, d) PROVE Reads!Next \/ Stutters
  <2>1. UNCHANGED <<world, gone>> /\ Given' = Given
    BY <1>1 DEF Begin, Given
  <2>2. CASE Marks' = Marks
    BY <2>1, <2>2
  <2>3. CASE Marks' = Marks \cup {world}
    <3>1. Reads!Mark
      BY <2>1, <2>3 DEF Reads!Mark, Marks, Given
    <3>. QED BY <3>1 DEF Reads!Next
  <2>. QED BY <1>1, <2>2, <2>3, BeginMarks
<1>2. ASSUME NEW r \in Requests, NEW value \in Snapshot, Answering(r, value)
      PROVE  Reads!Next \/ Stutters
  <2>1. ReadsNow(r, value)
    BY <1>2, AnswersRead
  <2>2. CASE Given' = Given
    BY <2>1, <2>2 DEF ReadsNow
  <2>3. CASE Given' = [Given EXCEPT ![r] = {value}]
    <3>1. PICK v \in Versions :
             /\ v <= world /\ IsView(value, v, world)
             /\ gone[v] <= CacheTtl - 1 + Longest
             /\ \A m \in Marks : m <= v
      BY <2>1 DEF ReadsNow
    <3>2. value \in Reads!Views(v)
      BY <1>s, <3>1, ViewIsView
    <3>3. /\ Given[r] = {} /\ Marks' = Marks /\ UNCHANGED <<world, gone>>
          /\ \A q \in Requests : \A e \in Given[q] : Reads!Follows(value, e)
      BY <2>1 DEF ReadsNow
    <3>4. Reads!Read(r)
      BY <2>3, <3>1, <3>2, <3>3 DEF Reads!Read, Marks, Given
    <3>. QED BY <3>4 DEF Reads!Next
  <2>. QED BY <2>1, <2>2, <2>3 DEF ReadsNow
<1>3. ASSUME NEW r \in Requests, Dropping(r) PROVE Stutters
  BY <1>3, DroppedReadsNothing DEF Dropping
<1>4. ASSUME NEW r \in Requests, Waiting(r) PROVE Stutters
  <2>1. /\ UNCHANGED <<world, gone, ask, seen, answer>> /\ at[r] # "idle"
        /\ \E a \in Pending : at' = [at EXCEPT ![r] = a]
    BY <1>4 DEF Waiting, Pending
  <2>2. \A q \in Requests : at'[q] = "idle" <=> at[q] = "idle"
    BY <1>s, <2>1 DEF Pending
  <2>. QED BY <2>1, <2>2, MarksStay DEF Given
<1>5. ASSUME UNCHANGED <<ask, at, seen, answer>> PROVE Marks' = Marks /\ Given' = Given
  BY <1>5, MarksStay DEF Given
<1>6. CASE ListAnswers \/ (\E p \in Printers : Loads(p)) \/ UNCHANGED vars
  BY <1>5, <1>6 DEF ListAnswers, Loads, vars
<1>7. CASE Change
  <2>1. world + 1 \in Versions /\ world' = world + 1 /\ gone' = gone
    BY <1>s, <1>7, CatalogueAssumption DEF Change, Versions
  <2>2. Marks' = Marks /\ Given' = Given
    BY <1>5, <1>7 DEF Change
  <2>3. Reads!Change
    BY <2>1, <2>2 DEF Reads!Change, Marks, Given
  <2>. QED BY <2>3 DEF Reads!Next
<1>8. CASE Tick
  <2>1. /\ world' = world
        /\ gone' = [v \in Versions |-> IF v < world /\ gone[v] < Horizon THEN gone[v] + 1 ELSE gone[v]]
    BY <1>8 DEF Tick
  <2>2. Marks' = Marks /\ Given' = Given
    BY <1>5, <1>8 DEF Tick
  <2>3. \A v \in Versions : gone[v] < Horizon <=> gone[v] <= CacheTtl - 1 + Longest
    BY <1>s, Numbers DEF Horizon
  <2>4. gone' = [v \in Versions |->
                   IF v < world /\ gone[v] <= CacheTtl - 1 + Longest THEN gone[v] + 1 ELSE gone[v]]
    BY <2>1, <2>3
  <2>5. Reads!Tick
    BY <2>1, <2>2, <2>4 DEF Reads!Tick, Marks, Given
  <2>. QED BY <2>5 DEF Reads!Next
<1>. QED BY <1>1, <1>2, <1>3, <1>4, <1>6, <1>7, <1>8, Steps

\* Whoever reads the printers, through the cache or not, is given one list as CUPS
\* gave it, recent, from after every refresh that met no fetch, and no older than
\* what anybody was given before: the snapshot of src/cups/mod.rs, for any readers.
THEOREM ImplementsRecentReadsCorrect == Spec => ImplementsRecentReads
<1>. DEFINE Inv == CatalogueShape /\ Aged /\ Readable /\ Viewed
<1>1. Init => Inv /\ Reads!Init
  BY InitCatalogue, AgedInit, ReadableInit, ViewedInit
<1>2. Inv /\ [Next]_vars => Inv'
  BY CatalogueStep, AgedStep, ReadableStep, ViewedStep
<1>3. Inv /\ [Next]_vars => [Reads!Next]_(Reads!vars)
  BY ReadsStep
<1>. HIDE DEF Inv
<1>. QED BY <1>1, <1>2, <1>3, PTL DEF Spec, ImplementsRecentReads, Reads!Spec
=============================================================================
