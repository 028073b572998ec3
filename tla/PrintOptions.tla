---------------------------- MODULE PrintOptions ----------------------------
(***************************************************************************)
(* src/cups/options.rs: from the *-supported and *-default attributes of a *)
(* printer to the catalogue of options offered to clients (parse_options), *)
(* and from a client's choice back to an IPP attribute                     *)
(* (encode_job_attributes).                                                *)
(*                                                                         *)
(* An IPP value is a record of its tag and content.  An attribute is one   *)
(* value or an array; the first value of an array is kept apart, because a *)
(* default is the first value of its attribute.  Text is either a word, a  *)
(* number, in its canonical spelling or another ("+4", "04"), or the label *)
(* of a resolution: what the comparisons and parses of the code tell apart.*)
(***************************************************************************)
EXTENDS Integers, FiniteSets

CONSTANTS NoValue   \* Option::None

-----------------------------------------------------------------------------
Word(w)      == [form |-> "word", word |-> w]
Number(n)    == [form |-> "number", number |-> n, canonical |-> TRUE]
OddNumber(n) == [form |-> "number", number |-> n, canonical |-> FALSE]
Label(x, y, unit) == [form |-> "label", cross |-> x, feed |-> y, unit |-> unit]

String(w)     == [tag |-> "string", word |-> w]    \* keyword, name, mime, uri, text
Enum(n)       == [tag |-> "enum", number |-> n]
Whole(n)        == [tag |-> "integer", number |-> n]
Span(lo, hi)  == [tag |-> "range", min |-> lo, max |-> hi]
Dots(x, y, u) == [tag |-> "resolution", cross |-> x, feed |-> y, units |-> u]

One(v)      == [array |-> FALSE, first |-> v, values |-> {v}]
Array(v, S) == [array |-> TRUE, first |-> v, values |-> {v} \cup S]
Missing     == [array |-> TRUE, first |-> NoValue, values |-> {}]

(* What CUPS answers with: the values of the attributes the catalogue       *)
(* reads, from any set of words.                                           *)
Values(Words) ==
    [tag : {"string"}, word : Words] \cup [tag : {"enum", "integer"}, number : Int]
    \cup [tag : {"range"}, min : Int, max : Int]
    \cup [tag : {"resolution"}, cross : Int, feed : Int, units : Int]

IsAttribute(attr, Words) ==
    /\ attr.values \subseteq Values(Words)
    /\ attr.values # {} => attr.first \in attr.values
    /\ ~attr.array => attr.values = {attr.first}

IsText(text) == text.form = "number" => text.number \in Int

-----------------------------------------------------------------------------
(* The options that are offered, and how each is read.                     *)
KeywordOptions == {"media", "sides", "print-color-mode", "media-type", "output-bin"}
EnumOptions    == {"print-quality", "orientation-requested", "finishings"}
IntegerOptions == {"copies", "number-up"}
Options == KeywordOptions \cup EnumOptions \cup IntegerOptions \cup {"printer-resolution"}

EnumNames ==
    [o \in EnumOptions |->
        CASE o = "print-quality" -> [n \in 3..5 |-> <<"draft", "normal", "high">>[n - 2]]
          [] o = "orientation-requested" ->
               [n \in 3..6 |-> <<"portrait", "landscape", "reverse-landscape",
                                 "reverse-portrait">>[n - 2]]
          [] o = "finishings" ->
               [n \in 3..9 |-> <<"none", "staple", "punch", "cover", "bind",
                                 "saddle-stitch", "edge-stitch">>[n - 2]]]

(* enum_name: a number without a standard name stands for itself.          *)
EnumName(o, n) ==
    IF n \in DOMAIN EnumNames[o] THEN Word(EnumNames[o][n]) ELSE Number(n)

(* resolution_label: units 3 and 4, anything else has no suffix.           *)
Unit(u) == IF u = 3 THEN "dpi" ELSE IF u = 4 THEN "dpcm" ELSE ""
ResolutionLabel(v) == Label(v.cross, v.feed, Unit(v.units))

-----------------------------------------------------------------------------
(* value_strings, value_enums, value_resolutions, value_int_choices.  Of a *)
(* range inside an array only the two ends are kept.                       *)
Tagged(S, t) == {v \in S : v.tag = t}

IntChoices(S) ==
    {v.number : v \in Tagged(S, "integer") \cup Tagged(S, "enum")}
    \cup UNION {{v.min, v.max} : v \in Tagged(S, "range")}

FirstInt(v) == IF v.tag = "range" THEN v.min ELSE v.number

FirstTagged(attr, tags) == attr.first # NoValue /\ attr.first.tag \in tags

NoSpec == [kind |-> "none"]

KeywordSpec(supported, default) ==
    LET words == {v.word : v \in Tagged(supported.values, "string")} IN
    IF words = {} THEN NoSpec
    ELSE [kind |-> "keyword", words |-> words,
          default |-> IF /\ FirstTagged(default, {"string"})
                         /\ default.first.word \in words
                      THEN Word(default.first.word) ELSE NoValue]

EnumSpec(o, supported, default) ==
    LET numbers == {v.number : v \in Tagged(supported.values, "enum")} IN
    IF numbers = {} THEN NoSpec
    ELSE [kind |-> "enum", numbers |-> numbers,
          default |-> IF FirstTagged(default, {"enum"})
                      THEN EnumName(o, default.first.number) ELSE NoValue]

ResolutionSpec(supported, default) ==
    LET dots == Tagged(supported.values, "resolution") IN
    IF dots = {} THEN NoSpec
    ELSE [kind |-> "resolution", dots |-> dots,
          default |-> IF FirstTagged(default, {"resolution"})
                      THEN ResolutionLabel(default.first) ELSE NoValue]

IntegerSpec(supported, default) ==
    LET v == supported.first
        preset == IF FirstTagged(default, {"integer", "enum", "range"})
                  THEN Number(FirstInt(default.first)) ELSE NoValue
        choices == IntChoices(supported.values)
    IN  IF supported.array
        THEN IF choices = {} THEN NoSpec
             ELSE [kind |-> "choices", numbers |-> choices, default |-> preset]
        ELSE IF v.tag = "range"
             THEN [kind |-> "integer", min |-> v.min, max |-> v.max,
                   default |-> preset]
        ELSE IF v.tag = "integer"
             THEN [kind |-> "integer", min |-> v.number, max |-> v.number,
                   default |-> preset]
        ELSE NoSpec

(* One entry of parse_options: the option's spec, NoSpec if it is left out. *)
Spec1(o, supported, default) ==
    IF supported.values = {} THEN NoSpec
    ELSE CASE o \in KeywordOptions -> KeywordSpec(supported, default)
           [] o \in EnumOptions    -> EnumSpec(o, supported, default)
           [] o \in IntegerOptions -> IntegerSpec(supported, default)
           [] OTHER                -> ResolutionSpec(supported, default)

(* parse_options over what Get-Printer-Attributes answered.                *)
Catalogue(attrs) ==
    [o \in Options |->
        IF o \in DOMAIN attrs THEN Spec1(o, attrs[o].supported, attrs[o].default)
        ELSE NoSpec]

-----------------------------------------------------------------------------
(* encode_value: the IPP values the text can stand for; none if it is      *)
(* refused.  The code takes the first match.                               *)
\* mutant: any number of the option's names is taken
EncodedEnumUnchecked(o, spec, text) ==
    {n \in 3..9 : text \in {EnumName(o, n), Number(n)}}

EncodedEnumByNumber(o, spec, text) ==  \* mutant: names are not understood
    {n \in spec.numbers : text = Number(n)}

EncodedEnum(o, spec, text) ==
    {n \in spec.numbers : text \in {EnumName(o, n), Number(n)}}

NumberOf(text) == IF text.form = "number" THEN {text.number} ELSE {}

Encoded(o, spec, text) ==
    CASE spec.kind = "keyword" ->
           {String(w) : w \in {w \in spec.words : text = Word(w)}}
      [] spec.kind = "enum" ->
           {Enum(n) : n \in EncodedEnum(o, spec, text)}
      [] spec.kind = "integer" ->
           {Whole(n) : n \in {n \in NumberOf(text) : spec.min <= n /\ n <= spec.max}}
      [] spec.kind = "choices" ->
           {Whole(n) : n \in NumberOf(text) \cap spec.numbers}
      [] spec.kind = "resolution" ->
           {v \in spec.dots : text = ResolutionLabel(v)}
      [] OTHER -> {}

(* encode_job_attributes: an unknown option or a bad value fails the whole *)
(* request.  The PPD spelling sent along with a resolution is left out.    *)
Acceptable(catalogue, wants) ==
    \A o \in DOMAIN wants :
        o \in DOMAIN catalogue /\ Encoded(o, catalogue[o], wants[o]) # {}

Encodings(catalogue, wants) ==
    {sent \in [DOMAIN wants -> UNION {Encoded(o, catalogue[o], wants[o])
                                       : o \in DOMAIN wants}] :
        \A o \in DOMAIN wants : sent[o] \in Encoded(o, catalogue[o], wants[o])}

-----------------------------------------------------------------------------
(* What the printer itself takes a value for: one of the supported values, *)
(* a number also as a member of a supported range.                         *)
Supports(supported, v) ==
    \/ v \in supported.values
    \/ /\ v.tag = "integer"
       /\ \/ \E s \in Tagged(supported.values, "range") :
                s.min <= v.number /\ v.number <= s.max
          \/ \E s \in Tagged(supported.values, "enum") : s.number = v.number

(* The texts a spec offers to clients.                                     *)
Offered(o, spec) ==
    CASE spec.kind = "keyword"    -> {Word(w) : w \in spec.words}
      [] spec.kind = "enum"       -> {EnumName(o, n) : n \in spec.numbers}
      [] spec.kind = "integer"    -> {Number(n) : n \in spec.min..spec.max}
      [] spec.kind = "choices"    -> {Number(n) : n \in spec.numbers}
      [] spec.kind = "resolution" -> {ResolutionLabel(v) : v \in spec.dots}
      [] OTHER -> {}
=============================================================================
