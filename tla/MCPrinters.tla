----------------------------- MODULE MCPrinters -----------------------------
(* Instances of PrinterCatalogue for TLC. *)
EXTENDS PrinterCatalogue, TLC

Attr(s, d) == [supported |-> s, default |-> d]

\* One attribute of each kind, with what printers really report: a range within
\* an array, a default that is not supported, an enum without a name.
Duplex ==
    ("sides" :> Attr(Array(String("one-sided"), {String("two-sided")}),
                     One(String("tumble"))))
    @@ ("print-quality" :> Attr(Array(Enum(4), {Enum(9)}), One(Enum(5))))
    @@ ("number-up" :> Attr(Array(Whole(1), {Span(4, 6)}), One(Whole(2))))
    @@ ("copies" :> Attr(One(Span(1, 3)), One(Whole(1))))
    @@ ("printer-resolution" :> Attr(Array(Dots(6, 6, 3), {Dots(6, 12, 4)}), Missing))

Simplex ==
    ("sides" :> Attr(One(String("one-sided")), One(String("one-sided"))))
    @@ ("copies" :> Attr(One(Whole(1)), Missing))

Idle(options)  == [state |-> "idle", accepting |-> TRUE, options |-> options]
Stopped(options) == [state |-> "stopped", accepting |-> TRUE, options |-> options]

\* The first printer gains its duplex unit, the second is removed.
Changing == << (0 :> Idle(Simplex)) @@ (1 :> Idle(Duplex)),
               (0 :> Stopped(Simplex)) @@ (1 :> Nothing) >>

List     == [kind |-> "list", refresh |-> FALSE]
Refreshing == [kind |-> "list", refresh |-> TRUE]
Job(o, text) == [kind |-> "print", printer |-> 1, wants |-> o :> text]
Plain == [kind |-> "print", printer |-> 2, wants |-> <<>>]

Wishes == {Plain, Job("print-quality", Word("high")), Job("number-up", OddNumber(6)),
           Job("printer-resolution", Label(6, 12, "dpcm"))}
ListsAndPrints == {List, Refreshing} \cup Wishes
Lists == {List, Refreshing}

\* The instance is one the theorems of PrinterCatalogueProofs are about.
ASSUME WellFormedInstance ==
    WellAsked /\ WellReported({"one-sided", "two-sided", "tumble"})
=============================================================================
