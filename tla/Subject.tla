------------------------------- MODULE Subject -------------------------------
(***************************************************************************)
(* Much of the SDK is pure functions.  A behaviour of such a module asks   *)
(* one question: subject is the input, of the given topic, that the        *)
(* functions are applied to; the properties relate their answers.          *)
(***************************************************************************)
EXTENDS Checks, SequencesExt

VARIABLE subject

\* The empty text.
Nil == "nil"

Unasked == [topic |-> "none"]

Ask(topic, inputs) == subject = Unasked /\ \E i \in inputs : subject' = [topic |-> topic, input |-> i]

About(topic) == subject.topic = topic

\* The sum of a sequence of numbers, and that of f over the members of one.
Total(v) == FoldLeft(LAMBDA sum, x : sum + x, 0, v)
SumBy(f(_), s) == Total([i \in DOMAIN s |-> f(s[i])])

\* How many members of a sequence satisfy P, and whether some or all do.
Count(P(_), s) == Cardinality({i \in DOMAIN s : P(s[i])})
Some(P(_), s) == \E i \in DOMAIN s : P(s[i])
Every(P(_), s) == \A i \in DOMAIN s : P(s[i])
=============================================================================
