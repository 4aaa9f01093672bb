----------------------------- MODULE MetricMatching -----------------------------
(***************************************************************************)
(* The names of the metric catalogue that a text contains.                 *)
(*                                                                         *)
(*   domain/metric_matching.py   MetricMatcher                             *)
(*   domain/semantic_engine.py   _lexical_metric_candidates                *)
(*                                                                         *)
(* A text is a sequence of characters and a catalogue a set of metrics,     *)
(* each with its code, its name and its aliases.  Codes are numbers, which  *)
(* gives the order in which list_enabled returns them.                      *)
(***************************************************************************)
EXTENDS Integers, Sequences, SequencesExt, FiniteSetsExt

CONSTANTS
  Blank,   \* a space
  Mark     \* the punctuation that normalisation removes

\* _normalize_with_index: the positions that are kept, and what is there
\* (normalize_semantic_text).
Kept(text) ==
  LET kept[n \in 0..Len(text)] ==
        IF n = 0 THEN <<>>
        ELSE IF text[n] \in {Blank, Mark} THEN kept[n - 1] ELSE Append(kept[n - 1], n)
  IN kept[Len(text)]
Normal(text) == LET kept == Kept(text) IN [k \in DOMAIN kept |-> text[kept[k]]]

\* A name or an alias; names come before aliases.
Term(m, text, priority) == [code |-> m.code, text |-> Normal(text), priority |-> priority]
TermsOf(m) == {Term(m, m.name, 0)} \cup {Term(m, a, 1) : a \in m.aliases}
Terms(metrics) == {t \in UNION {TermsOf(m) : m \in metrics} : t.text # <<>>}

Occurs(part, text, p) ==
  p + Len(part) - 1 <= Len(text) /\ SubSeq(text, p, p + Len(part) - 1) = part
Has(text, part) == \E p \in DOMAIN text : Occurs(part, text, p)

Hit(p, t) == [start |-> p, end |-> p + Len(t.text), term |-> t]
Hits(text, metrics) ==
  UNION {{Hit(p, t) : p \in {q \in DOMAIN text : Occurs(t.text, text, q)}} : t \in Terms(metrics)}

Overlap(a, b) == a.start < b.end /\ a.end > b.start
SameSpan(a, b) == a.start = b.start /\ a.end = b.end
Length(h) == h.end - h.start

\* The longest first, then names, then the place and the code.
Before(a, b) ==
  \/ Length(a) > Length(b)
  \/ /\ Length(a) = Length(b)
     /\ \/ a.term.priority < b.term.priority
        \/ a.term.priority = b.term.priority /\ a.start < b.start
        \/ a.term.priority = b.term.priority /\ a.start = b.start /\ a.term.code < b.term.code

Preferred(h, hits) == \A g \in hits : SameSpan(g, h) => h.term.priority <= g.term.priority

\* The hits on a name that several metrics have with equal right.
Shared(hits) ==
  {h \in hits : /\ Preferred(h, hits)
                /\ \E g \in hits : /\ SameSpan(g, h) /\ Preferred(g, hits)
                                   /\ g.term.code # h.term.code}

\* The hits taken: none overlaps what is shared, or one taken before.
Selected(hits) ==
  LET taken[h \in hits] == /\ \A g \in Shared(hits) : ~Overlap(g, h)
                           /\ \A g \in {x \in hits : Before(x, h) /\ Overlap(x, h)} : ~taken[g]
  IN {h \in hits : taken[h]}

\* How many characters next to hit h agree with those next to place o of a term.
Extension(text, h, t, o) ==
  LET left == {k \in 0..(Len(t.text)) :
                 \A i \in 1..k : h.start - i >= 1 /\ o - i >= 1 /\ text[h.start - i] = t.text[o - i]}
      right == {k \in 0..(Len(t.text)) :
                 \A i \in 0..(k - 1) :
                   /\ h.end + i <= Len(text) /\ o + Length(h) + i <= Len(t.text)
                   /\ text[h.end + i] = t.text[o + Length(h) + i]}
  IN Max(left) + Max(right)

\* _partial_alias_candidates: the metrics whose longer term the text begins to
\* spell where it has the alias.
MoreSpecific(text, h, metrics) ==
  LET longer == {t \in Terms(metrics) : t.code # h.term.code /\ Len(t.text) > Length(h)}
      spelled == UNION {{[code |-> t.code, by |-> Extension(text, h, t, o)] :
                           o \in {p \in DOMAIN t.text : Occurs(h.term.text, t.text, p)}} : t \in longer}
      strongest == Max({0} \cup {s.by : s \in spelled})
  IN {s.code : s \in {x \in spelled : x.by > 0 /\ x.by = strongest}}

\* MetricMatcher.resolve: the spans confirmed, and the metrics in doubt.
Resolve(text, metrics) ==
  LET normal == Normal(text)
      kept == Kept(text)
      hits == Hits(normal, metrics)
      specific(h) == IF h.term.priority = 0 THEN {} ELSE MoreSpecific(normal, h, metrics)
      taken == Selected(hits)
  IN [matches |-> {[code |-> h.term.code, start |-> kept[h.start], end |-> kept[h.end - 1] + 1] :
                     h \in {x \in taken : specific(x) = {}}},
      doubtful |-> {h.term.code : h \in Shared(hits)} \cup UNION {specific(h) : h \in taken}]

\* MetricMatcher.exact_candidates.
Exact(text, metrics) == {t.code : t \in {x \in Terms(metrics) : x.text = Normal(text)}}

-------------------------------------------------------------------------------
(* difflib's SequenceMatcher.ratio, in per cent *)

Common(a, b) ==
  LET Blocks(w) == {k \in [i : w.a..w.az, j : w.b..w.bz, n : 1..Len(a)] :
                      /\ k.i + k.n - 1 <= w.az /\ k.j + k.n - 1 <= w.bz
                      /\ SubSeq(a, k.i, k.i + k.n - 1) = SubSeq(b, k.j, k.j + k.n - 1)}
      Better(k, l) == \/ k.n > l.n
                      \/ k.n = l.n /\ (k.i < l.i \/ (k.i = l.i /\ k.j <= l.j))
      f[w \in [a : 1..(Len(a) + 1), az : 0..Len(a), b : 1..(Len(b) + 1), bz : 0..Len(b)]] ==
        IF Blocks(w) = {} THEN 0
        ELSE LET k == CHOOSE x \in Blocks(w) : \A y \in Blocks(w) : Better(x, y)
             IN k.n + f[[w EXCEPT !.az = k.i - 1, !.bz = k.j - 1]]
                    + f[[w EXCEPT !.a = k.i + k.n, !.b = k.j + k.n]]
  IN f[[a |-> 1, az |-> Len(a), b |-> 1, bz |-> Len(b)]]

Ratio(a, b) ==
  IF a = <<>> \/ b = <<>> THEN 0 ELSE (200 * Common(a, b)) \div (Len(a) + Len(b))

Likeness(text, item) ==
  Max({Ratio(Normal(text), Normal(t)) : t \in {item.name} \cup item.aliases})

\* _lexical_metric_candidates.
LexicalThreshold == 55
Lexical(text, metrics) ==
  {c \in {[code |-> m.code, score |-> Likeness(text, m)] : m \in metrics} :
     c.score >= LexicalThreshold}
=============================================================================
