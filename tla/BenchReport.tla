---------------------------- MODULE BenchReport ----------------------------
(***************************************************************************)
(* The benchmark scripts: a benchmark report and its decks read and summed *)
(* up (tools/bench_plot.py), and HSPICE's measure table matched against    *)
(* ESPice's blocks (bench/matcha/compare_hspice.py).  Each is one pass     *)
(* over its input, which the initial state chooses.                        *)
(***************************************************************************)
EXTENDS Integers, SequencesExt

CONSTANTS
  BenchDecks,     \* decks: [top, body]; body maps a subcircuit to its elements
  BenchReports,   \* reports: [cols, sides, rows]
  BenchTables     \* [hspice, espice]: what the two simulators printed

VARIABLES pass, input, result   \* which script part, on what; <<>> until it ran

benchVars == <<pass, input, result>>

Blank == -1      \* a time cell that is no number: the run did not finish
NotANumber == -2 \* a measure that failed

-----------------------------------------------------------------------------
(* bench_plot.py: devices.  An element is "dev" or the subcircuit it uses. *)

\* Faulty: a subcircuit is counted where it is first used only.
RECURSIVE CountOnce(_, _, _, _)
CountOnce(deck, items, open, memo) ==
  FoldLeft(LAMBDA acc, x :
      IF x \notin DOMAIN deck.body \ open \/ x \in DOMAIN acc.memo THEN [acc EXCEPT !.n = @ + 1]
      ELSE LET sub == CountOnce(deck, deck.body[x], open \union {x}, acc.memo)
           IN [n |-> acc.n + sub.n, memo |-> (x :> sub.n) @@ sub.memo],
    [n |-> 0, memo |-> memo], items)

\* count: a subcircuit with no body, or open already, counts as one device;
\* `memo' keeps what the others came to.
RECURSIVE Count(_, _, _, _)
Count(deck, items, open, memo) ==
  FoldLeft(LAMBDA acc, x :
      IF x \notin DOMAIN deck.body \ open THEN [acc EXCEPT !.n = @ + 1]
      ELSE IF x \in DOMAIN acc.memo THEN [acc EXCEPT !.n = @ + acc.memo[x]]
      ELSE LET sub == Count(deck, deck.body[x], open \union {x}, acc.memo)
           IN [n |-> acc.n + sub.n, memo |-> (x :> sub.n) @@ sub.memo],
    [n |-> 0, memo |-> memo], items)

Devices(deck) == Max({Count(deck, deck.top, {}, <<>>).n, 1})

-----------------------------------------------------------------------------
(* bench_plot.py: the report's columns and the summary.  `cols' are the    *)
(* simulators, espice first, as [name, vendor]; `sides' the verdict        *)
(* columns, named for the reference; a row is [exists, times, verdicts].   *)

\* Faulty: drops the vendor columns from the header only.
RowTimesWhole(report, row) == row.times
Keep(report) == SelectSeq([k \in DOMAIN report.cols |-> k], LAMBDA k : ~report.cols[k].vendor)
Header(report) == [k \in DOMAIN Keep(report) |-> report.cols[Keep(report)[k]].name]
RowTimes(report, row) == [k \in DOMAIN Keep(report) |-> row.times[Keep(report)[k]]]

Scale == 12      \* ratios are kept as multiples of 1/Scale
RowsUsed(report) == SelectSeq(report.rows, LAMBDA r : r.exists)

\* Twice the median.
Median(ratios) ==
  LET xs == SetToSortSeq(DOMAIN ratios, LAMBDA a, b : ratios[a] < ratios[b] \/ (ratios[a] = ratios[b] /\ a < b))
      mid == Len(xs) \div 2
  IN IF Len(xs) % 2 = 1 THEN 2 * ratios[xs[mid + 1]] ELSE ratios[xs[mid]] + ratios[xs[mid + 1]]

\* summary's line of the i-th simulator of the header.
SummaryLine(report, i) ==
  LET time(r)  == RowTimes(report, r)
      both     == SelectSeq(RowsUsed(report), LAMBDA r : time(r)[1] > 0 /\ time(r)[i] > 0)
      ratios   == [k \in DOMAIN both |-> (time(both[k])[i] * Scale) \div time(both[k])[1]]
      col      == {c \in DOMAIN report.sides : report.sides[c] = Header(report)[i]}
      said(v)  == Cardinality({k \in DOMAIN both : \E c \in col : both[k].verdicts[c] = v})
  IN [sim |-> Header(report)[i], decks |-> Len(both),
      faster |-> Cardinality({k \in DOMAIN ratios : ratios[k] > Scale}),
      median |-> IF both = <<>> THEN 0 ELSE Median(ratios),
      agree |-> said("agree"), differ |-> said("differ")]

Summary(report) ==
  SelectSeq([k \in 1..(Len(Header(report)) - 1) |-> SummaryLine(report, k + 1)],
            LAMBDA l : l.decks > 0)

-----------------------------------------------------------------------------
(* compare_hspice.py.  `hspice' is the token list of the .mt0 file: names, *)
(* then values row by row.  `espice' is a list of blocks [point, values].  *)

\* read_mt0: rows of as many values as there are names; a short last row is
\* dropped.
ReadMt0(tokens) ==
  LET k    == Min({i \in DOMAIN tokens : tokens[i].is = "value"}) - 1
      rows == (Len(tokens) - k) \div k
  IN [r \in 1..rows |-> [c \in {tokens[i].name : i \in 1..k} |->
       tokens[r * k + (CHOOSE i \in 1..k : tokens[i].name = c)].value]]

\* Faulty: the blocks in the order they were printed.
ReadEspicePrinted(blocks) == [k \in DOMAIN blocks |-> blocks[k].values]
\* read_espice: one entry per point, a later block of a point adding to it, in
\* the order of the points.
ReadEspice(blocks) ==
  LET points == SetToSortSeq({blocks[k].point : k \in DOMAIN blocks}, <)
  IN [k \in DOMAIN points |->
       FoldLeft(LAMBDA acc, b : IF b.point = points[k] THEN b.values @@ acc ELSE acc, <<>>, blocks)]

\* Beyond rtol = 1/100, or one simulator's measure failed and the other's not.
Apart(a, b) ==
  IF NotANumber \in {a, b} THEN a # b ELSE (IF a > b THEN a - b ELSE b - a) * 100 > a

\* main: the measures beyond rtol, matched by place.
CompareBad(tokens, blocks) ==
  LET h == ReadMt0(tokens)  e == ReadEspice(blocks)
      both  == Min({Len(h), Len(e)})
      names == IF both = 0 THEN {} ELSE DOMAIN e[1] \intersect DOMAIN h[1]
  IN Cardinality({<<i, c>> \in (1..both) \X names : Apart(h[i][c], e[i][c])})

-----------------------------------------------------------------------------
BenchInit ==
  /\ \/ pass = "devices" /\ input \in BenchDecks
     \/ pass = "summary" /\ input \in BenchReports
     \/ pass = "compare" /\ input \in BenchTables
  /\ result = <<>>

BenchNext ==
  /\ result = <<>>
  /\ \/ pass = "devices" /\ result' = <<Devices(input)>>
     \/ pass = "summary" /\ result' = <<Summary(input)>>
     \/ pass = "compare" /\ result' = <<CompareBad(input.hspice, input.espice)>>
  /\ UNCHANGED <<pass, input>>

-----------------------------------------------------------------------------
(* Properties. *)

\* The elements of a deck's subcircuits, expanded `depth' levels.
Expanded(deck, depth) ==
  LET total(items, of) == FoldLeft(LAMBDA s, x : s + of[x], 0, items)
      size[k \in 0..depth] ==
        [x \in DOMAIN deck.body \union ToSet(deck.top)
                 \union UNION {ToSet(deck.body[s]) : s \in DOMAIN deck.body} |->
           IF x \notin DOMAIN deck.body THEN 1 ELSE IF k = 0 THEN 1
           ELSE total(deck.body[x], size[k - 1])]
  IN total(deck.top, size[depth])

\* No subcircuit uses itself.
WellFounded(deck) == Expanded(deck, Cardinality(DOMAIN deck.body))
                       = Expanded(deck, Cardinality(DOMAIN deck.body) + 1)

\* The x axis counts what the deck flattens to, however its subcircuits share.
DevicesExpanded ==
  pass = "devices" /\ result # <<>> /\ WellFounded(input) =>
    result[1] = Max({Expanded(input, Cardinality(DOMAIN input.body)), 1})

\* Each line of the summary is about one reference simulator: its own times
\* against espice's, and its own verdicts, whatever columns were dropped.
SummaryPerSimulator ==
  pass = "summary" /\ result # <<>> =>
    \A c \in 2..Len(input.cols) :
      LET sim   == input.cols[c].name
          decks == {k \in DOMAIN input.rows : input.rows[k].exists /\ input.rows[k].times[1] > 0
                                               /\ input.rows[k].times[c] > 0}
          ratio(k) == (input.rows[k].times[c] * Scale) \div input.rows[k].times[1]
          lines == {k \in DOMAIN result[1] : result[1][k].sim = sim}
          voted(v) == {k \in decks : \E s \in DOMAIN input.sides :
                         input.sides[s] = sim /\ input.rows[k].verdicts[s] = v}
      IN /\ Cardinality(lines) = IF decks = {} \/ input.cols[c].vendor THEN 0 ELSE 1
         /\ \A k \in lines : LET line == result[1][k] IN
              /\ line.decks = Cardinality(decks)
              /\ line.faster = Cardinality({d \in decks : input.rows[d].times[c] > input.rows[d].times[1]})
              /\ 2 * Cardinality({d \in decks : 2 * ratio(d) <= line.median}) >= Cardinality(decks)
              /\ 2 * Cardinality({d \in decks : 2 * ratio(d) >= line.median}) >= Cardinality(decks)
              /\ line.agree = Cardinality(voted("agree")) /\ line.differ = Cardinality(voted("differ"))

\* Points are matched by index: with every point measured by both simulators,
\* the count is that of the measures that differ at one point, in whatever
\* order ESPice printed its blocks.
MeasuresMatched ==
  pass = "compare" /\ result # <<>> =>
    LET rows == ReadMt0(input.hspice)
        told(p) == {k \in DOMAIN input.espice : input.espice[k].point = p}
    IN ({input.espice[k].point : k \in DOMAIN input.espice} = 1..Len(rows)
        /\ \A p \in DOMAIN rows : Cardinality(told(p)) = 1) =>
         result[1] = Cardinality({<<p, c>> \in UNION {{<<q, m>> : m \in DOMAIN rows[q]} : q \in DOMAIN rows} :
                       \E k \in told(p) : c \in DOMAIN input.espice[k].values
                                            /\ Apart(rows[p][c], input.espice[k].values[c])})
=============================================================================
