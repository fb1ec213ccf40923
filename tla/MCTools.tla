------------------------------ MODULE MCTools ------------------------------
(***************************************************************************)
(* The developers' scripts, one at a time: the initial state chooses the   *)
(* script and its input; the others stay as they start.                    *)
(***************************************************************************)
EXTENDS AsmProbe, LaneDiff, GpuParity, BenchReport

VARIABLE tool

Line(is, name, op, arg) == [is |-> is, name |-> name, op |-> op, arg |-> arg]

\* One token of a body whose labels, pool and table are numbered s.
TokenLine(t, s) ==
  CASE t \in {"A", "B"}  -> Line("label", <<t \o s>>, "", <<>>)
    [] t = "debug"       -> Line("label", <<"tmp" \o s>>, "", <<>>)
    [] t = "rax"         -> Line("ins", <<>>, "mov", <<"reg", "rax">>)
    [] t = "rcx"         -> Line("ins", <<>>, "mov", <<"reg", "rcx">>)
    [] t = "wide"        -> Line("ins", <<>>, "mov", <<"wide", "ymm0">>)
    [] t = "packed"      -> Line("ins", <<>>, "packed", <<"reg", "xmm0">>)
    [] t = "call"        -> Line("ins", <<>>, "call", <<"symbol", "helper">>)
    [] t = "fail"        -> Line("ins", <<>>, "call", <<"symbol", "len_fail">>)
    [] t = "dyn"         -> Line("ins", <<>>, "call", <<"reg", "r15">>)
    [] t = "trap"        -> Line("ins", <<>>, "ud2", <<"none", "">>)
    [] t = "toA"         -> Line("ins", <<>>, "branch", <<"label", "A" \o s>>)
    [] t = "toB"         -> Line("ins", <<>>, "jmp", <<"label", "B" \o s>>)
    [] t = "far"         -> Line("ins", <<>>, "jmp", <<"label", "X">>)
    [] t = "const"       -> Line("ins", <<>>, "mov", <<"const", "C" \o s>>)
    [] t = "table"       -> Line("ins", <<>>, "lea", <<"table", "T" \o s>>)

Fn(name, shape, s) ==
  <<Line("label", name, "", <<>>)>> \o [k \in DOMAIN shape |-> TokenLine(shape[k], s)]
    \o <<Line("end", <<>>, "", <<>>)>>

Data(label, args) ==
  <<Line("label", <<label>>, "", <<>>)>>
    \o [k \in DOMAIN args |-> Line("data", <<>>, "", args[k])]
Pool(s, v) == Data("C" \o s, <<<<"long", v>>>>)
Table(s, first, second) == Data("T" \o s, <<<<"long", first \o s>>, <<"long", second \o s>>>>)

Switch == <<"table", "A", "rax", "B", "trap">>
Shapes ==
  {<<"A", "rax", "toA">>, <<"rax", "A", "toA">>, <<"debug", "A", "rax", "toA">>, <<"A", "rcx", "toA">>,
   <<"rax", "toB", "B">>, <<"const">>, <<"const", "debug", "rax">>,
   Switch, <<"far">>, <<"wide">>, <<"wide", "far">>, <<"wide", "call">>,
   <<"packed", "fail">>, <<"dyn">>, <<"call">>, <<"rax", "rax">>, <<"trap">>, <<>>}

\* gen is followed by `probe.hand'; v and flip vary the second pool and table.
Code(a, b, v, flip) ==
  Pool("1", "1.0") \o Pool("2", v) \o Table("1", "A", "B")
    \o (IF flip THEN Table("2", "B", "A") ELSE Table("2", "A", "B"))
    \o Fn(<<"gen">>, a, "1") \o Fn(<<"probe", "hand">>, b, "2")
    \o <<Line("label", <<"X">>, "", <<>>)>>

\* gen and hand folded into one body, by equates in every order.
Equate(name, to) == Line("alias", name, "", to)
Equates == {<<<<"gen">>, <<"probe", "one">>>>, <<<<"probe", "one">>, <<"body">>>>,
            <<<<"hand">>, <<"body">>>>}
Folded ==
  {Fn(<<"x_hand">>, <<"trap">>, "3") \o [k \in DOMAIN e |-> Equate(e[k][1], e[k][2])]
     \o Fn(<<"body">>, <<"rax">>, "1") : e \in SetToSeqs(Equates)}

\* Two labels end with the short name of the hand version.
Ambiguous ==
  {Fn(<<"other", "hand">>, a, "3") \o Fn(<<"gen">>, b, "1") \o Fn(<<"probe", "hand">>, c, "2") :
     a, b, c \in {<<>>, <<"call">>, <<"wide">>}}

MCListings ==
  {Code(a, b, "1.0", FALSE) : a, b \in Shapes}
    \union {Code(<<"const">>, <<"const">>, "2.0", FALSE), Code(Switch, Switch, "1.0", TRUE)}
    \union Folded \union Ambiguous
MCPairs == {<<<<"gen">>, <<"hand">>>>, <<<<"hand">>, <<"gen">>>>, <<<<"gen">>, <<"gone">>>>,
            <<<<"probe", "hand">>, <<"hand">>>>}

-----------------------------------------------------------------------------
(* lane_diff.py: a deck of one plot or two, replicated well or badly. *)
P(name, data) == [name |-> name, data |-> data]
One == <<P("a", 1)>>
Two == <<P("a", 1), P("b", 2)>>
MCFiles == {NoFile, <<>>, One, Two, Replicated(One), Replicated(Two), One \o One \o One,
            [k \in 1..8 |-> P("r", IF k <= 4 THEN 1 ELSE 2)],
            [k \in 1..4 |-> P("r", IF k = 3 THEN 2 ELSE 1)]}

(* gpu_lane_parity.py: two replicas of a transient after a .op. *)
Plot(tran, t, y) == [tran |-> tran, t |-> t, y |-> y]
Op == Plot(FALSE, <<0>>, <<7>>)
Ramp(t) == Plot(TRUE, t, [i \in DOMAIN t |-> 500 * t[i]])
Waves == {Ramp(<<0, 4>>), Ramp(<<0, 1, 4>>), Ramp(<<0, 2, 3, 4>>),
          Plot(TRUE, <<0, 1, 4>>, <<NaN, 500, 2000>>), Plot(TRUE, <<0, 2, 4>>, <<0, NaN, 2000>>),
          Plot(TRUE, <<0, 2, 4>>, <<0, 1000, 2003>>), Plot(TRUE, <<0, 2, 4>>, <<0, 1000, 2005>>)}
MCGpuRuns == {[rc |-> rc, lanes |-> l, plots |-> <<Op, a, Op, b>>] :
                rc \in {0, 1}, l \in BOOLEAN, a, b \in Waves}
             \union {[rc |-> 0, lanes |-> TRUE, plots |-> <<Op>>]}
MCCpuRuns == {[rc |-> 0, plots |-> <<Op, a, Op, a>>] : a \in Waves}
             \union {[rc |-> 0, plots |-> <<Op, a, Op>>] : a \in Waves}
MCGpuDecks == <<"d1">>

(* bench_plot.py and compare_hspice.py *)
Items == UNION {[1..k -> {"dev", "a", "b", "c"}] : k \in 0..2}
MCBenchDecks ==
  {[top |-> <<"a", "b", "a", "dev">>, body |-> ("a" :> i) @@ ("b" :> j)] :
     i, j \in Items \ {<<>>}}
MCBenchReports ==
  {[cols |-> <<[name |-> "espice", vendor |-> FALSE], [name |-> "HSPICE", vendor |-> TRUE],
               [name |-> "ngspice", vendor |-> FALSE]>>,
    sides |-> <<"HSPICE", "ngspice">>,
    rows |-> [k \in DOMAIN rows |->
      [exists |-> rows[k][1], times |-> rows[k][2], verdicts |-> rows[k][3]]]] :
     rows \in UNION {[1..k -> {TRUE, FALSE} \X {<<2, 4, 1>>, <<2, 1, 6>>, <<Blank, 3, 3>>, <<1, 2, Blank>>}
                        \X {<<"agree", "differ">>, <<"differ", "agree">>}] : k \in 1..2}}
Name(c) == [is |-> "name", name |-> c, value |-> 0]
Value(v) == [is |-> "value", name |-> "", value |-> v]
Block(p, x, y) == [point |-> p, values |-> ("tpd" :> x) @@ ("trise" :> y)]
Measured == {100, 101, 110, NotANumber}
MCBenchTables ==
  {[hspice |-> <<Name("tpd"), Name("trise"), Value(100), Value(200), Value(h), Value(220)>> \o rest,
    espice |-> blocks] :
     h \in Measured, rest \in {<<>>, <<Value(5)>>},
     blocks \in UNION {{<<Block(1, e, 200), Block(2, 100, 220)>>, <<Block(2, e, 220), Block(1, 100, 200)>>,
                         <<Block(1, 100, 200)>>} : e \in Measured}}

-----------------------------------------------------------------------------
(* One script runs. *)
ProbeIdle == listing = <<>> /\ request = <<>> /\ report = FALSE /\ verdicts = <<>>
               /\ failed = FALSE /\ exit = NoExit
LaneIdle == LaneInit /\ mode = "swept"
BenchIdle == pass = "none" /\ input = <<>> /\ result = <<>>

Init ==
  \/ tool = "asm_probe" /\ ProbeInit /\ LaneIdle /\ GpuInit /\ BenchIdle
  \/ tool = "lane_diff" /\ LaneInit /\ ProbeIdle /\ GpuInit /\ BenchIdle
  \/ tool = "gpu_parity" /\ GpuInit /\ ProbeIdle /\ LaneIdle /\ BenchIdle
  \/ tool = "bench" /\ BenchInit /\ ProbeIdle /\ LaneIdle /\ GpuInit

Next ==
  /\ UNCHANGED tool
  /\ \/ tool = "asm_probe" /\ ProbeNext /\ UNCHANGED <<laneVars, gpuVars, benchVars>>
     \/ tool = "lane_diff" /\ LaneNext /\ UNCHANGED <<probeVars, gpuVars, benchVars>>
     \/ tool = "gpu_parity" /\ GpuNext /\ UNCHANGED <<probeVars, laneVars, benchVars>>
     \/ tool = "bench" /\ BenchNext /\ UNCHANGED <<probeVars, laneVars, gpuVars>>

Spec == Init /\ [][Next]_<<tool, probeVars, laneVars, gpuVars, benchVars>>
=============================================================================
