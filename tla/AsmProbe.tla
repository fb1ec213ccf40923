------------------------------ MODULE AsmProbe ------------------------------
(***************************************************************************)
(* The codegen probe (tools/asm_probe.py): each requested pair names an    *)
(* abstraction and the loop it claims to equal, and is judged from the     *)
(* assembly listing.                                                       *)
(*                                                                         *)
(* A line of a listing is [is, name, op, arg].  `is' is "alias", "label",  *)
(* "ins", "data" (a constant or a jump-table entry) or "end"; a name is    *)
(* the sequence of its qualifiers, <<"probe", "foo">> for `probe.foo'.     *)
(* `arg' is <<kind, text>>: what an instruction's operand is, and the      *)
(* label, register or symbol it names.                                     *)
(***************************************************************************)
EXTENDS Integers, SequencesExt

CONSTANTS
  Listings,   \* the listings probed
  Pairs,      \* the names a request may pair: <<gen, hand>>
  MaxPairs,   \* bound: pairs of a request
  Panics      \* the symbols is_panic knows

VARIABLES
  listing, request, report,   \* the command line: the file, its pairs, --report
  verdicts,                   \* one verdict per pair judged so far
  failed,                     \* main's `failed'
  exit                        \* the exit status, or NoExit

probeVars == <<listing, request, report, verdicts, failed, exit>>

NoExit == -1       \* no exit status yet
NoName == <<>>

-----------------------------------------------------------------------------
(* Symbols and what they are aliases of. *)

EndsWithSymbol(name, symbol) == IsSuffix(symbol, name)

AliasLines(text) == {k \in DOMAIN text : text[k].is = "alias"}

\* Two equates of one name are one key at the place of the first, with the
\* value of the last; the first key that ends with the symbol is taken.
Lookup(text, symbol) ==
  LET keys == {k \in AliasLines(text) : EndsWithSymbol(text[k].name, symbol)}
      same == {k \in keys : text[k].name = text[Min(keys)].name}
  IN IF keys = {} THEN NoName ELSE text[Max(same)].arg

MaxHops == 8
Resolve(text, symbol) ==
  LET hop[k \in 0..MaxHops] ==
        IF k = 0 THEN symbol
        ELSE LET next == Lookup(text, hop[k - 1])
             IN IF next = NoName THEN hop[k - 1] ELSE next
  IN hop[MaxHops]

SameSymbol(a, b) == EndsWithSymbol(a, b) \/ EndsWithSymbol(b, a)

-----------------------------------------------------------------------------
(* A body with its labels, tables and constants read. *)

\* The data lines under the label at line `at'.
DataUnder(text, at) ==
  LET after == {k \in (at + 1)..Len(text) : text[k].is # "data"}
      stop  == Min(after \union {Len(text) + 1})
  IN [k \in 1..(stop - at - 1) |-> text[at + k].arg]

LabelLines(text, label) == {k \in DOMAIN text : text[k].is = "label" /\ text[k].name = <<label>>}

\* What a pool label or a jump table holds; <<>> if the listing has none.
ParseData(text, label) ==
  LET at == LabelLines(text, label)
  IN IF at = {} THEN <<>> ELSE DataUnder(text, Max(at))

Heads(text, symbol) ==
  {k \in DOMAIN text : text[k].is = "label" /\ EndsWithSymbol(text[k].name, symbol)}
BodyEnd(text, head) ==
  Min({k \in (head + 1)..Len(text) : text[k].is = "end"} \union {Len(text) + 1})

\* Instructions from line `head' up to line `stop'.
CountIns(text, head, stop) ==
  Cardinality({k \in head..stop : text[k].is = "ins"})

\* Faulty: a label is the line it stands on, directives and other labels too.
TargetByLine(text, head, at) == at - head
\* A label of the body is the index of the instruction it points at.
Target(text, head, at) == CountIns(text, head, at)

\* body's rewriting of jump targets and tables, and normalize's of constants.
\* A label from outside the body stays as it is written.
Operand(text, head, arg) ==
  LET inside   == head..BodyEnd(text, head)
      local(l) == LabelLines(text, l) \intersect inside
      data     == ParseData(text, arg[2])
  IN CASE arg[1] = "label" /\ local(arg[2]) # {} ->
            <<"at", Target(text, head, Max(local(arg[2])))>>
       [] arg[1] = "table" /\ data # <<>> /\ \A k \in DOMAIN data : local(data[k][2]) # {} ->
            <<"jt", [k \in DOMAIN data |-> Target(text, head, Max(local(data[k][2])))]>>
       [] arg[1] = "const" /\ data # <<>> -> <<"value", data>>
       [] OTHER -> arg

Instructions(text, head) ==
  SelectSeq(SubSeq(text, head, BodyEnd(text, head) - 1), LAMBDA l : l.is = "ins")

\* The body of a symbol the listing has: the first label that ends with it.
Body(text, symbol) ==
  LET head  == Min(Heads(text, symbol))
      lines == Instructions(text, head)
  IN [k \in DOMAIN lines |->
       [op |-> lines[k].op, arg |-> Operand(text, head, lines[k].arg)]]

-----------------------------------------------------------------------------
(* Static counts. *)

\* A wide register anywhere, or a packed mnemonic that is not scalar bitwise.
IsVector(i) == i.arg[1] = "wide" \/ i.op = "packed"
\* Faulty: only a call leaves the body.
LeavesByCall(i) == i.op = "call"
\* A jump to what is not a label of the body leaves it: a tail call.
Leaves(i) == i.op = "call" \/ (i.op = "jmp" /\ i.arg[1] # "at")
\* Through the GOT or the PLT the callee is a fixed symbol all the same; a
\* label of another body is one too.
IsDirect(i) == Leaves(i) /\ i.arg[1] \in {"symbol", "label", "at"}
IsPanic(i) == i.op = "ud2" \/ (IsDirect(i) /\ i.arg[1] # "at" /\ i.arg[2] \in Panics)

Columns == {"instructions", "vector", "calls", "indirect_calls", "panics", "branches"}
Work    == Columns \ {"vector"}

Counts(c, i) ==
  CASE c = "instructions"   -> TRUE
    [] c = "vector"         -> IsVector(i)
    [] c = "calls"          -> IsDirect(i)
    [] c = "indirect_calls" -> i.op = "call" /\ ~IsDirect(i)
    [] c = "panics"         -> IsPanic(i)
    [] c = "branches"       -> i.op = "branch"

Stats(body) ==
  [c \in Columns |-> Cardinality({k \in DOMAIN body : Counts(c, body[k])})]

-----------------------------------------------------------------------------
(* Judging a pair. *)

Verdict(gen, hand, gs, hs) ==
  LET noMore(cs) == \A c \in cs : gs[c] <= hs[c]
  IN IF gen = hand THEN "IDENTICAL"
     ELSE IF [k \in DOMAIN gen |-> gen[k].op] = [k \in DOMAIN hand |-> hand[k].op]
     THEN "EQUIVALENT"
     ELSE IF \/ /\ gs["vector"] > 0 /\ hs["vector"] = 0
                /\ noMore({"calls", "indirect_calls", "panics"})
             \/ noMore(Work) /\ \E c \in Work : gs[c] < hs[c]
     THEN "NEGATIVE" ELSE "RESIDUE"

\* probe.  A name without a body raises before the names are compared.
Probe(text, pair) ==
  LET g == Resolve(text, pair[1])
      h == Resolve(text, pair[2])
  IN IF Heads(text, g) = {} \/ Heads(text, h) = {} THEN "MISSING"
     ELSE IF SameSymbol(g, h) THEN "FOLDED"
     ELSE LET gen == Body(text, g)  hand == Body(text, h)
          IN Verdict(gen, hand, Stats(gen), Stats(hand))

ProbeInit ==
  /\ listing \in Listings /\ report \in BOOLEAN
  /\ request \in UNION {[1..k -> Pairs] : k \in 0..MaxPairs}
  /\ verdicts = <<>> /\ failed = FALSE /\ exit = NoExit

Fails(v) == failed \/ v \in {"MISSING", "RESIDUE"}

\* main's loop: a missing symbol does not keep the later pairs from their turn.
ProbePair ==
  /\ exit = NoExit /\ Len(verdicts) < Len(request)
  /\ LET v == Probe(listing, request[Len(verdicts) + 1])
     IN /\ verdicts' = Append(verdicts, v)
        /\ failed' = Fails(v)
  /\ UNCHANGED <<listing, request, report, exit>>

\* A request of no pair is a usage error.
ProbeEnd ==
  /\ exit = NoExit /\ Len(verdicts) = Len(request)
  /\ exit' = IF request = <<>> THEN 2 ELSE IF report \/ ~failed THEN 0 ELSE 1
  /\ UNCHANGED <<listing, request, report, verdicts, failed>>

ProbeNext == ProbePair \/ ProbeEnd

-----------------------------------------------------------------------------
(* Properties. *)

\* Where a label leads whoever runs the code: to the instruction after it, so
\* many instructions into the body or, outside the body, at that line.
Leads(text, head, l) ==
  LET at   == Max(LabelLines(text, l))
      next == Min({k \in DOMAIN text : text[k].is = "ins" /\ k > at} \union {Len(text) + 1})
  IN IF at \in head..BodyEnd(text, head)
     THEN <<"in", Cardinality({k \in (head + 1)..(next - 1) : text[k].is = "ins"})>>
     ELSE <<"out", next>>

\* What instruction i of the body at `head' refers to, for whoever runs it.
Meaning(text, head, i) ==
  LET data == ParseData(text, i.arg[2])
  IN CASE i.arg[1] = "label" -> Leads(text, head, i.arg[2])
       [] i.arg[1] = "table" -> [k \in DOMAIN data |-> Leads(text, head, data[k][2])]
       [] i.arg[1] = "const" -> data
       [] OTHER -> i.arg

\* Two bodies do the same: instruction by instruction, whatever their labels,
\* pools and tables are called.
SameCode(text, f, g) ==
  LET a == Instructions(text, Min(Heads(text, f)))
      b == Instructions(text, Min(Heads(text, g)))
  IN /\ Len(a) = Len(b)
     /\ \A k \in DOMAIN a :
          /\ a[k].op = b[k].op /\ a[k].arg[1] = b[k].arg[1]
          /\ Meaning(text, Min(Heads(text, f)), a[k]) = Meaning(text, Min(Heads(text, g)), b[k])

\* IDENTICAL is said of exactly the pairs that do the same once labels,
\* constant pools and jump tables are looked through.
IdenticalIsSameCode ==
  \A k \in DOMAIN verdicts \intersect {Len(verdicts)} :
    LET g == Resolve(listing, request[k][1])  h == Resolve(listing, request[k][2])
    IN verdicts[k] \notin {"MISSING", "FOLDED"} =>
         (verdicts[k] = "IDENTICAL" <=> SameCode(listing, g, h))

\* Every name that equates lead to from `name'.
Equal(text, name) ==
  LET step[k \in 0..Cardinality(AliasLines(text))] ==
        IF k = 0 THEN {name}
        ELSE step[k - 1] \union
               {text[e].arg : e \in {e \in AliasLines(text) : text[e].name \in step[k - 1]}}
  IN step[Cardinality(AliasLines(text))]

\* Whatever order the equates stand in, two names that equates lead to one
\* body read as FOLDED.
FoldsAreSeen ==
  \A k \in DOMAIN verdicts :
    LET both == Equal(listing, request[k][1]) \intersect Equal(listing, request[k][2])
    IN (\E l \in DOMAIN listing : listing[l].is = "label" /\ listing[l].name \in both)
         => verdicts[k] = "FOLDED"

\* A verdict tells the truth of the two bodies: one body, or the same code.
VerdictsAreTrue == IdenticalIsSameCode /\ FoldsAreSeen

\* The lines of the body at `head' where it goes elsewhere: to a fixed place,
\* to one known at run time only, or to an end of the program.
Escapes(text, head, how) ==
  LET out(l) == Leads(text, head, l)[1] = "out"
      fixed(i) == \/ i.op \in {"call", "jmp"} /\ i.arg[1] = "symbol"
                  \/ i.op = "jmp" /\ i.arg[1] = "label" /\ out(i.arg[2])
  IN {k \in head..BodyEnd(text, head) - 1 :
        /\ text[k].is = "ins"
        /\ CASE how = "fixed"   -> fixed(text[k])
             [] how = "runtime" -> text[k].op = "call" /\ ~fixed(text[k])
             [] how = "stop"    -> \/ text[k].op = "ud2"
                                   \/ fixed(text[k]) /\ text[k].arg[2] \in Panics}

\* A build step that relies on the exit status lets through only pairs that
\* the listing has, and, where no name of a pair fits two labels: one body,
\* two bodies of the same mnemonics, or a body that goes elsewhere no oftener
\* than its hand version, in each of the three ways.
ExitPromise ==
  exit = 0 /\ ~report =>
    \A k \in DOMAIN request :
      LET gen  == Heads(listing, Resolve(listing, request[k][1]))
          hand == Heads(listing, Resolve(listing, request[k][2]))
          ops(heads) == LET ins == Instructions(listing, Min(heads))
                        IN [n \in DOMAIN ins |-> ins[n].op]
          escapes(heads, how) == Cardinality(Escapes(listing, Min(heads), how))
      IN /\ gen # {} /\ hand # {}
         /\ Cardinality(gen) = 1 /\ Cardinality(hand) = 1 =>
              \/ gen = hand \/ ops(gen) = ops(hand)
              \/ \A how \in {"fixed", "runtime", "stop"} :
                   escapes(gen, how) <= escapes(hand, how)
=============================================================================
