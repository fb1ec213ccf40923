--------------------------- MODULE Delivery_proofs ---------------------------
(***************************************************************************)
(* For any number of queries and runs: what reaches an output file is      *)
(* whole, in request order and stays (DestinationWhole, OnlyGrows), a      *)
(* call that reports success has left nothing out (AllDelivered), and a    *)
(* stream is alone (StreamAlone).  The argument follows the plots of the   *)
(* replacement: until a failure it holds exactly plots that were passed    *)
(* over, the destination is a prefix of it, and what was delivered is in   *)
(* one of the two.                                                         *)
(***************************************************************************)
EXTENDS Delivery, TLAPS

Plot == Query \union {Table}

\* Once aged, or with nothing to age, plots may be delivered.
MayDeliver == ~sel.mosra \/ aged

OutTyped ==
  /\ disk \in [Files -> Seq(Int)]
  /\ pending \in SUBSET Seq(Int)
  /\ stream \in BOOLEAN /\ published \in Nat /\ failed \in BOOLEAN
Typed ==
  /\ OutTyped
  /\ sel \in [format : Formats, dest : Dests, final : BOOLEAN, mosra : BOOLEAN]
  /\ main \in Main
  /\ status \in [Query -> {"pending", "complete", "failed"}]
  /\ released \in [Query -> BOOLEAN]
  /\ next \in Nat /\ next <= main /\ nextRun \in Nat /\ nextRun <= Runs
  /\ aged \in BOOLEAN /\ streaming \in BOOLEAN /\ error \in BOOLEAN
  /\ pc \in {"idle", "age", "open", "run", "deliver", "finish", "check", "gone"}
  /\ call \in {"none", "run_all", "step"}

\* Has the delivery come past query q?
Past(q) == IF q \in Main THEN q <= next ELSE q <= MaxMain + nextRun

\* Main plots come first, and only ended queries are passed over.
Ordered ==
  /\ nextRun > 0 => next > 0
  /\ \A q \in Query : Past(q) => Ended(q)

\* Until the stress run nothing has been written.
Fresh ==
  ~MayDeliver =>
    /\ next = 0 /\ published = 0 /\ pending = {} /\ ~streaming /\ ~error /\ ~failed
    /\ pc \in {"idle", "age", "gone"}

\* One plot at most is published for the table and for each query passed.
Counted ==
  ~error => published <= (IF aged THEN 1 ELSE 0) + next + nextRun

\* A stream is open while it is due, and before the first delivery nothing
\* was written next to it.
Streams ==
  /\ streaming => sel.format = "binary" /\ sel.dest # "device"
  /\ pc # "gone" => (stream <=> streaming)
  /\ streaming /\ next = 0 => published = 0 /\ pending = {}

\* Whole plots, in request order, of queries that were passed over.
Sound(s) == ToSet(s) \subseteq Plot /\ InOrder(s)
Behind(s) == \A q \in ToSet(s) \ {Table} : Past(q)

\* The replacement of a regular file that holds several plots: one at most,
\* it extends the destination, and until a failure it is sound.
Replaces ==
  /\ pending # {} => Concatenates /\ Regular(1)
  /\ \A s, t \in pending : s = t
  /\ \A s \in pending :
       /\ disk[1] = <<Old>> \/ IsPrefix(disk[1], s)
       /\ ~failed => Sound(s) /\ (~error => Behind(s))

\* The destination of such a format.
Gathers ==
  Concatenates =>
    /\ \A f \in Files \ {1} : disk[f] = <<>>
    /\ Regular(1) => \/ disk[1] = <<Old>>
                     \/ Sound(disk[1]) /\ (~error => Behind(disk[1]))
    /\ Regular(1) /\ published = 0 => disk[1] = <<Old>> /\ (pending = {} \/ failed)
    /\ Regular(1) /\ published # 0 /\ ~failed /\ pc # "gone" => pending # {} \/ disk[1] # <<Old>>

\* The destinations of a format of one plot to a file.
Separates ==
  ~Concatenates =>
    \A f \in Files : Regular(f) =>
      \/ disk[f] \in {<<>>, <<Old>>}
      \/ f <= published /\ \E p \in Plot : disk[f] = <<p>>

\* What was delivered is in a file or in the replacement.
Somewhere(q) == q \in Written \/ \E s \in pending : q \in ToSet(s)
Kept ==
  sel.dest # "none" /\ ~error /\ pc # "gone" =>
    \A q \in Query : Past(q) /\ status[q] = "complete" /\ ~released[q] => Somewhere(q)

\* Where the call is, and what it has done by then.
Progress ==
  /\ pc \notin {"idle", "gone"} => call # "none"
  /\ pc = "finish" /\ ~error => next = main \/ ~Ended(next + 1)
  /\ pc = "check" => call = "run_all" /\ AllFinished /\ (error \/ (next = main /\ nextRun = Runs))

Out == Replaces /\ Gathers /\ Separates
IInv ==
  /\ Typed /\ Ordered /\ Fresh /\ Counted /\ Streams
  /\ Out /\ Kept /\ Progress /\ AllDelivered


USE DeliveryAssumption DEF DeliveryAssumption

-----------------------------------------------------------------------------
(* Sequences of plots. *)

\* A prefix, position by position.
LEMMA PrefixIs ==
  ASSUME NEW s \in Seq(Int), NEW t \in Seq(Int)
  PROVE  IsPrefix(s, t) <=> Len(s) <= Len(t) /\ \A i \in 1..Len(s) : s[i] = t[i]
<1>1. ASSUME Len(s) <= Len(t)
      PROVE  SubSeq(s, 1, Len(s)) = SubSeq(t, 1, Len(s)) <=> \A i \in 1..Len(s) : s[i] = t[i]
  <2>1. Len(SubSeq(t, 1, Len(s))) = Len(s) /\ SubSeq(t, 1, Len(s)) \in Seq(Int)
    BY <1>1
  <2>2. \A i \in 1..Len(s) : SubSeq(t, 1, Len(s))[i] = t[i]
    BY <1>1
  <2>3. SubSeq(s, 1, Len(s)) = s
    OBVIOUS
  <2> QED
    BY <2>1, <2>2, <2>3
<1> QED
  BY <1>1 DEF IsPrefix

\* What an append adds, keeps and extends.
LEMMA AppendIs ==
  ASSUME NEW s \in Seq(Int), NEW p \in Int
  PROVE  /\ Append(s, p) \in Seq(Int)
         /\ ToSet(Append(s, p)) = ToSet(s) \union {p}
         /\ IsPrefix(s, Append(s, p))
<1>1. /\ Append(s, p) \in Seq(Int) /\ Len(Append(s, p)) = Len(s) + 1
      /\ DOMAIN Append(s, p) = 1..(Len(s) + 1) /\ DOMAIN s = 1..Len(s)
      /\ \A i \in 1..Len(s) : Append(s, p)[i] = s[i]
      /\ Append(s, p)[Len(s) + 1] = p
  OBVIOUS
<1>2. ToSet(Append(s, p)) = ToSet(s) \union {p}
  BY <1>1 DEF ToSet
<1> DEFINE t == Append(s, p)
<1>3. t \in Seq(Int) /\ Len(s) <= Len(t) /\ \A i \in 1..Len(s) : s[i] = t[i]
  BY <1>1
<1> HIDE DEF t
<1>4. IsPrefix(s, t)
  BY <1>3, PrefixIs
<1> QED
  BY <1>1, <1>2, <1>4 DEF t

LEMMA PrefixesChain ==
  ASSUME NEW s \in Seq(Int), NEW t \in Seq(Int), NEW p \in Int, IsPrefix(s, t)
  PROVE  IsPrefix(s, Append(t, p)) /\ ToSet(s) \subseteq ToSet(t)
<1>1. Len(s) <= Len(t) /\ \A i \in 1..Len(s) : s[i] = t[i]
  BY PrefixIs
<1>2. Append(t, p) \in Seq(Int) /\ Len(Append(t, p)) = Len(t) + 1
      /\ \A i \in 1..Len(t) : Append(t, p)[i] = t[i]
  OBVIOUS
<1> DEFINE u == Append(t, p)
<1>3. u \in Seq(Int) /\ Len(s) <= Len(u) /\ \A i \in 1..Len(s) : s[i] = u[i]
  BY <1>1, <1>2
<1> HIDE DEF u
<1>4. IsPrefix(s, u)
  BY <1>3, PrefixIs
<1> QED
  BY <1>1, <1>4 DEF ToSet, u

\* Plots that come in order stay so with one that is ahead of its kind.
LEMMA SoundAppend ==
  ASSUME NEW s \in Seq(Int), Sound(s), NEW p \in Plot,
         \A q \in ToSet(s) : (q \in RunQ <=> p \in RunQ) => q < p
  PROVE  Sound(Append(s, p))
<1>1. Plot \subseteq Int
  BY DEF Plot, Query, Main, RunQ, Table
<1>2. ToSet(Append(s, p)) \subseteq Plot
  BY <1>1, AppendIs DEF Sound
<1>3. /\ DOMAIN Append(s, p) = 1..(Len(s) + 1) /\ DOMAIN s = 1..Len(s)
      /\ \A i \in 1..Len(s) : Append(s, p)[i] = s[i]
      /\ Append(s, p)[Len(s) + 1] = p
  BY <1>1
<1>4. \A i \in 1..Len(s) : s[i] \in ToSet(s)
  BY DEF ToSet
<1>5. InOrder(Append(s, p))
  BY <1>3, <1>4 DEF Sound, InOrder
<1> QED
  BY <1>2, <1>5 DEF Sound

LEMMA SoundOne ==
  ASSUME NEW p \in Plot
  PROVE  <<p>> \in Seq(Int) /\ Sound(<<p>>) /\ ToSet(<<p>>) = {p} /\ <<p>> # <<Old>>
BY DEF Plot, Query, Main, RunQ, Table, Old, Sound, ToSet, InOrder

LEMMA SoundNone == <<>> \in Seq(Int) /\ Sound(<<>>) /\ ToSet(<<>>) = {}
BY DEF Sound, ToSet, InOrder

-----------------------------------------------------------------------------
(* One plot. *)

\* A query that was passed over stays so.
LEMMA SumGrows ==
  ASSUME NEW q \in Int, NEW m \in Int, NEW x \in Int, NEW y \in Int, x <= y
  PROVE  (q <= x => q <= y) /\ (q <= m + x => q <= m + y)
OBVIOUS

LEMMA PastGrows ==
  ASSUME Typed, Typed', next <= next', nextRun <= nextRun', NEW q \in Query, Past(q)
  PROVE  Past(q)'
<1>1. next \in Int /\ next' \in Int /\ nextRun \in Int /\ nextRun' \in Int
  BY DEF Typed, OutTyped
<1>2. MaxMain \in Int /\ q \in Int
  BY DEF Query, Main, RunQ
<1> QED
  BY <1>1, <1>2, SumGrows DEF Past

\* A step that writes nothing.
LEMMA OutStays ==
  ASSUME Typed, Typed', Out, UNCHANGED <<sel, disk, pending, published, failed>>,
         next <= next', nextRun <= nextRun', error => error', pc = "gone" => pc' = "gone"
  PROVE  Out'
<1>1. \A q \in Query : Past(q) => Past(q)'
  BY PastGrows
<1>2. \A s : Sound(s) /\ Behind(s) => Behind(s)'
  BY <1>1 DEF Sound, Behind, Plot
<1>3. Replaces'
  BY <1>2 DEF Out, Replaces, Concatenates, Regular, Sound, Typed, OutTyped
<1>4. Gathers'
  BY <1>2 DEF Out, Gathers, Concatenates, Regular, Sound, Typed, OutTyped
<1>5. Separates'
  BY DEF Out, Separates, Concatenates, Regular
<1> QED
  BY <1>3, <1>4, <1>5 DEF Out


\* Plot p comes after everything that was passed over.
Ahead(p) ==
  /\ p \in Plot
  /\ IF p = Table THEN ~MayDeliver ELSE MayDeliver /\ ~Past(p)

LEMMA AheadIsLater ==
  ASSUME Typed, NEW p, p # Table, Ahead(p), NEW s \in Seq(Int), Sound(s), Behind(s)
  PROVE  Sound(Append(s, p))
<1>1. Plot \subseteq Int /\ Table \in Int /\ MaxMain \in Int
  BY DEF Plot, Query, Main, RunQ, Table
<1>2. ToSet(s) \subseteq Plot
  BY DEF Sound
<1>3. \A q \in Query : q \in Int /\ q > Table /\ (q \in Main <=> q <= MaxMain) /\ (q \in RunQ <=> q > MaxMain)
  BY DEF Query, Main, RunQ, Table
<1>4. Table \notin RunQ /\ Table \notin Main
  BY DEF RunQ, Main, Table
<1>5. next \in Int /\ nextRun \in Int
  BY DEF Typed, OutTyped
<1>6. p \in Query /\ ~Past(p)
  BY DEF Ahead, Plot
<1>7. ASSUME NEW q \in ToSet(s), q \in RunQ <=> p \in RunQ PROVE q < p
  <2>1. CASE q = Table
    BY <1>3, <1>6, <2>1
  <2>2. CASE q # Table
    <3>1. q \in Query /\ Past(q)
      BY <1>2, <2>2 DEF Plot, Behind
    <3>2. CASE q \in Main
      <4>1. p \in Main
        BY <1>6, <1>7, <3>1, <3>2, <1>3
      <4> QED
        BY <4>1, <3>1, <3>2, <1>6, <1>3, <1>5 DEF Past
    <3>3. CASE q \notin Main
      <4>1. p \notin Main
        BY <1>6, <1>7, <3>1, <3>3, <1>3
      <4>2. q <= MaxMain + nextRun /\ ~(p <= MaxMain + nextRun)
        BY <4>1, <3>1, <3>3, <1>6 DEF Past
      <4>3. q \in Int /\ p \in Int
        BY <3>1, <1>6, <1>3
      <4> QED
        BY <4>2, <4>3, <1>1, <1>5
    <3> QED
      BY <3>2, <3>3
  <2> QED
    BY <2>1, <2>2
<1>8. p \in Plot
  BY <1>6 DEF Plot
<1> QED
  BY <1>7, <1>8, SoundAppend

\* What the next plot of a regular file that holds several is appended to.
LEMMA ReplacementIs ==
  ASSUME Typed, Out, Concatenates, Regular(1), ~failed, pc # "gone"
  PROVE  /\ Replacement \in Seq(Int) /\ Sound(Replacement) /\ (~error => Behind(Replacement))
         /\ disk[1] = <<Old>> \/ IsPrefix(disk[1], Replacement)
         /\ \A s \in pending : s = Replacement
<1>0. 1 \in Files
  BY DEF Files
<1>1. CASE pending # {}
  <2>1. Replacement \in pending
    BY <1>1 DEF Replacement
  <2> QED
    BY <2>1 DEF Out, Replaces, Typed, OutTyped
<1>2. CASE pending = {} /\ published # 0
  <2>1. Replacement = disk[1] /\ disk[1] \in Seq(Int)
    BY <1>0, <1>2 DEF Replacement, Keep, Typed, OutTyped
  <2>2. Sound(disk[1]) /\ (~error => Behind(disk[1]))
    BY <1>2 DEF Out, Gathers
  <2>3. IsPrefix(disk[1], disk[1])
    BY <2>1, PrefixIs
  <2> QED
    BY <1>2, <2>1, <2>2, <2>3
<1>3. CASE pending = {} /\ published = 0
  <2>1. Replacement = <<>> /\ disk[1] = <<Old>>
    BY <1>3 DEF Replacement, Keep, Out, Gathers
  <2>2. Behind(<<>>)
    BY SoundNone DEF Behind
  <2> QED
    BY <1>3, <2>1, <2>2, SoundNone
<1> QED
  BY <1>1, <1>2, <1>3


LEMMA ReplacementGrows ==
  ASSUME Typed, Fresh, Out, Concatenates, Regular(1), ~failed, ~error, pc # "gone",
         NEW p, Ahead(p), NEW s, s = Append(Replacement, p)
  PROVE  /\ s \in Seq(Int) /\ Sound(s)
         /\ ToSet(s) = ToSet(Replacement) \union {p}
         /\ \A q \in ToSet(s) \ {Table} : q = p \/ Past(q)
         /\ disk[1] = <<Old>> \/ IsPrefix(disk[1], s)
<1>1. p \in Plot /\ p \in Int
  BY DEF Ahead, Plot, Query, Main, RunQ, Table
<1>2. 1 \in Files /\ disk[1] \in Seq(Int)
  BY DEF Files, Typed, OutTyped
<1>3. /\ s \in Seq(Int) /\ ToSet(s) = ToSet(Replacement) \union {p}
      /\ disk[1] = <<Old>> \/ IsPrefix(disk[1], s)
  BY <1>1, <1>2, ReplacementIs, AppendIs, PrefixesChain
<1>4. Sound(s)
  <2>1. CASE p = Table
    <3>1. Replacement = <<>>
      BY <2>1 DEF Ahead, Fresh, Replacement, Keep
    <3>2. \A q \in ToSet(<<>>) : FALSE
      BY SoundNone
    <3> QED
      BY <1>1, <3>1, <3>2, SoundNone, SoundAppend
  <2>2. CASE p # Table
    BY <2>2, ReplacementIs, AheadIsLater
  <2> QED
    BY <2>1, <2>2
<1> QED
  BY <1>3, <1>4, ReplacementIs DEF Behind

\* A plot that is ahead of what was delivered leaves the files whole.
LEMMA DeliverOut ==
  ASSUME Typed, Typed', Fresh, Out, ~failed, ~error, pc # "gone",
         NEW p, Ahead(p), Deliver(p), published' = published + 1, UNCHANGED <<sel, failed>>,
         next <= next', nextRun <= nextRun', error' \/ p = Table \/ Past(p)'
  PROVE  Out'
<1>0. 1 \in Files /\ Table \in Int /\ p \in Plot /\ published \in Nat
  BY DEF Files, Table, Typed, OutTyped, Ahead
<1>1. \A q \in Query : Past(q) => Past(q)'
  BY PastGrows
<1>2. \A s : Sound(s) /\ Behind(s) => Behind(s)'
  BY <1>1 DEF Sound, Behind, Plot
<1>3. UNCHANGED sel /\ published' # 0 /\ ~failed'
  BY <1>0
<1>4. CASE sel.dest = "none"
  <2>1. \A f \in Files : ~Regular(f) /\ ~Regular(f)'
    BY <1>3, <1>4 DEF Regular
  <2>2. UNCHANGED <<disk, pending>> /\ pending = {}
    BY <1>0, <1>4, <2>1 DEF Deliver, Out, Replaces
  <2> QED
    BY <1>0, <1>3, <2>1, <2>2 DEF Out, Replaces, Gathers, Separates, Concatenates
<1>5. CASE sel.dest # "none" /\ Concatenates /\ Regular(1)
  <2>0. PICK s : s = Append(Replacement, p)
    OBVIOUS
  <2>1. pending' = {s} /\ UNCHANGED disk
    BY <1>5, <2>0 DEF Deliver
  <2>2. /\ Sound(s)
        /\ disk[1] = <<Old>> \/ IsPrefix(disk[1], s)
        /\ \A q \in ToSet(s) \ {Table} : q = p \/ Past(q)
    BY <1>5, <2>0, ReplacementGrows
  <2>3. ~error' => Behind(s)'
    BY <1>1, <2>2 DEF Behind, Sound, Plot
  <2>4. Concatenates' /\ Regular(1)'
    BY <1>3, <1>5 DEF Concatenates, Regular
  <2>5. Replaces'
    BY <2>1, <2>2, <2>3, <2>4 DEF Replaces
  <2>6. Gathers' /\ Separates'
    BY <1>2, <1>3, <1>5, <2>1, <2>4 DEF Out, Gathers, Separates
  <2> QED
    BY <2>5, <2>6 DEF Out
<1>6. CASE sel.dest # "none" /\ Concatenates /\ ~Regular(1)
  <2>1. pending' = pending /\ disk' = [disk EXCEPT ![1] = Append(@, p)] /\ pending = {}
    BY <1>6 DEF Deliver, Out, Replaces
  <2>2. \A f \in Files \ {1} : disk'[f] = <<>>
    BY <1>6, <2>1 DEF Out, Gathers, Typed, OutTyped
  <2>3. Concatenates' /\ ~Regular(1)'
    BY <1>3, <1>6 DEF Concatenates, Regular
  <2> QED
    BY <2>1, <2>2, <2>3 DEF Out, Replaces, Gathers, Separates
<1>7. CASE sel.dest # "none" /\ ~Concatenates
  <2> DEFINE e == published + 1
  <2>1. disk' = [disk EXCEPT ![e] = IF Regular(e) THEN <<p>> ELSE Append(@, p)]
        /\ pending' = pending /\ pending = {}
    BY <1>7 DEF Deliver, Out, Replaces
  <2>2. ~Concatenates'
    BY <1>3, <1>7 DEF Concatenates
  <2>3. ASSUME NEW f \in Files, Regular(f)'
        PROVE  disk'[f] \in {<<>>, <<Old>>} \/ (f <= published' /\ \E q \in Plot : disk'[f] = <<q>>)
    <3>1. Regular(f) /\ f \in Int
      BY <1>3, <2>3 DEF Regular, Files
    <3>2. CASE f = e
      <4>1. disk'[f] = <<p>>
        BY <2>1, <3>1, <3>2 DEF Typed, OutTyped
      <4> QED
        BY <1>0, <3>2, <4>1
    <3>3. CASE f # e
      <4>1. disk'[f] = disk[f]
        BY <2>1, <3>3 DEF Typed, OutTyped
      <4> QED
        BY <1>0, <1>7, <3>1, <4>1 DEF Out, Separates
    <3> QED
      BY <3>2, <3>3
  <2>4. Separates'
    BY <2>3 DEF Separates
  <2> QED
    BY <2>1, <2>2, <2>4 DEF Out, Replaces, Gathers
<1> QED
  BY <1>4, <1>5, <1>6, <1>7

\* A failed write leaves the destination as it was.
LEMMA TornOut ==
  ASSUME Typed, Typed', Out, ~failed, pc # "gone", NEW p,
         DeliverFails(p), failed', UNCHANGED <<sel, published>>,
         next <= next', nextRun <= nextRun', error => error'
  PROVE  Out'
<1>0. 1 \in Files
  BY DEF Files
<1>1. \A q \in Query : Past(q) => Past(q)'
  BY PastGrows
<1>2. \A s : Sound(s) /\ Behind(s) => Behind(s)'
  BY <1>1 DEF Sound, Behind, Plot
<1>3. \A f \in Files : Regular(f)' <=> Regular(f)
  BY DEF Regular
<1>4. Concatenates' <=> Concatenates
  BY DEF Concatenates
<1>5. CASE UNCHANGED <<disk, pending>>
  BY <1>0, <1>2, <1>3, <1>4, <1>5 DEF Out, Replaces, Gathers, Separates
<1>6. CASE Concatenates /\ Regular(1) /\ Deliver(Torn)
  <2> DEFINE s == Append(Replacement, Torn)
  <2>1. pending' = {s} /\ UNCHANGED disk
    BY <1>6 DEF Deliver, DeliverFails
  <2>2. disk[1] = <<Old>> \/ IsPrefix(disk[1], s)
    BY <1>0, <1>6, ReplacementIs, PrefixesChain DEF Torn, Typed, OutTyped
  <2> HIDE DEF s
  <2> QED
    BY <1>0, <1>2, <1>3, <1>4, <1>6, <2>1, <2>2 DEF Out, Replaces, Gathers, Separates
<1>7. CASE Concatenates /\ ~Regular(1) /\ Deliver(Torn)
  <2>1. pending' = pending /\ disk' = [disk EXCEPT ![1] = Append(@, Torn)] /\ pending = {}
    BY <1>7 DEF Deliver, DeliverFails, Out, Replaces
  <2>2. \A f \in Files \ {1} : disk'[f] = <<>>
    BY <1>7, <2>1 DEF Out, Gathers, Typed, OutTyped
  <2> QED
    BY <1>0, <1>3, <1>4, <1>7, <2>1, <2>2 DEF Out, Replaces, Gathers, Separates
<1>8. CASE ~Concatenates /\ ~Regular(published + 1) /\ Deliver(Torn)
  <2> DEFINE e == published + 1
  <2>1. disk' = [disk EXCEPT ![e] = IF Regular(e) THEN <<Torn>> ELSE Append(@, Torn)]
        /\ pending' = pending /\ pending = {}
    BY <1>8 DEF Deliver, DeliverFails, Out, Replaces
  <2>2. ASSUME NEW f \in Files, Regular(f) PROVE disk'[f] = disk[f]
    BY <1>8, <2>1, <2>2 DEF Typed, OutTyped
  <2> QED
    BY <1>3, <1>4, <1>8, <2>1, <2>2 DEF Out, Replaces, Gathers, Separates
<1> QED
  BY <1>5, <1>6, <1>7, <1>8 DEF DeliverFails

\* A write, whole or torn, loses nothing that was delivered.
LEMMA DeliverKeeps ==
  ASSUME Typed, Out, ~failed, pc # "gone", sel.dest # "none",
         published + 1 \in Files, NEW p \in Int, Deliver(p)
  PROVE  /\ \A q \in Query : Somewhere(q) => Somewhere(q)'
         /\ p \in Query => Somewhere(p)'

<1>0. 1 \in Files
  BY DEF Files
<1>1. \A q : q \in Written <=> \E f \in Files : q \in ToSet(disk[f])
  BY DEF Written
<1>2. \A q : q \in Written' <=> \E f \in Files : q \in ToSet(disk'[f])
  BY DEF Written
<1>3. CASE Concatenates /\ Regular(1)
  <2>0. PICK s : s = Append(Replacement, p)
    OBVIOUS
  <2>1. pending' = {s} /\ UNCHANGED disk
    BY <1>3, <2>0 DEF Deliver
  <2>2. ToSet(s) = ToSet(Replacement) \union {p}
    BY <1>3, <2>0, ReplacementIs, AppendIs
  <2>3. \A t \in pending : t = Replacement
    BY <1>3, ReplacementIs
  <2> QED
    BY <1>1, <1>2, <2>1, <2>2, <2>3 DEF Somewhere
<1>4. CASE Concatenates /\ ~Regular(1)
  <2>1. /\ pending' = pending
        /\ disk' = [disk EXCEPT ![1] = Append(@, p)]
    BY <1>4 DEF Deliver
  <2>2. ToSet(disk'[1]) = ToSet(disk[1]) \union {p} /\ \A f \in Files \ {1} : disk'[f] = disk[f]
    BY <1>0, <2>1, AppendIs DEF Typed, OutTyped
  <2> QED
    BY <1>0, <1>1, <1>2, <2>1, <2>2 DEF Somewhere
<1>5. CASE ~Concatenates
  <2> DEFINE e == published + 1
  <2>1. /\ pending' = pending /\ pending = {}
        /\ disk' = [disk EXCEPT ![e] = IF Regular(e) THEN <<p>> ELSE Append(@, p)]
    BY <1>5 DEF Deliver, Out, Replaces
  <2>2. e \in Files
    OBVIOUS
  <2>3. CASE Regular(e)
    <3>1. disk[e] \in {<<>>, <<Old>>}
      BY <1>5, <2>2, <2>3 DEF Out, Separates, Typed, OutTyped
    <3>2. \A q \in Query : q \notin ToSet(disk[e])
      BY <3>1 DEF ToSet, Old, Query, Main, RunQ
    <3>3. disk'[e] = <<p>> /\ \A f \in Files \ {e} : disk'[f] = disk[f]
      BY <2>1, <2>2, <2>3 DEF Typed, OutTyped
    <3>4. p \in ToSet(<<p>>)
      BY DEF ToSet
    <3> QED
      BY <1>1, <1>2, <2>1, <2>2, <3>2, <3>3, <3>4 DEF Somewhere
  <2>4. CASE ~Regular(e)
    <3>1. ToSet(disk'[e]) = ToSet(disk[e]) \union {p} /\ \A f \in Files \ {e} : disk'[f] = disk[f]
      BY <2>1, <2>2, <2>4, AppendIs DEF Typed, OutTyped
    <3> QED
      BY <1>1, <1>2, <2>1, <2>2, <3>1 DEF Somewhere
  <2> QED
    BY <2>3, <2>4
<1> QED
  BY <1>3, <1>4, <1>5

-----------------------------------------------------------------------------
(* The types. *)

LEMMA DeliverTyped ==
  ASSUME Typed, NEW p \in Int, Deliver(p)
  PROVE  disk' \in [Files -> Seq(Int)] /\ pending' \in SUBSET Seq(Int)
<1>0. 1 \in Files /\ <<p>> \in Seq(Int) /\ <<>> \in Seq(Int)
  BY DEF Files
<1>1. Replacement \in Seq(Int)
  BY <1>0 DEF Replacement, Typed, OutTyped
<1>2. Append(Replacement, p) \in Seq(Int) /\ \A f \in Files : Append(disk[f], p) \in Seq(Int)
  BY <1>1, AppendIs DEF Typed, OutTyped
<1>3. CASE UNCHANGED <<disk, pending>>
  BY <1>3 DEF Typed, OutTyped
<1>4. CASE pending' = {Append(Replacement, p)} /\ UNCHANGED disk
  BY <1>2, <1>4 DEF Typed, OutTyped
<1>5. CASE disk' = [disk EXCEPT ![1] = Append(@, p)] /\ UNCHANGED pending
  BY <1>0, <1>2, <1>5 DEF Typed, OutTyped
<1>6. ASSUME NEW e, UNCHANGED pending,
             disk' = [disk EXCEPT ![e] = IF Regular(e) THEN <<p>> ELSE Append(@, p)]
      PROVE  disk' \in [Files -> Seq(Int)] /\ pending' \in SUBSET Seq(Int)
  <2>1. CASE e \in Files
    BY <1>0, <1>2, <1>6, <2>1 DEF Typed, OutTyped
  <2>2. CASE e \notin Files
    BY <1>6, <2>2 DEF Typed, OutTyped
  <2> QED
    BY <2>1, <2>2
<1> QED
  BY <1>3, <1>4, <1>5, <1>6 DEF Deliver

\* The query the delivery comes to next, and what passing it over does.
LEMMA UpcomingIs ==
  ASSUME Typed, Upcoming # 0
  PROVE  /\ Upcoming \in Query /\ Upcoming \in Int /\ Upcoming # Table
         /\ ~Past(Upcoming)
         /\ \/ Upcoming \in Main /\ Upcoming = next + 1 /\ next < main
            \/ /\ Upcoming \notin Main /\ Upcoming = MaxMain + nextRun + 1
               /\ next = main /\ nextRun < Runs /\ call = "run_all"
<1>1. /\ next \in Nat /\ nextRun \in Nat /\ main \in Nat /\ main >= 1 /\ main <= MaxMain
      /\ next <= main /\ nextRun <= Runs /\ MaxMain \in Nat /\ Runs \in Nat
  BY DEF Typed, OutTyped, Main
<1>2. CASE next < main
  <2>1. Upcoming = next + 1
    BY <1>2 DEF Upcoming
  <2> QED
    BY <1>1, <1>2, <2>1 DEF Query, Main, Past, Table
<1>3. CASE ~(next < main)
  <2>1. Upcoming = MaxMain + nextRun + 1 /\ nextRun < Runs /\ call = "run_all"
    BY <1>3 DEF Upcoming
  <2>2. next = main
    BY <1>1, <1>3
  <2> QED
    BY <1>1, <2>1, <2>2 DEF Query, Main, RunQ, Past, Table
<1> QED
  BY <1>2, <1>3

LEMMA PassedIs ==
  ASSUME Typed, Upcoming # 0, NEW u, u = Upcoming, Passed(u)
  PROVE  /\ next' \in Nat /\ next' <= main /\ nextRun' \in Nat /\ nextRun' <= Runs
         /\ next <= next' /\ nextRun <= nextRun'
         /\ next' + nextRun' = next + nextRun + 1
         /\ nextRun' > 0 => next' > 0
         /\ Past(u)' /\ \A q \in Query : Past(q)' => Past(q) \/ q = u
<1>1. /\ next \in Nat /\ nextRun \in Nat /\ main \in Nat /\ main >= 1 /\ main <= MaxMain
      /\ next <= main /\ nextRun <= Runs /\ MaxMain \in Nat /\ Runs \in Nat
  BY DEF Typed, Main
<1>2. CASE u \in Main /\ u = next + 1 /\ next < main
  <2>1. next' = next + 1 /\ nextRun' = nextRun
    BY <1>2 DEF Passed
  <2>2. ASSUME NEW q \in Query, Past(q)' PROVE Past(q) \/ q = u
    BY <1>1, <1>2, <2>1, <2>2 DEF Past, Query, Main, RunQ
  <2>3. Past(u)'
    BY <1>1, <1>2, <2>1 DEF Past
  <2> QED
    BY <1>1, <1>2, <2>1, <2>2, <2>3
<1>3. CASE u \notin Main /\ u = MaxMain + nextRun + 1 /\ next = main /\ nextRun < Runs
  <2>1. next' = next /\ nextRun' = nextRun + 1
    BY <1>3 DEF Passed
  <2>2. ASSUME NEW q \in Query, Past(q)' PROVE Past(q) \/ q = u
    BY <1>1, <1>3, <2>1, <2>2 DEF Past, Query, Main, RunQ
  <2>3. Past(u)'
    BY <1>1, <1>3, <2>1 DEF Past
  <2> QED
    BY <1>1, <1>3, <2>1, <2>2, <2>3
<1> QED
  BY <1>2, <1>3, UpcomingIs

LEMMA PublishTyped ==
  ASSUME Typed, NEW p \in Int, Publish(p) \/ PublishFails(p)
  PROVE  OutTyped'
<1>1. CASE Publish(p)
  BY <1>1, DeliverTyped DEF Publish, Typed, OutTyped
<1>2. CASE UNCHANGED outVars
  BY <1>2 DEF outVars, Typed, OutTyped
<1>3. CASE failed' = TRUE /\ DeliverFails(p) /\ UNCHANGED <<stream, published>>
  <2>1. Torn \in Int
    BY DEF Torn
  <2>2. UNCHANGED <<disk, pending>> \/ Deliver(Torn)
    BY <1>3 DEF DeliverFails
  <2>3. disk' \in [Files -> Seq(Int)] /\ pending' \in SUBSET Seq(Int)
    BY <2>1, <2>2, DeliverTyped DEF Typed, OutTyped
  <2> QED
    BY <1>3, <2>3 DEF Typed, OutTyped
<1> QED
  BY <1>1, <1>2, <1>3 DEF PublishFails

LEMMA TypeStep == Typed /\ [Next]_vars => Typed'
<1> SUFFICES ASSUME Typed, [Next]_vars PROVE Typed'
  OBVIOUS
<1> USE DEF Typed, Return, GoTo
<1>1. CASE UNCHANGED vars
  BY <1>1 DEF vars, problemVars, outVars, callVars, OutTyped
<1>2. CASE AppendQuery
  BY <1>2 DEF AppendQuery, outVars, Main, OutTyped
<1>3. CASE Destroy
  BY <1>3 DEF Destroy, problemVars, OutTyped
<1>4. CASE Call
  BY <1>4 DEF Call, problemVars, outVars, OutTyped
<1>5. ASSUME NEW q \in Main, ReleaseQuery(q) PROVE Typed'
  BY <1>5 DEF ReleaseQuery, outVars, callVars, OutTyped
<1>6. CASE Age
  <2>1. Table \in Int
    BY DEF Table
  <2>2. Publish(Table) \/ PublishFails(Table) \/ UNCHANGED outVars => OutTyped'
    BY <2>1, PublishTyped DEF outVars, OutTyped
  <2>3. OutTyped'
    BY <1>6, <2>2 DEF Age
  <2> QED
    BY <1>6, <2>3 DEF Age, AfterAge
<1>7. CASE Open
  BY <1>7 DEF Open, OutTyped
<1>8. CASE NotRun
  BY <1>8 DEF NotRun, problemVars, outVars, OutTyped
<1>9. CASE Run
  BY <1>9 DEF Run, outVars, OutTyped
<1>10. CASE DeliverOne
  <2>0. Upcoming # 0
    BY <1>10 DEF DeliverOne, DeliveryRests
  <2>1. Upcoming \in Int /\ <<1>> \in Seq(Int)
    BY <2>0, UpcomingIs
  <2>2. Publish(Upcoming) \/ PublishFails(Upcoming) => OutTyped'
    BY <2>1, PublishTyped
  <2>3. EndStream \/ EndStreamFails \/ AbortStream \/ UNCHANGED outVars => OutTyped'
    <3>1. ASSUME EndStream PROVE OutTyped'
      <4>1. pending' \in SUBSET Seq(Int)
        BY <2>1, <3>1 DEF EndStream
      <4>2. /\ disk' = disk /\ disk \in [Files -> Seq(Int)] /\ stream' = FALSE
            /\ published' \in Nat /\ failed' = failed /\ failed \in BOOLEAN
        BY <3>1 DEF EndStream, OutTyped
      <4> QED
        BY <4>1, <4>2 DEF OutTyped
    <3>2. EndStreamFails => OutTyped'
      BY DEF EndStreamFails, OutTyped
    <3>3. AbortStream \/ UNCHANGED outVars => OutTyped'
      BY DEF AbortStream, outVars, OutTyped
    <3> QED
      BY <3>1, <3>2, <3>3
  <2>4. OutTyped'
    BY <1>10, <2>2, <2>3 DEF DeliverOne
  <2>5. Passed(Upcoming) =>
          next' \in Nat /\ next' <= main /\ nextRun' \in Nat /\ nextRun' <= Runs
    BY <2>0, PassedIs
  <2> QED
    BY <1>10, <2>4, <2>5 DEF DeliverOne, callVars
<1>11. CASE Delivered
  BY <1>11 DEF Delivered, problemVars, outVars, OutTyped
<1>12. CASE FinishWhenDone \/ Check
  <2>1. Finish \/ FinishFails \/ UNCHANGED outVars => OutTyped'
    <3>1. ASSUME Finish PROVE OutTyped'
      <4>1. pending # {} => (CHOOSE s \in pending : TRUE) \in Seq(Int)
        BY DEF OutTyped
      <4> QED
        BY <3>1, <4>1 DEF Finish, OutTyped
    <3> QED
      BY <3>1 DEF FinishFails, outVars, OutTyped
  <2>2. ASSUME NEW ok, NEW bad, FinishOr(ok, bad)
        PROVE  (Finish \/ FinishFails) /\ error' \in BOOLEAN /\ pc' = "idle" /\ UNCHANGED call
    BY <2>2 DEF FinishOr
  <2> QED
    BY <1>12, <2>1, <2>2 DEF FinishWhenDone, Check, outVars
<1> QED
  BY <1>1, <1>2, <1>3, <1>4, <1>5, <1>6, <1>7, <1>8, <1>9, <1>10, <1>11, <1>12 DEF Next


-----------------------------------------------------------------------------
(* The order of the delivery. *)

\* Main plots come first, and only ended queries are passed over.
LEMMA OrderedStep == Typed /\ Ordered /\ [Next]_vars => Ordered'
<1> SUFFICES ASSUME Typed, Ordered, [Next]_vars PROVE Ordered'
  OBVIOUS
<1>1. Typed'
  BY TypeStep
<1>2. CASE UNCHANGED <<status, next, nextRun>>
  BY <1>2 DEF Ordered, Past, Ended
<1>3. CASE Run
  <2>1. UNCHANGED <<next, nextRun>> /\ \A q \in Query : Ended(q) => Ended(q)'
    BY <1>3 DEF Run, Ended
  <2>2. \A q \in Query : Past(q)' => Past(q)
    BY <2>1 DEF Past
  <2> QED
    BY <2>1, <2>2 DEF Ordered
<1>4. CASE DeliverOne /\ Passed(Upcoming)
  <2>1. PICK u : u = Upcoming
    OBVIOUS
  <2>2. Upcoming # 0 /\ Ended(u) /\ UNCHANGED status
    BY <1>4, <2>1 DEF DeliverOne, DeliveryRests, WaitsFor
  <2>3. /\ nextRun' > 0 => next' > 0
        /\ \A q \in Query : Past(q)' => Past(q) \/ q = u
    BY <1>4, <2>1, <2>2, PassedIs
  <2>4. \A q \in Query : Past(q)' => Ended(q)'
    BY <2>2, <2>3 DEF Ordered, Ended
  <2> QED
    BY <2>3, <2>4 DEF Ordered
<1> QED
  BY <1>2, <1>3, <1>4
     DEF Next, vars, problemVars, AppendQuery, Destroy, Call, ReleaseQuery, Age, Open, NotRun,
         DeliverOne, Delivered, FinishWhenDone, Check

\* Until the stress run nothing has been written.
LEMMA FreshStep == Typed /\ Fresh /\ [Next]_vars => Fresh'
<1> SUFFICES ASSUME Typed, Fresh, [Next]_vars PROVE Fresh'
  OBVIOUS
<1> USE DEF Fresh, MayDeliver
<1>1. CASE UNCHANGED vars
  BY <1>1 DEF vars, problemVars, outVars, callVars
<1>2. CASE AppendQuery \/ Destroy \/ Call \/ \E q \in Main : ReleaseQuery(q)
  BY <1>2 DEF AppendQuery, Destroy, Call, ReleaseQuery, problemVars, outVars, callVars
<1>3. CASE Age
  BY <1>3 DEF Age, AfterAge, GoTo, Return, outVars, Typed
<1>4. CASE Open \/ NotRun \/ Run \/ DeliverOne \/ Delivered \/ FinishWhenDone \/ Check
  <2>1. MayDeliver
    BY <1>4 DEF Open, NotRun, Run, DeliverOne, Delivered, FinishWhenDone, Check
  <2>2. UNCHANGED <<sel, aged>>
    BY <1>4 DEF Open, NotRun, Run, DeliverOne, Delivered, FinishWhenDone, Check, problemVars
  <2> QED
    BY <2>1, <2>2
<1> QED
  BY <1>1, <1>2, <1>3, <1>4 DEF Next

\* Each plot that is published is the table's, or of a query that is passed.
LEMMA CountGrows ==
  ASSUME NEW x \in Nat, NEW a \in Nat, NEW b \in Nat, NEW c \in Nat, NEW d \in Nat,
         NEW p \in Nat, NEW q \in Nat, q = p \/ q = p + 1,
         p <= x + a + b, c + d = a + b + 1
  PROVE  q <= x + c + d
OBVIOUS

LEMMA CountedStep == Typed /\ Ordered /\ Fresh /\ Counted /\ [Next]_vars => Counted'
<1> SUFFICES ASSUME Typed, Ordered, Fresh, Counted, [Next]_vars, ~error' PROVE Counted'
  BY DEF Counted
<1>1. CASE UNCHANGED <<aged, error, next, nextRun, published>>
  BY <1>1 DEF Counted
<1>2. CASE Age
  <2>1. CASE UNCHANGED <<aged, published>>
    BY <1>2, <2>1 DEF Age, Counted
  <2>2. CASE ~(UNCHANGED <<aged, published>>)
    <3>1. ~MayDeliver /\ aged' /\ published' \in {published, published + 1} /\ UNCHANGED <<next, nextRun>>
      BY <1>2, <2>2 DEF Age, MayDeliver, Publish, PublishFails, outVars
    <3>2. next' = 0 /\ nextRun' = 0 /\ published' \in {0, 1}
      BY <3>1 DEF Fresh, Ordered, Typed
    <3> QED
      BY <3>1, <3>2 DEF Counted
  <2> QED
    BY <2>1, <2>2
<1>3. CASE DeliverOne
  <2>1. Upcoming # 0 /\ ~error /\ UNCHANGED aged
    BY <1>3 DEF DeliverOne, DeliveryRests
  <2>2. Passed(Upcoming)
    BY <1>3 DEF DeliverOne
  <2>3. published' \in {published, published + 1}
    BY <1>3 DEF DeliverOne, outVars, EndStream, AbortStream, EndStreamFails, Publish, PublishFails
  <2>4. /\ next' + nextRun' = next + nextRun + 1 /\ published \in Nat
        /\ next \in Nat /\ nextRun \in Nat /\ next' \in Nat /\ nextRun' \in Nat
    BY <2>1, <2>2, PassedIs DEF Typed, OutTyped
  <2>5. PICK x \in Nat : x = IF aged THEN 1 ELSE 0
    OBVIOUS
  <2>6. published <= x + next + nextRun
    BY <2>1, <2>5 DEF Counted
  <2>7. PICK c \in Nat, d \in Nat, q \in Nat : c = next' /\ d = nextRun' /\ q = published'
    BY <2>3, <2>4
  <2>8. q = published \/ q = published + 1
    BY <2>3, <2>7
  <2>9. c + d = next + nextRun + 1
    BY <2>4, <2>7
  <2>10. q <= x + c + d
    BY <2>4, <2>6, <2>8, <2>9, CountGrows
  <2> QED
    BY <2>1, <2>5, <2>7, <2>10 DEF Counted
<1>4. CASE FinishWhenDone \/ Check
  <2>1. UNCHANGED <<aged, next, nextRun, published>> /\ (error => error')
    BY <1>4 DEF FinishWhenDone, Check, FinishOr, Finish, FinishFails, outVars
  <2> QED
    BY <2>1 DEF Counted
<1> QED
  BY <1>1, <1>2, <1>3, <1>4
     DEF Next, vars, problemVars, outVars, AppendQuery, Destroy, Call, ReleaseQuery, Open, NotRun, Run, Delivered


\* While the first query streams nothing else is written.
LEMMA StreamsStep == Typed /\ Ordered /\ Fresh /\ Streams /\ Out /\ [Next]_vars => Streams'
<1> SUFFICES ASSUME Typed, Ordered, Fresh, Streams, Out, [Next]_vars PROVE Streams'
  OBVIOUS
<1> USE DEF Streams
<1>1. CASE UNCHANGED <<sel, next, streaming, stream, published, pending>> /\ (pc = "gone" => pc' = "gone")
  BY <1>1
<1>2. CASE Destroy
  BY <1>2 DEF Destroy, problemVars
<1>3. CASE Age
  <2>1. UNCHANGED <<sel, next, streaming, stream>> /\ (pc # "gone")
    BY <1>3 DEF Age, Publish, PublishFails, outVars
  <2>2. CASE MayDeliver
    BY <1>3, <2>2 DEF Age, MayDeliver, outVars
  <2>3. CASE ~MayDeliver
    BY <2>1, <2>3 DEF Fresh
  <2> QED
    BY <2>2, <2>3
<1>4. CASE Open
  <2>1. UNCHANGED <<sel, next, published, pending>> /\ pc # "gone"
    BY <1>4 DEF Open
  <2>2. CASE UNCHANGED <<stream, streaming>>
    BY <2>1, <2>2
  <2>3. CASE MayStream /\ ~CannotStream /\ stream' = TRUE /\ streaming' = TRUE
    <3>1. next = 0 /\ published = 0 /\ ~failed /\ sel.format = "binary" /\ sel.dest # "device"
      BY <2>3 DEF MayStream, CannotStream
    <3>2. Regular(1) \/ sel.dest = "none"
      BY <3>1 DEF Regular, Typed
    <3>3. pending = {}
      BY <3>1, <3>2 DEF Out, Replaces, Gathers, Concatenates, Regular
    <3> QED
      BY <2>1, <2>3, <3>1, <3>3
  <2> QED
    BY <1>4, <2>2, <2>3 DEF Open
<1>5. CASE DeliverOne
  <2>1. PICK u : u = Upcoming
    OBVIOUS
  <2>2. Upcoming # 0 /\ UNCHANGED sel /\ pc # "gone"
    BY <1>5 DEF DeliverOne, DeliveryRests
  <2>3. next = 0 => u = 1
    BY <2>1, <2>2 DEF Upcoming, Typed, Main
  <2>4. next' # 0 \/ ~streaming' \/ (UNCHANGED <<next, published, pending>> /\ streaming)
    <3>1. CASE Passed(u)
      <4>1. next \in Nat /\ next' \in Nat /\ next' + nextRun' = next + nextRun + 1 /\ next <= next' /\ nextRun \in Nat
            /\ (nextRun' > 0 => next' > 0) /\ nextRun' \in Nat
        BY <2>1, <2>2, <3>1, PassedIs DEF Typed
      <4>2. PICK c \in Nat, d \in Nat : c = next' /\ d = nextRun'
        BY <4>1
      <4>3. c + d = next + nextRun + 1 /\ (d > 0 => c > 0)
        BY <4>1, <4>2
      <4>4. c # 0
        BY <4>1, <4>3
      <4> QED
        BY <4>2, <4>4
    <3>2. CASE ~Passed(u) /\ streaming /\ u = 1
      BY <1>5, <2>1, <3>2 DEF DeliverOne
    <3>3. CASE ~Passed(u) /\ streaming /\ u # 1
      <4>1. next # 0 /\ next' = next
        BY <1>5, <2>1, <2>3, <3>3 DEF DeliverOne
      <4> QED
        BY <4>1
    <3>4. CASE ~streaming
      BY <1>5, <3>4 DEF DeliverOne
    <3> QED
      BY <3>1, <3>2, <3>3, <3>4
  <2>5. (stream' <=> streaming') /\ (streaming' => streaming)
    BY <1>5, <2>2 DEF DeliverOne, outVars, EndStream, AbortStream, EndStreamFails, Publish, PublishFails, Typed, OutTyped
  <2> QED
    BY <2>2, <2>4, <2>5
<1>6. CASE FinishWhenDone \/ Check
  <2>1. UNCHANGED <<sel, next, streaming, stream, published>> /\ pc # "gone"
    BY <1>6 DEF FinishWhenDone, Check, FinishOr, Finish, FinishFails, outVars
  <2>2. pending' \in {{}, pending}
    BY <1>6 DEF FinishWhenDone, Check, FinishOr, Finish, FinishFails, outVars
  <2> QED
    BY <2>1, <2>2
<1> QED
  BY <1>1, <1>2, <1>3, <1>4, <1>5, <1>6
     DEF Next, vars, problemVars, outVars, callVars, AppendQuery, Call, ReleaseQuery, NotRun, Run, Delivered

-----------------------------------------------------------------------------
(* The files. *)

LEMMA SoundNotOld ==
  ASSUME NEW s, Sound(s)
  PROVE  s # <<Old>>
<1>1. Old \in ToSet(<<Old>>)
  BY DEF ToSet
<1>2. Old \notin Plot
  BY DEF Old, Plot, Query, Main, RunQ, Table
<1> QED
  BY <1>1, <1>2 DEF Sound

LEMMA PublishOut ==
  ASSUME Typed, Typed', Fresh, Out, ~error, pc # "gone",
         NEW p, Ahead(p), Publish(p) \/ PublishFails(p), UNCHANGED sel,
         next <= next', nextRun <= nextRun', pc' # "gone",
         error' \/ p = Table \/ Past(p)'
  PROVE  Out'
<1>1. CASE Publish(p)
  BY <1>1, DeliverOut DEF Publish
<1>2. CASE UNCHANGED outVars
  BY <1>2, OutStays DEF outVars
<1>3. CASE ~failed /\ DeliverFails(p) /\ failed' = TRUE /\ UNCHANGED <<stream, published>>
  BY <1>3, TornOut
<1> QED
  BY <1>1, <1>2, <1>3 DEF PublishFails

LEMMA EndStreamOut ==
  ASSUME Typed, Typed', Streams, Out, streaming, next = 0, ~error, pc # "gone",
         EndStream, UNCHANGED sel, Past(1)'
  PROVE  Out'
<1>1. published = 0 /\ pending = {} /\ Concatenates /\ sel.dest # "device"
  BY DEF Streams, Concatenates
<1>2. CASE sel.dest = "none"
  BY <1>1, <1>2 DEF EndStream, Out, Replaces, Gathers, Separates, Concatenates, Regular
<1>3. CASE sel.dest # "none"
  <2>1. pending' = {<<1>>} /\ published' # 0 /\ disk' = disk
    BY <1>1, <1>3 DEF EndStream
  <2>2. Concatenates' /\ Regular(1) /\ Regular(1)'
    BY <1>1, <1>3 DEF Concatenates, Regular, Typed
  <2>3. disk[1] = <<Old>>
    BY <1>1, <2>2 DEF Out, Gathers
  <2>4. 1 \in Plot /\ 1 # Table
    BY DEF Plot, Query, Main, Table
  <2>5. Sound(<<1>>) /\ ToSet(<<1>>) = {1}
    BY <2>4, SoundOne
  <2>6. Behind(<<1>>)'
    BY <2>5 DEF Behind
  <2>7. Replaces'
    BY <2>1, <2>2, <2>3, <2>5, <2>6 DEF Replaces
  <2> QED
    BY <1>1, <2>1, <2>2, <2>3, <2>7 DEF Out, Gathers, Separates
<1> QED
  BY <1>2, <1>3

LEMMA FinishOut ==
  ASSUME Typed, Typed', Out, UNCHANGED <<sel, next, nextRun>>, error => error', pc # "gone",
         Finish \/ FinishFails
  PROVE  Out'
<1>0. 1 \in Files
  BY DEF Files
<1>1. \A s : Behind(s)' <=> Behind(s)
  BY DEF Behind, Past
<1>2. \A f \in Files : Regular(f)' <=> Regular(f)
  BY DEF Regular
<1>3. Concatenates' <=> Concatenates
  BY DEF Concatenates
<1>4. CASE UNCHANGED outVars
  BY <1>0, <1>1, <1>2, <1>3, <1>4 DEF outVars, Out, Replaces, Gathers, Separates
<1>5. CASE Finish /\ pending = {}
  BY <1>0, <1>1, <1>2, <1>3, <1>5 DEF Finish, Out, Replaces, Gathers, Separates
<1>6. CASE Finish /\ pending # {}
  <2>1. PICK s : s \in pending /\ disk' = [disk EXCEPT ![1] = s] /\ pending' = {} /\ ~failed
    BY <1>6 DEF Finish
  <2>2. Concatenates /\ Regular(1) /\ Sound(s) /\ (~error => Behind(s)) /\ published # 0
    BY <1>6, <2>1 DEF Out, Replaces, Gathers
  <2>3. disk'[1] = s /\ \A f \in Files \ {1} : disk'[f] = <<>>
    BY <1>0, <2>1, <2>2 DEF Out, Gathers, Typed, OutTyped
  <2>4. s # <<Old>>
    BY <2>2, SoundNotOld
  <2>5. published' = published
    BY <1>6 DEF Finish
  <2> QED
    BY <1>1, <1>2, <1>3, <2>1, <2>2, <2>3, <2>4, <2>5 DEF Out, Replaces, Gathers, Separates
<1>7. CASE FinishFails /\ pending' = {} /\ failed' = TRUE /\ UNCHANGED <<disk, stream, published>>
  BY <1>0, <1>1, <1>2, <1>3, <1>7 DEF Out, Replaces, Gathers, Separates
<1> QED
  BY <1>4, <1>5, <1>6, <1>7 DEF FinishFails


\* What the delivery comes to next is ahead of what it passed over.
LEMMA UpcomingAhead ==
  ASSUME Typed, Fresh, Upcoming # 0, pc = "deliver"
  PROVE  Ahead(Upcoming)
<1>1. MayDeliver
  BY DEF Fresh
<1> QED
  BY <1>1, UpcomingIs DEF Ahead, Plot

LEMMA OutStep ==
  Typed /\ Ordered /\ Fresh /\ Streams /\ Out /\ [Next]_vars => Out'
<1> SUFFICES ASSUME Typed, Ordered, Fresh, Streams, Out, [Next]_vars PROVE Out'
  OBVIOUS
<1>0. Typed' /\ next \in Nat /\ nextRun \in Nat
  BY TypeStep DEF Typed
<1>1. CASE /\ UNCHANGED <<sel, next, nextRun, disk, pending, published, failed>>
           /\ error => error'
           /\ pc = "gone" => pc' = "gone"
  BY <1>0, <1>1, OutStays
<1>2. CASE Destroy
  <2>1. /\ UNCHANGED <<sel, next, nextRun, error, disk, published, failed>>
        /\ pending' = {} /\ pc' = "gone"
    BY <1>2 DEF Destroy, problemVars
  <2> QED
    BY <2>1 DEF Out, Replaces, Gathers, Separates, Concatenates, Regular, Behind, Past
<1>3. CASE Age /\ MayDeliver
  BY <1>0, <1>1, <1>3 DEF Age, MayDeliver, outVars, AfterAge, GoTo, Return
<1>4. CASE Age /\ ~MayDeliver
  <2>1. /\ UNCHANGED <<sel, next, nextRun, error>>
        /\ UNCHANGED outVars \/ Publish(Table) \/ PublishFails(Table)
        /\ pc' # "gone" /\ pc # "gone" /\ ~error
    BY <1>4 DEF Age, Fresh, AfterAge, GoTo, Return
  <2>2. Ahead(Table)
    BY <1>4 DEF Ahead, Plot
  <2>3. CASE UNCHANGED outVars
    BY <1>0, <1>1, <2>1, <2>3 DEF outVars
  <2>4. CASE Publish(Table) \/ PublishFails(Table)
    BY <1>0, <2>1, <2>2, <2>4, PublishOut
  <2> QED
    BY <2>1, <2>3, <2>4
<1>5. CASE DeliverOne
  <2>1. PICK u : u = Upcoming
    OBVIOUS
  <2>2. Upcoming # 0 /\ ~error /\ UNCHANGED <<sel, main, pc>> /\ pc = "deliver"
    BY <1>5 DEF DeliverOne, DeliveryRests, callVars
  <2>3. Ahead(u)
    BY <2>1, <2>2, UpcomingAhead
  <2>4. Passed(u) => Past(u)' /\ next <= next' /\ nextRun <= nextRun'
    BY <2>1, <2>2, PassedIs
  <2>5. Passed(u) \/ (error' /\ UNCHANGED <<next, nextRun>>)
    BY <1>5, <2>1 DEF DeliverOne
  <2>6. next <= next' /\ nextRun <= nextRun' /\ (error' \/ Past(u)')
    BY <1>0, <2>4, <2>5
  <2>7. CASE UNCHANGED outVars
    BY <1>0, <2>2, <2>6, <2>7, OutStays DEF outVars
  <2>8. CASE Publish(u) \/ PublishFails(u)
    BY <1>0, <2>2, <2>3, <2>6, <2>8, PublishOut
  <2>9. CASE streaming /\ u = 1 /\ EndStream /\ Passed(u)
    <3>1. next = 0
      <4>1. 1 \in Main /\ ~Past(1)
        BY <2>1, <2>2, <2>9, UpcomingIs DEF Main
      <4> QED
        BY <1>0, <4>1 DEF Past
    <3> QED
      BY <1>0, <2>2, <2>4, <2>9, <3>1, EndStreamOut
  <2>10. CASE AbortStream
    BY <1>0, <2>2, <2>6, <2>10, OutStays DEF AbortStream
  <2>11. CASE EndStreamFails /\ error'
    BY <1>0, <2>2, <2>6, <2>11 DEF EndStreamFails, Out, Replaces, Gathers, Separates, Concatenates, Regular, Behind, Past
  <2> QED
    BY <1>5, <2>1, <2>7, <2>8, <2>9, <2>10, <2>11 DEF DeliverOne
<1>6. CASE FinishWhenDone \/ Check
  <2>1. /\ UNCHANGED <<sel, next, nextRun>> /\ pc # "gone" /\ (error => error')
        /\ UNCHANGED outVars \/ Finish \/ FinishFails
    BY <1>6 DEF FinishWhenDone, Check, FinishOr
  <2>2. CASE UNCHANGED outVars
    BY <1>0, <2>1, <2>2, OutStays DEF outVars
  <2>3. CASE Finish \/ FinishFails
    BY <1>0, <2>1, <2>3, FinishOut
  <2> QED
    BY <2>1, <2>2, <2>3
<1> QED
  BY <1>1, <1>2, <1>3, <1>4, <1>5, <1>6
     DEF Next, vars, problemVars, outVars, callVars, AppendQuery, Call, ReleaseQuery, Open, NotRun, Run,
         Delivered, Return, GoTo

-----------------------------------------------------------------------------
(* What was delivered. *)

\* A replacement that is renamed over the destination carries all of it.
LEMMA FinishKeeps ==
  ASSUME Typed, Out, Finish
  PROVE  /\ \A q \in Query : Somewhere(q) => q \in Written'
         /\ \A q \in Query : Somewhere(q) => Somewhere(q)'
<1>0. 1 \in Files /\ Old \notin Query
  BY DEF Files, Old, Query, Main, RunQ
<1>1. \A q : q \in Written <=> \E f \in Files : q \in ToSet(disk[f])
  BY DEF Written
<1>2. \A q : q \in Written' <=> \E f \in Files : q \in ToSet(disk'[f])
  BY DEF Written
<1>3. CASE pending = {}
  BY <1>1, <1>2, <1>3 DEF Finish, Somewhere
<1>4. CASE pending # {}
  <2>1. PICK s \in pending : disk' = [disk EXCEPT ![1] = s] /\ \A t \in pending : t = s
    BY <1>4 DEF Finish, Out, Replaces
  <2>2. disk'[1] = s /\ \A f \in Files \ {1} : disk'[f] = disk[f]
    BY <1>0, <2>1 DEF Typed, OutTyped
  <2>3. \A q \in Query : q \in ToSet(disk[1]) => q \in ToSet(s)
    <3>1. CASE disk[1] = <<Old>>
      BY <1>0, <3>1 DEF ToSet
    <3>2. CASE IsPrefix(disk[1], s)
      BY <1>0, <2>1, <3>2, PrefixesChain DEF Typed, OutTyped
    <3> QED
      BY <2>1, <3>1, <3>2 DEF Out, Replaces
  <2>4. \A q \in Query : Somewhere(q) => q \in Written'
    BY <1>0, <1>1, <1>2, <2>1, <2>2, <2>3 DEF Somewhere
  <2> QED
    BY <2>4 DEF Somewhere
<1> QED
  BY <1>3, <1>4


\* There is a file for the next plot.
LEMMA NextFile ==
  ASSUME Typed, Ordered, Counted, ~error, Upcoming # 0
  PROVE  published + 1 \in Files
<1>1. /\ next \in Nat /\ nextRun \in Nat /\ main \in Nat /\ main <= MaxMain
      /\ next <= main /\ nextRun <= Runs /\ MaxMain \in Nat /\ Runs \in Nat /\ published \in Nat
  BY DEF Typed, OutTyped, Main
<1>2. next < main \/ nextRun < Runs
  BY UpcomingIs
<1>3. published <= 1 + next + nextRun
  BY <1>1 DEF Counted
<1> QED
  BY <1>1, <1>2, <1>3 DEF Files

LEMMA KeptStep ==
  Typed /\ Ordered /\ Fresh /\ Counted /\ Streams /\ Out /\ Kept /\ [Next]_vars => Kept'
<1> SUFFICES ASSUME Typed, Ordered, Fresh, Counted, Streams, Out, Kept, [Next]_vars,
                    sel'.dest # "none", ~error', pc' # "gone"
             PROVE  \A q \in Query : Past(q)' /\ status'[q] = "complete" /\ ~released'[q] => Somewhere(q)'
  BY DEF Kept
<1>0. next \in Nat /\ nextRun \in Nat
  BY DEF Typed
<1>1. CASE /\ UNCHANGED <<sel, next, nextRun, disk, pending>> /\ ~error /\ pc # "gone"
           /\ \A q \in Query : Past(q) /\ status'[q] = "complete" => status[q] = "complete"
           /\ \A q \in Query : ~released'[q] => ~released[q]
  BY <1>1 DEF Kept, Past, Somewhere, Written
<1>2. CASE Run
  <2>1. \A q \in Query : Past(q) => status'[q] = status[q]
    BY <1>2 DEF Run, Ordered, Ended
  <2> QED
    BY <1>1, <1>2, <2>1 DEF Run, outVars
<1>3. CASE \E r \in Main : ReleaseQuery(r)
  <2>1. \A q \in Query : ~released'[q] => ~released[q]
    BY <1>3 DEF ReleaseQuery, Typed
  <2> QED
    BY <1>1, <1>3, <2>1 DEF ReleaseQuery, outVars, callVars
<1>4. CASE Age /\ MayDeliver
  BY <1>1, <1>4 DEF Age, MayDeliver, outVars
<1>5. CASE Age /\ ~MayDeliver
  <2>1. next' = 0 /\ nextRun' = 0
    BY <1>0, <1>5 DEF Age, Fresh, Ordered
  <2>2. \A q \in Query : ~Past(q)'
    BY <2>1 DEF Past, Query, Main, RunQ
  <2> QED
    BY <2>2
<1>6. CASE DeliverOne
  <2>1. PICK u : u = Upcoming
    OBVIOUS
  <2>2. /\ Upcoming # 0 /\ ~error /\ UNCHANGED <<sel, main, pc, status, released>> /\ pc = "deliver"
        /\ Passed(u)
    BY <1>6, <2>1 DEF DeliverOne, DeliveryRests, callVars
  <2>3. \A q \in Query : Past(q)' => Past(q) \/ q = u
    BY <2>1, <2>2, PassedIs
  <2>4. \A q \in Query : Past(q)' /\ status'[q] = "complete" /\ ~released'[q] => Somewhere(q) \/ q = u
    BY <2>2, <2>3 DEF Kept
  <2>5. CASE UNCHANGED outVars /\ (released[u] \/ status[u] # "complete")
    BY <2>2, <2>4, <2>5 DEF outVars, Somewhere, Written
  <2>6. CASE AbortStream /\ status[u] # "complete"
    BY <2>2, <2>4, <2>6 DEF AbortStream, Somewhere, Written
  <2>7. CASE Publish(u)
    <3>1. u \in Int /\ published + 1 \in Files
      BY <2>1, <2>2, UpcomingIs, NextFile
    <3>2. Deliver(u) /\ ~failed
      BY <2>7 DEF Publish
    <3>3. sel.dest # "none"
      BY <2>2
    <3>4. /\ \A q \in Query : Somewhere(q) => Somewhere(q)'
          /\ u \in Query => Somewhere(u)'
      BY <2>2, <3>1, <3>2, <3>3, DeliverKeeps
    <3> QED
      BY <2>4, <3>4
  <2>8. CASE streaming /\ u = 1 /\ EndStream
    <3>1. pending' = {<<1>>} /\ 1 \in ToSet(<<1>>)
      BY <2>2, <2>8 DEF EndStream, ToSet
    <3>2. next = 0 /\ nextRun = 0
      <4>1. 1 \in Main /\ ~Past(1)
        BY <2>1, <2>2, <2>8, UpcomingIs DEF Main
      <4> QED
        BY <1>0, <4>1 DEF Past, Ordered
    <3>3. \A q \in Query : ~Past(q)
      BY <3>2 DEF Past, Query, Main, RunQ
    <3> QED
      BY <2>3, <2>8, <3>1, <3>3 DEF Somewhere
  <2> QED
    BY <1>6, <2>1, <2>2, <2>5, <2>6, <2>7, <2>8 DEF DeliverOne
<1>7. CASE FinishWhenDone \/ Check
  <2>1. /\ UNCHANGED <<sel, next, nextRun, status, released>> /\ pc # "gone" /\ ~error
        /\ UNCHANGED outVars \/ Finish
    BY <1>7 DEF FinishWhenDone, Check, FinishOr
  <2>2. CASE UNCHANGED outVars
    BY <1>1, <2>1, <2>2 DEF outVars
  <2>3. CASE Finish
    BY <2>1, <2>3, FinishKeeps DEF Kept, Past
  <2> QED
    BY <2>1, <2>2, <2>3
<1> QED
  BY <1>1, <1>2, <1>3, <1>4, <1>5, <1>6, <1>7
     DEF Next, vars, problemVars, outVars, callVars, AppendQuery, Destroy, Call, Open, NotRun, Delivered,
         Return, GoTo

LEMMA ProgressStep ==
  Typed /\ Progress /\ [Next]_vars => Progress'
<1> SUFFICES ASSUME Typed, Progress, [Next]_vars PROVE Progress'
  OBVIOUS
<1> USE DEF Progress
<1>1. CASE UNCHANGED vars
  BY <1>1 DEF vars, problemVars, outVars, callVars, AllFinished, Mains, Ended
<1>2. CASE pc' \notin {"idle", "gone", "finish", "check"} /\ call' # "none"
  BY <1>2
<1>3. CASE pc' \in {"idle", "gone"}
  BY <1>3
<1>4. CASE Delivered
  <2>1. /\ pc' = IF call = "step" THEN "finish" ELSE IF AllFinished THEN "check" ELSE "run"
        /\ UNCHANGED <<call, main, status, next, nextRun, error>> /\ DeliveryRests /\ pc = "deliver"
    BY <1>4 DEF Delivered, GoTo, problemVars
  <2>2. /\ call \in {"run_all", "step"}
        /\ next \in Nat /\ main \in Nat /\ next <= main /\ nextRun \in Nat /\ nextRun <= Runs
    <3>1. call # "none"
      BY <2>1
    <3>2. /\ call \in {"none", "run_all", "step"} /\ main \in Nat
          /\ next \in Nat /\ next <= main /\ nextRun \in Nat /\ nextRun <= Runs
      BY DEF Typed, Main
    <3> QED
      BY <3>1, <3>2
  <2>3. error \/ Upcoming = 0 \/ ~Ended(Upcoming)
    BY <2>1 DEF DeliveryRests, WaitsFor
  <2>4. CASE call = "step"
    <3>1. error \/ next = main \/ ~Ended(next + 1)
      BY <2>2, <2>3, <2>4 DEF Upcoming
    <3> QED
      BY <2>1, <2>4, <3>1 DEF Ended
  <2>5. CASE call = "run_all" /\ AllFinished
    <3>1. error \/ Upcoming = 0
      <4>1. Upcoming # 0 => Upcoming \in Mains \union RunQ
        BY <2>2, UpcomingIs DEF Mains, Query
      <4> QED
        BY <2>3, <2>5, <4>1 DEF AllFinished
    <3>2. error \/ (next = main /\ nextRun = Runs)
      <4>1. Upcoming = 0 => ~(next < main) /\ ~(nextRun < Runs)
        BY <2>2, <2>5 DEF Upcoming
      <4> QED
        BY <2>2, <3>1, <4>1
    <3> QED
      BY <2>1, <2>5, <3>2 DEF AllFinished, Mains, Ended
  <2>6. CASE call = "run_all" /\ ~AllFinished
    BY <2>1, <2>6
  <2> QED
    BY <2>2, <2>4, <2>5, <2>6
<1> QED
  BY <1>1, <1>2, <1>3, <1>4
     DEF Next, AppendQuery, Destroy, Call, ReleaseQuery, Age, AfterAge, Open, NotRun, Run, DeliverOne,
         FinishWhenDone, FinishOr, Check, Return, GoTo, callVars


LEMMA AllDeliveredStep ==
  Typed /\ Out /\ Kept /\ Progress /\ AllDelivered /\ [Next]_vars => AllDelivered'
<1> SUFFICES ASSUME Typed, Out, Kept, Progress, AllDelivered, [Next]_vars,
                    sel'.dest # "none", pc' = "idle"
             PROVE  /\ ret' = "ok" => Results(Mains \union RunQ)' \subseteq Written'
                    /\ ret' = "stepped" /\ Finished' /\ ~error' => Results(Mains)' \subseteq Written'
  BY DEF AllDelivered
<1>0. /\ next \in Nat /\ main \in Nat /\ next <= main /\ main <= MaxMain /\ MaxMain \in Nat
      /\ nextRun \in Nat /\ nextRun <= Runs
  BY DEF Typed, Main
<1>1. CASE UNCHANGED vars
  BY <1>1 DEF vars, problemVars, outVars, callVars, AllDelivered, Results, Mains, Written, Finished, Ended
<1>2. CASE \E q \in Main : ReleaseQuery(q)
  <2>1. /\ UNCHANGED <<sel, main, status, error, disk, pc, ret>>
        /\ \A q \in Query : ~released'[q] => ~released[q]
    BY <1>2 DEF ReleaseQuery, outVars, callVars, Typed
  <2>2. Mains \union RunQ \subseteq Query
    BY <1>0 DEF Mains, Query, Main
  <2> QED
    BY <2>1, <2>2 DEF AllDelivered, Results, Mains, Written, Finished, Ended
<1>3. CASE ret' \notin {"ok", "stepped"}
  BY <1>3
<1>4. CASE FinishWhenDone
  <2>1. /\ UNCHANGED <<sel, main, status, released, next>> /\ pc = "finish"
        /\ ret' = "stepped"
    BY <1>4 DEF FinishWhenDone, FinishOr, Return
  <2>2. CASE Done /\ Finish
    <3>1. \A q \in Mains : Past(q) /\ q \in Query
      BY <1>0, <2>2 DEF Done, Mains, Past, Main, Query
    <3>2. \A q \in Mains : status[q] = "complete" /\ ~released[q] => Somewhere(q)
      BY <2>1, <2>2, <3>1 DEF Kept, Done
    <3>3. \A q \in Query : Somewhere(q) => q \in Written'
      BY <2>2, FinishKeeps
    <3> QED
      BY <2>1, <3>1, <3>2, <3>3 DEF Results, Mains
  <2>3. CASE Done /\ error'
    BY <2>1, <2>3
  <2>4. CASE ~Done /\ UNCHANGED error
    <3>1. error \/ ~Finished \/ next # main
      BY <2>4 DEF Done
    <3>2. error \/ next = main \/ ~Ended(next + 1)
      BY <2>1 DEF Progress
    <3>3. next # main => next + 1 \in Mains
      BY <1>0 DEF Mains
    <3>4. error \/ ~Finished
      BY <3>1, <3>2, <3>3 DEF Finished
    <3>5. error' \/ ~Finished'
      BY <2>1, <2>4, <3>4 DEF Finished, Mains, Ended
    <3> QED
      BY <2>1, <3>5
  <2> QED
    BY <1>4, <2>2, <2>3, <2>4 DEF FinishWhenDone, FinishOr
<1>5. CASE Check
  <2>1. /\ UNCHANGED <<sel, main, status, released, next, nextRun>> /\ pc = "check"
    BY <1>5 DEF Check
  <2>2. CASE ~error /\ Finish /\ ret' = "ok"
    <3>1. next = main /\ nextRun = Runs
      BY <2>1, <2>2 DEF Progress
    <3>2. \A q \in Mains \union RunQ : Past(q) /\ q \in Query
      BY <1>0, <3>1 DEF Mains, Past, Main, Query, RunQ
    <3>3. \A q \in Mains \union RunQ : status[q] = "complete" /\ ~released[q] => Somewhere(q)
      BY <2>1, <2>2, <3>2 DEF Kept
    <3>4. \A q \in Query : Somewhere(q) => q \in Written'
      BY <2>2, FinishKeeps
    <3> QED
      BY <2>1, <2>2, <3>2, <3>3, <3>4 DEF Results, Mains
  <2> QED
    BY <1>3, <1>5, <2>2 DEF Check, FinishOr, Return
<1> QED
  BY <1>1, <1>2, <1>3, <1>4, <1>5
     DEF Next, AppendQuery, Destroy, Call, Age, AfterAge, Open, NotRun, Run, DeliverOne, Delivered,
         Return, GoTo, callVars

-----------------------------------------------------------------------------
(* The theorems. *)

LEMMA InitIInv == Init => IInv
<1> SUFFICES ASSUME Init PROVE IInv
  OBVIOUS
<1> USE DEF Init
<1>1. Typed
  <2>1. <<Old>> \in Seq(Int) /\ <<>> \in Seq(Int)
    BY DEF Old
  <2>2. disk \in [Files -> Seq(Int)]
    BY <2>1
  <2>3. OutTyped
    BY <2>2 DEF OutTyped
  <2>4. main \in Nat /\ 0 <= main
    BY DEF Main
  <2>5. /\ next = 0 /\ nextRun = 0 /\ Runs \in Nat /\ pc = "idle" /\ call = "none"
        /\ aged = FALSE /\ streaming = FALSE /\ error = FALSE
    OBVIOUS
  <2>6. /\ status \in [Query -> {"pending", "complete", "failed"}]
        /\ released \in [Query -> BOOLEAN]
    OBVIOUS
  <2>7. sel \in [format : Formats, dest : Dests, final : BOOLEAN, mosra : BOOLEAN] /\ main \in Main
    OBVIOUS
  <2>8. next \in Nat /\ next <= main /\ nextRun \in Nat /\ nextRun <= Runs
    BY <2>4, <2>5
  <2>9. aged \in BOOLEAN /\ streaming \in BOOLEAN /\ error \in BOOLEAN
    BY <2>5
  <2> HIDE DEF Init
  <2> QED
    BY <2>3, <2>5, <2>6, <2>7, <2>8, <2>9, Zenon DEF Typed
<1>2. \A q \in Query : ~Past(q)
  BY DEF Past, Query, Main, RunQ
<1>3. Ordered /\ Fresh /\ Counted /\ Streams
  BY <1>2 DEF Ordered, Fresh, MayDeliver, Counted, Streams
<1>4. Out
  BY DEF Out, Replaces, Gathers, Separates, Files
<1>5. Kept /\ Progress /\ AllDelivered
  BY <1>2 DEF Kept, Progress, AllDelivered
<1> QED
  BY <1>1, <1>3, <1>4, <1>5 DEF IInv

LEMMA IInvStep == IInv /\ [Next]_vars => IInv'
BY TypeStep, OrderedStep, FreshStep, CountedStep, StreamsStep, OutStep, KeptStep, ProgressStep, AllDeliveredStep
   DEF IInv

\* The inductive invariant holds in every reachable state.
THEOREM DeliveryInvariant == Spec => []IInv
BY InitIInv, IInvStep, PTL DEF Spec

\* A call of the Problem that reports success has left the result of every
\* complete query in the output, for any number of queries and runs.
THEOREM SuccessLeavesNothingOut == Spec => []AllDelivered
<1>1. IInv => AllDelivered
  BY DEF IInv
<1> QED
  BY <1>1, DeliveryInvariant, PTL

\* A regular file never holds anything but its old bytes or whole plots in
\* request order, each once.
THEOREM FilesAreWhole == Spec => []DestinationWhole
<1>1. IInv => DestinationWhole
  <2> SUFFICES ASSUME IInv, NEW f \in Files, Regular(f), disk[f] \notin {<<>>, <<Old>>}
               PROVE  Sound(disk[f]) /\ (~Concatenates => Len(disk[f]) = 1)
    BY DEF DestinationWhole, Sound, Plot
  <2>1. CASE Concatenates
    <3>1. f = 1
      BY <2>1 DEF IInv, Out, Gathers
    <3> QED
      BY <2>1, <3>1 DEF IInv, Out, Gathers
  <2>2. CASE ~Concatenates
    <3>1. PICK p \in Plot : disk[f] = <<p>>
      BY <2>2 DEF IInv, Out, Separates
    <3> QED
      BY <3>1, SoundOne
  <2> QED
    BY <2>1, <2>2
<1> QED
  BY <1>1, DeliveryInvariant, PTL

\* A stream is only begun where no replacement is under way, and the stream
\* that is to be ended is open: beginStream's and endStream's assertions.
THEOREM AssertionsOfStreamsHold == Spec => []StreamAlone
<1>1. IInv => StreamAlone
  <2> SUFFICES ASSUME IInv PROVE StreamAlone
    OBVIOUS
  <2>1. ASSUME pc = "open", MayStream, ~CannotStream PROVE pending = {} /\ ~stream
    <3>1. published = 0 /\ ~failed /\ sel.format = "binary" /\ sel.dest # "device" /\ ~streaming
      BY <2>1 DEF MayStream, CannotStream
    <3>2. Regular(1) \/ sel.dest = "none"
      BY <3>1 DEF Regular, IInv, Typed
    <3>3. pending = {}
      BY <3>1, <3>2 DEF IInv, Out, Replaces, Gathers, Concatenates, Regular
    <3> QED
      BY <2>1, <3>1, <3>3 DEF IInv, Streams
  <2>2. streaming /\ pc # "gone" => stream
    BY DEF IInv, Streams
  <2> QED
    BY <2>1, <2>2 DEF StreamAlone
<1> QED
  BY <1>1, DeliveryInvariant, PTL

\* A plot that has reached a regular file is never lost or moved: each step
\* extends what the file holds.
THEOREM FilesOnlyGrow == Spec => OnlyGrows
<1>1. IInv /\ [Next]_vars =>
        [\A f \in Files : Regular(f) /\ disk[f] \notin {<<>>, <<Old>>} => IsPrefix(disk[f], disk'[f])]_vars
  <2> SUFFICES ASSUME IInv, [Next]_vars, NEW f \in Files, Regular(f), disk[f] \notin {<<>>, <<Old>>}
               PROVE  IsPrefix(disk[f], disk'[f])
    OBVIOUS
  <2>0. disk[f] \in Seq(Int) /\ IsPrefix(disk[f], disk[f])
    BY PrefixIs DEF IInv, Typed, OutTyped
  <2>1. CASE UNCHANGED disk
    BY <2>0, <2>1
  <2>2. ASSUME Finish PROVE IsPrefix(disk[f], disk'[f])
    <3>1. CASE pending = {}
      BY <2>1, <2>2, <3>1 DEF Finish
    <3>2. CASE pending # {}
      <4>1. PICK s \in pending : disk' = [disk EXCEPT ![1] = s]
        BY <2>2, <3>2 DEF Finish
      <4>2. f = 1
        BY <3>2 DEF IInv, Out, Replaces, Gathers
      <4> QED
        BY <4>1, <4>2 DEF IInv, Out, Replaces, Typed, OutTyped
    <3> QED
      BY <3>1, <3>2
  <2>3. ASSUME NEW p, Deliver(p) PROVE IsPrefix(disk[f], disk'[f])
    <3>1. CASE sel.dest = "none" \/ (Concatenates /\ Regular(1))
      BY <2>1, <2>3, <3>1 DEF Deliver
    <3>2. CASE sel.dest # "none" /\ Concatenates /\ ~Regular(1)
      <4>1. disk' = [disk EXCEPT ![1] = Append(@, p)] /\ f # 1
        BY <2>3, <3>2 DEF Deliver
      <4> QED
        BY <2>0, <4>1 DEF IInv, Typed, OutTyped
    <3>3. CASE sel.dest # "none" /\ ~Concatenates
      <4>1. PICK e : e = published + 1
        OBVIOUS
      <4>2. disk' = [disk EXCEPT ![e] = IF Regular(e) THEN <<p>> ELSE Append(@, p)]
        BY <2>3, <3>3, <4>1 DEF Deliver
      <4>3. f # e
        <5>1. f <= published /\ published \in Nat /\ f \in Int
          BY <3>3 DEF IInv, Out, Separates, Typed, OutTyped, Files
        <5> QED
          BY <4>1, <5>1
      <4> QED
        BY <2>0, <4>2, <4>3 DEF IInv, Typed, OutTyped
    <3> QED
      BY <3>1, <3>2, <3>3
  <2>4. (\E p : Publish(p) \/ PublishFails(p)) => UNCHANGED disk \/ \E p : Deliver(p)
    BY DEF Publish, PublishFails, DeliverFails, outVars
  <2>5. Finish \/ UNCHANGED disk \/ \E p : Deliver(p)
    BY <2>4
       DEF Next, vars, problemVars, outVars, AppendQuery, Destroy, Call, ReleaseQuery, Age, Open, NotRun, Run,
           DeliverOne, EndStream, EndStreamFails, AbortStream, Delivered, FinishWhenDone, Check, FinishOr, FinishFails
  <2> QED
    BY <2>1, <2>2, <2>3, <2>5
<1> QED
  BY <1>1, DeliveryInvariant, PTL DEF Spec, OnlyGrows

-----------------------------------------------------------------------------
(* A run in which a query failed. *)

\* A run that reports a failed query, and no output error, has delivered all.
Drained == pc = "idle" /\ ret = "query_failed" /\ ~error => next = main /\ nextRun = Runs

\* What it leaves out of the output, it holds in the replacement.
FailedRunHolds ==
  sel.dest # "none" /\ pc = "idle" /\ ret = "query_failed" /\ ~error =>
    /\ \A q \in Results(Mains \union RunQ) : Somewhere(q)
    /\ (Concatenates /\ Regular(1)) \/ Results(Mains \union RunQ) \subseteq Written

LEMMA DrainedStep == Progress /\ Drained /\ [Next]_vars => Drained'
<1> SUFFICES ASSUME Progress, Drained, [Next]_vars, pc' = "idle", ret' = "query_failed", ~error'
             PROVE  next' = main' /\ nextRun' = Runs
  BY DEF Drained
<1>1. CASE Check
  <2>1. ~error /\ pc = "check" /\ UNCHANGED <<main, next, nextRun>>
    BY <1>1 DEF Check, FinishOr, Return
  <2> QED
    BY <2>1 DEF Progress
<1>2. CASE UNCHANGED <<pc, ret, error, main, next, nextRun>>
  BY <1>2 DEF Drained
<1>3. CASE \E q \in Main : ReleaseQuery(q)
  BY <1>2, <1>3 DEF ReleaseQuery, callVars
<1>4. CASE UNCHANGED vars
  BY <1>2, <1>4 DEF vars, problemVars, callVars
<1> QED
  BY <1>1, <1>3, <1>4
     DEF Next, AppendQuery, Destroy, Call, Age, AfterAge, Open, NotRun, Run, DeliverOne, Delivered,
         FinishWhenDone, FinishOr, Return, GoTo, callVars

\* A run_all that returns a query's failure loses no result: those not in the
\* output wait in the replacement, and only a regular file of a format that
\* holds many plots has one.
THEOREM FailedRunKeepsResults == Spec => []FailedRunHolds
<1>1. Init => Drained
  BY DEF Init, Drained
<1>2. IInv /\ Drained /\ [Next]_vars => Drained'
  BY DrainedStep DEF IInv
<1>3. IInv /\ Drained => FailedRunHolds
  <2> SUFFICES ASSUME IInv, Drained, sel.dest # "none", pc = "idle", ret = "query_failed", ~error
               PROVE  /\ \A q \in Results(Mains \union RunQ) : Somewhere(q)
                      /\ (Concatenates /\ Regular(1)) \/ Results(Mains \union RunQ) \subseteq Written
    BY DEF FailedRunHolds
  <2>1. main \in Nat /\ main <= MaxMain /\ next = main /\ nextRun = Runs
    BY DEF IInv, Typed, Main, Drained
  <2>2. \A q \in Mains \union RunQ : Past(q) /\ q \in Query
    BY <2>1 DEF Mains, Past, Main, Query, RunQ
  <2>3. \A q \in Results(Mains \union RunQ) : Somewhere(q)
    BY <2>2 DEF Results, IInv, Kept
  <2>4. ~(Concatenates /\ Regular(1)) => pending = {}
    BY DEF IInv, Out, Replaces
  <2> QED
    BY <2>3, <2>4 DEF Somewhere
<1> QED
  BY <1>1, <1>2, <1>3, DeliveryInvariant, PTL DEF Spec
=============================================================================
