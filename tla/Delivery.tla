------------------------------ MODULE Delivery ------------------------------
(***************************************************************************)
(* How results reach the output file: a Problem (src/espice.zig) delivers  *)
(* the plots of its ended queries, in request order, to one output         *)
(* session (src/output/session.zig), which keeps the plots of a format     *)
(* that holds several of them in a replacement file until `finish' renames *)
(* it over the destination.  Any write may fail, any plot may be invalid,  *)
(* any query may fail.                                                     *)
(*                                                                         *)
(* A plot is the number of the query it is the result of; what a file      *)
(* holds is the sequence of its plots.                                     *)
(***************************************************************************)
EXTENDS Naturals, Integers, SequencesExt

CONSTANTS
  MaxMain,       \* bound: queries of the main session
  Runs,      \* .step variant runs, of one query each
  Formats,   \* of the formats: "binary" streams, "ascii" holds many plots too,
             \* "csv" one plot to a file
  Dests      \* what the path names: "file", "device", or "none" without one

ASSUME DeliveryAssumption ==
  /\ MaxMain \in Nat \ {0} /\ Runs \in Nat
  /\ Formats \subseteq {"binary", "ascii", "csv"}
  /\ Dests \subseteq {"file", "device", "none"}

Old   == -1     \* what the destination held before
Torn  == -2     \* a plot that was not written to its end
Table == 0      \* the degradation table of a MOSRA run
Main  == 1..MaxMain
RunQ  == (MaxMain + 1)..(MaxMain + Runs)
Query == Main \union RunQ
Files == 1..(MaxMain + Runs + 1)

VARIABLES
  sel,        \* the selection, final_plan and whether there is a MOSRA card
  main,       \* queries appended to the main session
  status,     \* of each query
  released,   \* Session.released
  next,       \* Problem.next_output: main plots delivered or passed over
  nextRun,    \* the runs' next_output, in one: runs delivered
  aged,       \* Problem.degradation is set
  streaming,  \* Problem.streaming is the first query
  error,      \* Problem.delivery_error
  disk,       \* file number (path, path.2, ...) -> its plots
  pending,    \* the plots of Session.pending: at most one sequence
  stream,     \* Session.stream is open
  published,  \* Session.published
  failed,     \* Session.state is failed
  pc, call,   \* where the call is, and which it is
  ret         \* what the last call returned

problemVars == <<sel, main, status, released, next, nextRun, aged, streaming, error>>
outVars  == <<disk, pending, stream, published, failed>>
callVars == <<pc, call, ret>>
vars == <<problemVars, outVars, callVars>>

Init ==
  /\ sel \in [format : Formats, dest : Dests, final : BOOLEAN, mosra : BOOLEAN]
  /\ main \in Main
  /\ status = [q \in Query |-> "pending"] /\ released = [q \in Query |-> FALSE]
  /\ next = 0 /\ nextRun = 0
  /\ aged = FALSE /\ streaming = FALSE /\ error = FALSE
  /\ disk = [f \in Files |-> IF f = 1 THEN <<Old>> ELSE <<>>]
  /\ pending = {} /\ stream = FALSE /\ published = 0 /\ failed = FALSE
  /\ pc = "idle" /\ call = "none" /\ ret = "none"

-----------------------------------------------------------------------------
(* The output session. *)

Concatenates == sel.format \in {"binary", "ascii"}
Regular(f)   == sel.dest = "file" \/ (sel.dest = "device" /\ f # 1)

\* Faulty: a replacement never, or always, starts as a copy of the file.
KeepNever == FALSE
KeepAlways == TRUE
\* Whether a new replacement starts as a copy of the file.
Keep == published # 0

\* The plots the replacement holds before the next one is encoded.
Replacement == IF pending # {} THEN CHOOSE s \in pending : TRUE
               ELSE IF Keep THEN disk[1] ELSE <<>>

\* deliver: write plot p where it goes.
Deliver(p) ==
  CASE sel.dest = "none" -> UNCHANGED <<disk, pending>>
    [] sel.dest # "none" /\ Concatenates /\ Regular(1) ->
         pending' = {Append(Replacement, p)} /\ UNCHANGED disk
    [] sel.dest # "none" /\ Concatenates /\ ~Regular(1) ->
         disk' = [disk EXCEPT ![1] = Append(@, p)] /\ UNCHANGED pending
    [] OTHER ->
         LET f == published + 1
         IN /\ disk' = [disk EXCEPT ![f] = IF Regular(f) THEN <<p>> ELSE Append(@, p)]
            /\ UNCHANGED pending

\* deliver fails: before its first write, or with the plot partly written (a
\* file of its own is replaced whole or not at all).
DeliverFails(p) ==
  /\ sel.dest # "none"
  /\ \/ UNCHANGED <<disk, pending>>
     \/ (Concatenates \/ ~Regular(published + 1)) /\ Deliver(Torn)

\* publish, when it returns no error.
Publish(p) ==
  /\ ~failed
  /\ Deliver(p)
  /\ published' = published + 1
  /\ UNCHANGED <<stream, failed>>

\* publish, when it does: refused after a failure, an invalid plot, or a
\* failed write, which is final.
PublishFails(p) ==
  \/ UNCHANGED outVars
  \/ /\ ~failed
     /\ DeliverFails(p)
     /\ failed' = TRUE
     /\ UNCHANGED <<stream, published>>

\* endStream: the streamed plot is the first of the replacement.
EndStream ==
  /\ stream' = FALSE
  /\ pending' = IF sel.dest = "none" THEN {} ELSE {<<1>>}
  /\ published' = published + 1
  /\ UNCHANGED <<disk, failed>>

\* A wrong row count, or a failed write; without a path it is not final.
EndStreamFails ==
  /\ stream' = FALSE
  /\ failed' = (sel.dest # "none")
  /\ UNCHANGED <<disk, pending, published>>

AbortStream == stream' = FALSE /\ UNCHANGED <<disk, pending, published, failed>>

\* finish: rename the replacement over the destination.
Finish ==
  /\ ~failed
  /\ disk' = IF pending = {} THEN disk
             ELSE [disk EXCEPT ![1] = CHOOSE s \in pending : TRUE]
  /\ pending' = {}
  /\ UNCHANGED <<stream, published, failed>>

FinishFails ==
  \/ failed /\ UNCHANGED outVars
  \/ /\ ~failed /\ pending # {}
     /\ pending' = {} /\ failed' = TRUE
     /\ UNCHANGED <<disk, stream, published>>

-----------------------------------------------------------------------------
(* The Problem. *)

Mains == 1..main
Ended(q) == status[q] # "pending"
Finished == \A q \in Mains : Ended(q)
AllFinished == \A q \in Mains \union RunQ : Ended(q)

Return(value) == pc' = "idle" /\ ret' = value /\ UNCHANGED call
GoTo(label) == pc' = label /\ UNCHANGED <<call, ret>>

\* Between two calls the caller appends a query or releases an ended one.
AppendQuery ==
  /\ pc = "idle" /\ main < MaxMain
  /\ sel.final => \A q \in Query : ~Ended(q)
  /\ main' = main + 1
  /\ ret' = "none"
  /\ UNCHANGED <<sel, status, released, next, nextRun, aged, streaming, error,
                 outVars, pc, call>>

ReleaseQuery(q) ==
  /\ pc = "idle" /\ q \in Mains /\ Ended(q) /\ ~released[q]
  /\ released' = [released EXCEPT ![q] = TRUE]
  /\ UNCHANGED <<sel, main, status, next, nextRun, aged, streaming, error,
                 outVars, callVars>>

\* deinit, between two calls.
Destroy ==
  /\ pc = "idle"
  /\ stream' = FALSE /\ pending' = {}
  /\ pc' = "gone"
  /\ UNCHANGED <<problemVars, disk, published, failed, call, ret>>

\* run_all, or a step: advance and advance_ready.
Call ==
  /\ pc = "idle"
  /\ \E c \in {"run_all", "step"} : call' = c
  /\ pc' = "age" /\ ret' = "none"
  /\ UNCHANGED <<problemVars, outVars>>

AfterAge == GoTo(IF call = "run_all" THEN "open" ELSE "run")

\* age: once, the stress run, then its table.
Age ==
  /\ pc = "age"
  /\ \/ /\ ~sel.mosra \/ aged
        /\ AfterAge
        /\ UNCHANGED <<aged, outVars>>
     \/ /\ sel.mosra /\ ~aged
        /\ \/ UNCHANGED <<aged, outVars>> /\ Return("error")
           \/ aged' = TRUE /\ Publish(Table) /\ AfterAge
           \/ aged' = TRUE /\ PublishFails(Table) /\ Return("error")
  /\ UNCHANGED <<sel, main, status, released, next, nextRun, streaming, error>>

\* Faulty: streams after a plot was delivered.
CannotStreamLax == sel.format # "binary" \/ failed \/ sel.dest = "device"
\* beginStream returns no writer: this selection cannot stream, or no more.
CannotStream ==
  sel.format # "binary" \/ published # 0 \/ failed \/ sel.dest = "device"

MayStream == sel.final /\ next = 0 /\ ~streaming /\ ~Ended(1)

\* openStream.  The deck may rule a stream out, beginStream may fail, and
\* streamTo refuses a query that has started.
Open ==
  /\ pc = "open"
  /\ \/ UNCHANGED <<stream, streaming>> /\ GoTo("run")
     \/ /\ MayStream /\ ~CannotStream
        /\ \/ stream' = TRUE /\ streaming' = TRUE /\ GoTo("run")
           \/ UNCHANGED <<stream, streaming>> /\ Return("error")
  /\ UNCHANGED <<sel, main, status, released, next, nextRun, aged, error, disk,
                 pending, published, failed>>

\* Pool.init fails, in run_all; a step refuses its ids.
NotRun ==
  /\ pc = "run" /\ ret = "none"
  /\ Return("error")
  /\ UNCHANGED <<problemVars, outVars>>

\* Some queries end.  run_all waits until one does, while any has not.
Run ==
  /\ pc = "run"
  /\ LET todo == {q \in Mains \union (IF call = "run_all" THEN RunQ ELSE {}) : ~Ended(q)}
     IN \E S \in SUBSET todo : \E good \in SUBSET S :
          /\ call = "run_all" /\ todo # {} => S # {}
          /\ status' = [q \in Query |-> IF q \in good THEN "complete"
                                        ELSE IF q \in S THEN "failed" ELSE status[q]]
  /\ pc' = "deliver" /\ ret' = "running"
  /\ UNCHANGED <<sel, main, released, next, nextRun, aged, streaming, error,
                 outVars, call>>

\* The query deliverRuns (in a step: deliverFrom) comes to next; 0 for none.
Upcoming ==
  IF next < main THEN next + 1
  ELSE IF call = "run_all" /\ nextRun < Runs THEN MaxMain + nextRun + 1 ELSE 0

Passed(q) ==
  IF q \in Main THEN next' = next + 1 /\ UNCHANGED nextRun
                ELSE nextRun' = nextRun + 1 /\ UNCHANGED next

\* Faulty: passes over the first query that has not ended.
WaitsForLazy(q) == FALSE
\* deliverOne returns false: the query has not ended.
WaitsFor(q) == ~Ended(q)

\* Nothing more can be delivered for now.
DeliveryRests == IF error \/ Upcoming = 0 THEN TRUE ELSE WaitsFor(Upcoming)

\* deliverOne, of a query that has ended.  Only a transient or AC streams;
\* an .sp may also fail to write its Touchstone file, once published.
DeliverOne ==
  LET q == Upcoming
  IN /\ pc = "deliver" /\ ~DeliveryRests
     /\ \/ /\ released[q] \/ (status[q] # "complete" /\ ~(streaming /\ q = 1))
           /\ Passed(q)
           /\ UNCHANGED <<streaming, error, outVars>>
        \/ /\ ~released[q] /\ streaming /\ q = 1
           /\ streaming' = FALSE
           /\ \/ status[q] = "complete" /\ EndStream /\ Passed(q) /\ UNCHANGED error
              \/ status[q] # "complete" /\ AbortStream /\ Passed(q) /\ UNCHANGED error
              \/ /\ status[q] = "complete" /\ EndStreamFails
                 /\ error' = TRUE /\ UNCHANGED <<next, nextRun>>
        \/ /\ ~released[q] /\ status[q] = "complete" /\ ~(streaming /\ q = 1)
           /\ UNCHANGED streaming
           /\ \/ Publish(q) /\ Passed(q) /\ UNCHANGED error
              \/ /\ Publish(q) \/ PublishFails(q)
                 /\ error' = TRUE /\ UNCHANGED <<next, nextRun>>
     /\ UNCHANGED <<sel, main, status, released, aged, callVars>>

Delivered ==
  /\ pc = "deliver" /\ DeliveryRests
  /\ GoTo(IF call = "step" THEN "finish" ELSE IF AllFinished THEN "check" ELSE "run")
  /\ UNCHANGED <<problemVars, outVars>>

\* finish, and what its failure leaves.
FinishOr(ok, bad) ==
  \/ Finish /\ Return(ok) /\ UNCHANGED error
  \/ FinishFails /\ Return(bad) /\ error' = TRUE

\* finishWhenDone, at the end of a step, asks whether all is delivered.
Done == ~error /\ Finished /\ next = main

FinishWhenDone ==
  /\ pc = "finish"
  /\ IF Done THEN FinishOr("stepped", "stepped")
     ELSE Return("stepped") /\ UNCHANGED <<error, outVars>>
  /\ UNCHANGED <<sel, main, status, released, next, nextRun, aged, streaming>>

\* The end of run_all: the first query failure, else the delivery error,
\* else the file is finished.
Check ==
  /\ pc = "check"
  /\ IF \E q \in Mains \union RunQ : status[q] = "failed"
     THEN Return("query_failed") /\ UNCHANGED <<error, outVars>>
     ELSE IF error THEN Return("delivery_failed") /\ UNCHANGED <<error, outVars>>
     ELSE FinishOr("ok", "delivery_failed")
  /\ UNCHANGED <<sel, main, status, released, next, nextRun, aged, streaming>>

Next ==
  \/ AppendQuery \/ Destroy \/ Call
  \/ \E q \in Main : ReleaseQuery(q)
  \/ Age \/ Open \/ NotRun \/ Run \/ DeliverOne \/ Delivered
  \/ FinishWhenDone \/ Check

Spec == Init /\ [][Next]_vars
-----------------------------------------------------------------------------
(* Properties. *)

InOrder(s) ==
  \A i, j \in DOMAIN s : i < j /\ (s[i] \in RunQ <=> s[j] \in RunQ) => s[i] < s[j]

\* A regular file holds its old bytes, or whole plots, each once: the table,
\* then the plots of the main session and of the variant runs, each in
\* request order; a format of one plot per file holds one plot.
DestinationWhole ==
  \A f \in Files : Regular(f) /\ disk[f] \notin {<<>>, <<Old>>} =>
    /\ ToSet(disk[f]) \subseteq Query \union {Table}
    /\ InOrder(disk[f])
    /\ ~Concatenates => Len(disk[f]) = 1

\* A plot that has reached a regular file stays there, at its place.
OnlyGrows ==
  [][\A f \in Files : Regular(f) /\ disk[f] \notin {<<>>, <<Old>>} =>
       IsPrefix(disk[f], disk'[f])]_vars

\* What the files hold, and which results they should.
Written == UNION {ToSet(disk[f]) : f \in Files}
Results(Q) == {q \in Q : status[q] = "complete" /\ ~released[q]}

\* A run_all that succeeds, and a step that ends the last query without an
\* output error, leaves every result in the file.
AllDelivered ==
  sel.dest # "none" /\ pc = "idle" =>
    /\ ret = "ok" => Results(Mains \union RunQ) \subseteq Written
    /\ ret = "stepped" /\ Finished /\ ~error => Results(Mains) \subseteq Written

\* The assertions of beginStream and endStream: no replacement is under way
\* when a stream begins, and the stream that is to be ended is open.
StreamAlone ==
  /\ pc = "open" /\ MayStream /\ ~CannotStream => pending = {} /\ ~stream
  /\ streaming /\ pc # "gone" => stream

\* What run_all promises: it publishes the results and finishes the output,
\* and returns the first query failure once every query has ended.
RunAllFinishes ==
  sel.dest # "none" /\ pc = "idle" /\ ret = "query_failed" /\ ~error =>
    Results(Mains \union RunQ) \subseteq Written
=============================================================================
