------------------------------ MODULE RunStream ------------------------------
(*****************************************************************************)
(* The event stream of one /api/run: the worker thread emits events on the    *)
(* run's EventBus (src/agent/event_bus.py), a bridge thread moves them to the  *)
(* asyncio queue, which the worker also fills directly, and the generator of   *)
(* the response sends what it finds there to the browser until the sentinel.  *)
(*                                                                           *)
(* How a run goes on from one event to the next, its retries and its pauses   *)
(* are ApiServer's and Executor's.  The loop runs the puts in the order in    *)
(* which the threads asked for them.                                         *)
(*****************************************************************************)
EXTENDS Naturals, Sequences, FiniteSets, Functions

CONSTANT MaxProgress  \* bound: progress events of a run

VARIABLES pc,     \* the worker: see TypeOK
          bus,    \* EventBus._q, "close" is the sentinel
          bridge, \* the bridge thread: "reads" or "ended"
          queue,  \* the asyncio queue
          out,    \* what the browser got
          closed, \* _close_bus was called
          last,   \* what is put on the queue after the bus is closed
          events, \* ghost: what was emitted on the open bus
          slow    \* ghost: the bridge was not done within the 5 s of the join

vars == <<pc, bus, bridge, queue, out, closed, last, events, slow>>

BusEvents == {"context_condensed", "run_complete", "run_failed"}
Direct == {"progress", "result", "error", "done"}

TypeOK ==
    /\ pc \in {"setup", "condensing", "running", "reporting", "closing", "joining",
               "last", "recording", "leaving", "over"}
    /\ bridge \in {"none", "reads", "ended"}
    /\ Range(bus) \subseteq BusEvents \cup {"close"}
    /\ Range(queue) \cup Range(out) \subseteq BusEvents \cup Direct
    /\ Range(events) \subseteq BusEvents
    /\ last \in {"none", "result", "error"}
    /\ bridge = "ended" => closed

Init ==
    /\ pc = "setup" /\ bridge = "none"
    /\ bus = <<>> /\ queue = <<>> /\ out = <<>>
    /\ closed = FALSE /\ last = "none"
    /\ events = <<>> /\ slow = FALSE

-----------------------------------------------------------------------------
(* The worker thread.                                                        *)

Emit(event) ==
    /\ bus' = Append(bus, event)
    /\ events' = IF closed THEN events ELSE Append(events, event)

Put(event) == queue' = Append(queue, event)
Go(next) == pc' = next
Close(what) == Go("closing") /\ last' = what

\* The bridge is started; or the workspace or the loop is missing, and the
\* worker reports it.
Setup ==
    /\ pc = "setup"
    /\ \/ Go("condensing") /\ bridge' = "reads" /\ UNCHANGED queue
       \/ Go("leaving") /\ Put("error") /\ UNCHANGED bridge
    /\ UNCHANGED <<bus, out, closed, last, events, slow>>

Condense ==
    /\ pc = "condensing" /\ Go("running")
    /\ Emit("context_condensed") \/ UNCHANGED <<bus, events>>
    /\ UNCHANGED <<bridge, queue, out, closed, last, slow>>

\* on_progress goes to the queue directly, beside the bus.
Progress ==
    /\ pc = "running"
    /\ Cardinality({i \in DOMAIN queue : queue[i] = "progress"})
         + Cardinality({i \in DOMAIN out : out[i] = "progress"}) < MaxProgress
    /\ Put("progress")
    /\ UNCHANGED <<pc, bus, bridge, out, closed, last, events, slow>>

RunReturns ==
    /\ pc = "running" /\ Go("reporting")
    /\ UNCHANGED <<bus, bridge, queue, out, closed, last, events, slow>>

\* The context is exhausted, or the executor raised.
RunFails ==
    /\ pc = "running"
    /\ Emit("run_failed") /\ Close("error")
    /\ UNCHANGED <<bridge, queue, out, closed, slow>>

Report ==
    /\ pc = "reporting"
    /\ Emit("run_complete") /\ Close("result")
    /\ UNCHANGED <<bridge, queue, out, closed, slow>>

\* Anything else that raises: condensing, before the run or between its retries,
\* recording a turn, writing the answer.  The error is put before the bus is
\* closed, and once more by the worker.
Raises ==
    /\ pc \in {"condensing", "running", "reporting", "recording"}
    /\ Emit("run_failed") /\ Put("error") /\ Close("error")
    /\ UNCHANGED <<bridge, out, closed, slow>>

CloseBusUnjoined ==  \* mutant: the bridge is not waited for
    /\ pc = "closing" /\ Go("last")
    /\ closed' = TRUE
    /\ bus' = IF closed THEN bus ELSE Append(bus, "close")
    /\ UNCHANGED <<bridge, queue, out, last, events, slow>>

\* _close_bus, the second time without effect.
CloseBus ==
    /\ pc = "closing"
    /\ closed' = TRUE
    /\ IF closed THEN Go("last") /\ UNCHANGED bus
       ELSE Go("joining") /\ bus' = Append(bus, "close")
    /\ UNCHANGED <<bridge, queue, out, last, events, slow>>

Joined ==
    /\ pc = "joining" /\ bridge = "ended" /\ Go("last")
    /\ UNCHANGED <<bus, bridge, queue, out, closed, last, events, slow>>

JoinTimesOut ==
    /\ pc = "joining" /\ bridge = "reads" /\ Go("last")
    /\ slow' = TRUE
    /\ UNCHANGED <<bus, bridge, queue, out, closed, last, events>>

PutLast ==
    /\ pc = "last"
    /\ Put(last)
    /\ Go(IF last = "result" THEN "recording" ELSE "leaving")
    /\ UNCHANGED <<bus, bridge, out, closed, last, events, slow>>

Record ==
    /\ pc = "recording" /\ Go("leaving")
    /\ UNCHANGED <<bus, bridge, queue, out, closed, last, events, slow>>

\* The sentinel of _run_worker, on every path.
Leave ==
    /\ pc = "leaving" /\ Go("over")
    /\ Put("done")
    /\ UNCHANGED <<bus, bridge, out, closed, last, events, slow>>

-----------------------------------------------------------------------------
(* The bridge thread and the response.                                       *)

Bridge ==
    /\ bridge = "reads" /\ bus # <<>>
    /\ bus' = Tail(bus)
    /\ IF Head(bus) = "close" THEN bridge' = "ended" /\ UNCHANGED queue
       ELSE Put(Head(bus)) /\ UNCHANGED bridge
    /\ UNCHANGED <<pc, out, closed, last, events, slow>>

\* _generate stops at the sentinel; what comes later is never read.
Generate ==
    /\ queue # <<>> /\ "done" \notin Range(out)
    /\ out' = Append(out, Head(queue))
    /\ queue' = Tail(queue)
    /\ UNCHANGED <<pc, bus, bridge, closed, last, events, slow>>

Next == Setup \/ Condense \/ Progress \/ RunReturns \/ RunFails \/ Report \/ Raises
          \/ CloseBus \/ Joined \/ JoinTimesOut \/ PutLast \/ Record \/ Leave
          \/ Bridge \/ Generate

Spec == Init /\ [][Next]_vars

-----------------------------------------------------------------------------
\* What the browser got of the bus, and how many of those one is the last of.
Told == {i \in DOMAIN out : out[i] \in BusEvents}
Nth(i) == Cardinality({j \in Told : j <= i})

\* A finished stream holds every event of the bus, in the order of emission and
\* none twice, unless the bridge was too slow for the join; it says how the run
\* ended; a result comes after the run_complete it belongs to
\* (test_event_bus_integration.py: run_complete_event_emitted_before_result); and
\* no later event is taken for its end.
StreamIsComplete ==
    /\ \A i \in Told : Nth(i) <= Len(events) /\ out[i] = events[Nth(i)]
    /\ "done" \in Range(out) =>
         /\ ~slow => Cardinality(Told) = Len(events)
         /\ {"result", "error"} \cap Range(out) # {}
         /\ out[Len(out)] = "done"
    /\ "result" \in Range(out) /\ ~slow => "run_complete" \in Range(out)
=============================================================================
