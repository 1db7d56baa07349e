---------------------------- MODULE BatchWorker ----------------------------
(***************************************************************************)
(* The batching consumers, workers/audit-consumer and                      *)
(* workers/cdr-processor: one slice `batch` that three goroutines use      *)
(* without a lock.  The receiver appends to it and flushes it when it is   *)
(* full, the ticker flushes it every few seconds, and main flushes it once *)
(* more after a signal.                                                    *)
(*                                                                         *)
(* A flush reads the slice header, inserts row by row, and only then       *)
(* truncates, so an append or another flush can fall in between.  append   *)
(* itself reads the header and writes it back later.  All headers share    *)
(* one array, whose capacity is never exceeded (AppendFits), hence the     *)
(* length is the only part of a header that differs and no torn header can *)
(* be observed.                                                            *)
(***************************************************************************)
EXTENDS Integers, FiniteSets

CONSTANTS
  Events,       \* the messages published to the topic
  Malformed,    \* those whose payload is not the JSON of an event
  BatchSize,    \* batchSize: 100 in audit-consumer, 500 in cdr-processor
  MaxRestarts,  \* bound of the model: how often the process ends
  NoEvent       \* no message

ASSUME EventsAssumption == /\ IsFiniteSet(Events)
                           /\ Malformed \subseteq Events
                           /\ NoEvent \notin Events
ASSUME SizeAssumption == BatchSize \in Nat \ {0} /\ MaxRestarts \in Nat

VARIABLES
  acked,     \* the messages the subscription will not deliver again
  buf,       \* the array of the slice; BatchSize is its capacity
  len,       \* len(batch)
  recv,      \* the receiver: its step, its message and the len it has read
  flush,     \* flush[g]: how far goroutine g is in flushBatch
  up,        \* FALSE once main has called cancel()
  rows,      \* rows[e]: how many rows the table holds for e
  why,       \* history: why[e] tells what may have cost e its row
  restarts   \* how often the process has ended

worker == <<buf, len, recv, flush, up>>
vars == <<acked, worker, rows, why, restarts>>

Goroutines == {"receiver", "ticker", "main"}
Index == 1 .. BatchSize

Receiving == [step |-> "receive", msg |-> NoEvent, seen |-> 0]
NotFlushing == [step |-> "idle", upto |-> 0, next |-> 1, read |-> {}]
Entering == [NotFlushing EXCEPT !.step = "enter"]

ReceiverState == [step : {"receive", "append", "grow", "ack", "check"},
                  msg : Events \cup {NoEvent},
                  seen : 0 .. BatchSize]

FlushState == [step : {"idle", "enter", "open", "insert"},
               upto : 0 .. BatchSize,
               next : 1 .. BatchSize + 1,
               read : SUBSET Events]

Causes == {"swept", "failed", "cancelled", "stopped"}

TypeOK ==
  /\ acked \in SUBSET Events
  /\ buf \in [Index -> Events \cup {NoEvent}]
  /\ len \in 0 .. BatchSize
  /\ recv \in ReceiverState
  /\ flush \in [Goroutines -> FlushState]
  /\ up \in BOOLEAN
  /\ rows \in [Events -> Nat]
  /\ why \in [Events -> SUBSET Causes]
  /\ restarts \in Nat

-----------------------------------------------------------------------------

Batched == {buf[i] : i \in 1 .. len}

\* why, with one more cause for the events of a set.
Blame(cause, lost) ==
  why' = [e \in Events |-> IF e \in lost THEN why[e] \cup {cause} ELSE why[e]]

Idle(g) == flush[g].step = "idle"

\* make([]T, 0, batchSize), and goroutines outside of flushBatch.
EmptyArray == [i \in Index |-> NoEvent]
NoneFlushing == [g \in Goroutines |-> NotFlushing]

Init ==
  /\ acked = {}
  /\ buf = EmptyArray
  /\ len = 0
  /\ recv = Receiving
  /\ flush = NoneFlushing
  /\ up = TRUE
  /\ rows = [e \in Events |-> 0]
  /\ why = [e \in Events |-> {}]
  /\ restarts = 0

-----------------------------------------------------------------------------
(***************************************************************************)
(* The receiver.  consumer.Receive chooses freely between a message and a  *)
(* cancelled context, so that it may still return one after cancel().      *)
(***************************************************************************)

Receive(e) ==
  /\ recv.step = "receive" /\ Idle("receiver")
  /\ e \notin acked \cup Malformed
  /\ recv' = [recv EXCEPT !.step = "append", !.msg = e]
  /\ UNCHANGED <<acked, buf, len, flush, up, rows, why, restarts>>

\* A slip to compare with: `continue` without the Ack.
DiscardUnacked(e) ==
  /\ recv.step = "receive" /\ Idle("receiver")
  /\ e \in Malformed \ acked
  /\ UNCHANGED vars

\* json.Unmarshal fails: the message is acknowledged and forgotten.
Discard(e) ==
  /\ recv.step = "receive" /\ Idle("receiver")
  /\ e \in Malformed \ acked
  /\ acked' = acked \cup {e}
  /\ UNCHANGED <<worker, rows, why, restarts>>

\* append, up to the element ...
Append ==
  /\ recv.step = "append"
  /\ len < BatchSize
  /\ buf' = [buf EXCEPT ![len + 1] = recv.msg]
  /\ recv' = [recv EXCEPT !.step = "grow", !.seen = len]
  /\ UNCHANGED <<acked, len, flush, up, rows, why, restarts>>

\* Slips to compare with: the header is stored as it was read, or counts the
\* element twice.
GrowForgotten ==
  /\ recv.step = "grow"
  /\ len' = recv.seen
  /\ recv' = [recv EXCEPT !.step = "ack"]
  /\ UNCHANGED <<acked, buf, flush, up, rows, why, restarts>>

GrowTwice ==
  /\ recv.step = "grow"
  /\ len' = recv.seen + 2
  /\ recv' = [recv EXCEPT !.step = "ack"]
  /\ UNCHANGED <<acked, buf, flush, up, rows, why, restarts>>

\* ... and the header, from the length read before.
Grow ==
  /\ recv.step = "grow"
  /\ len' = recv.seen + 1
  /\ recv' = [recv EXCEPT !.step = "ack"]
  /\ UNCHANGED <<acked, buf, flush, up, rows, why, restarts>>

Ack ==
  /\ recv.step = "ack"
  /\ acked' = acked \cup {recv.msg}
  /\ recv' = [recv EXCEPT !.step = "check"]
  /\ UNCHANGED <<buf, len, flush, up, rows, why, restarts>>

\* A slip to compare with: the batch must exceed its size to be flushed.
CheckOffByOne ==
  /\ recv.step = "check"
  /\ recv' = Receiving
  /\ flush' = IF len > BatchSize
                THEN [flush EXCEPT !["receiver"] = Entering] ELSE flush
  /\ UNCHANGED <<acked, buf, len, up, rows, why, restarts>>

Check ==
  /\ recv.step = "check"
  /\ recv' = Receiving
  /\ flush' = IF len >= BatchSize
                THEN [flush EXCEPT !["receiver"] = Entering] ELSE flush
  /\ UNCHANGED <<acked, buf, len, up, rows, why, restarts>>

-----------------------------------------------------------------------------
(***************************************************************************)
(* flushBatch, by any goroutine.                                           *)
(***************************************************************************)

\* A slip to compare with: the ticker leaves a batch that is not full.
TickWhenFull ==
  /\ Idle("ticker")
  /\ len = BatchSize
  /\ flush' = [flush EXCEPT !["ticker"] = Entering]
  /\ UNCHANGED <<acked, buf, len, recv, up, rows, why, restarts>>

\* <-ticker.C.  After cancel() select may still choose it.  A tick that finds
\* an empty batch does nothing and is left out.
Tick ==
  /\ Idle("ticker")
  /\ len # 0
  /\ flush' = [flush EXCEPT !["ticker"] = Entering]
  /\ UNCHANGED <<acked, buf, len, recv, up, rows, why, restarts>>

\* if len(batch) == 0 { return }
Enter(g) ==
  /\ flush[g].step = "enter"
  /\ flush' = [flush EXCEPT ![g] = IF len = 0 THEN NotFlushing
                                   ELSE [@ EXCEPT !.step = "open"]]
  /\ UNCHANGED <<acked, buf, len, recv, up, rows, why, restarts>>

\* The header is read again, for the argument of insertBatch.
Open(g) ==
  /\ flush[g].step = "open"
  /\ flush' = [flush EXCEPT ![g] = [@ EXCEPT !.step = "insert", !.upto = len]]
  /\ UNCHANGED <<acked, buf, len, recv, up, rows, why, restarts>>

\* One turn of the loop of insertBatch or processBatch: the element the array
\* holds now.  The INSERT fails once the context is cancelled; any failure is
\* logged at most, and the loop goes on.  ok is whether a row came of it.
Insert(g, ok) ==
  LET f == flush[g]
      e == buf[f.next]
  IN /\ f.step = "insert"
     /\ f.next <= f.upto
     /\ ok => up
     /\ flush' = [flush EXCEPT ![g] = [f EXCEPT !.next = @ + 1,
                                               !.read = @ \cup {e}]]
     /\ IF ok
          THEN rows' = [rows EXCEPT ![e] = @ + 1] /\ UNCHANGED why
          ELSE /\ UNCHANGED rows
               /\ Blame(IF up THEN "failed" ELSE "cancelled", {e})
     /\ UNCHANGED <<acked, buf, len, recv, up, restarts>>

\* batch = batch[:0], whatever has been appended since the header was read.
Truncate(g) ==
  /\ flush[g].step = "insert"
  /\ flush[g].next > flush[g].upto
  /\ len' = 0
  /\ flush' = [flush EXCEPT ![g] = NotFlushing]
  /\ Blame("swept", Batched \ flush[g].read)
  /\ UNCHANGED <<acked, buf, recv, up, rows, restarts>>

-----------------------------------------------------------------------------

\* SIGINT or SIGTERM: cancel(), then flushBatch() in main.
Signal ==
  /\ up
  /\ restarts < MaxRestarts
  /\ up' = FALSE
  /\ flush' = [flush EXCEPT !["main"] = Entering]
  /\ UNCHANGED <<acked, buf, len, recv, rows, why, restarts>>

\* The process ends, wherever its goroutines are, and is started again.  What
\* was not acknowledged is delivered again.
Restart ==
  /\ restarts < MaxRestarts
  /\ restarts' = restarts + 1
  /\ buf' = EmptyArray
  /\ len' = 0
  /\ recv' = Receiving
  /\ flush' = NoneFlushing
  /\ up' = TRUE
  /\ Blame("stopped", Batched)
  /\ UNCHANGED <<acked, rows>>

Exit == ~up /\ Idle("main") /\ Restart

Crash == (up \/ ~Idle("main")) /\ Restart

Receiver == \/ \E e \in Events : Receive(e) \/ Discard(e)
            \/ Append \/ Grow \/ Ack \/ Check

Flushing(g) == \/ Enter(g)
               \/ Open(g)
               \/ \E ok \in BOOLEAN : Insert(g, ok)
               \/ Truncate(g)

Next ==
  \/ Receiver
  \/ Tick
  \/ \E g \in Goroutines : Flushing(g)
  \/ Signal
  \/ Exit
  \/ Crash

Spec == Init /\ [][Next]_vars

\* The Go scheduler runs every goroutine that can run, the ticker ticks until
\* cancel(), the calls of Pulsar and PostgreSQL return, and main returns once
\* its flush is over.
Fairness == /\ WF_vars(Receiver)
            /\ WF_vars(up /\ Tick)
            /\ \A g \in Goroutines : WF_vars(Flushing(g))
            /\ WF_vars(Exit)

FairSpec == Spec /\ Fairness

-----------------------------------------------------------------------------
(***************************************************************************)
(* Properties.                                                             *)
(***************************************************************************)

\* An append never finds the array full: whatever the ticker does to the
\* length meanwhile, the receiver has flushed in time.  Otherwise append would
\* move to another array and the goroutines would read torn slice headers.
AppendFits == recv.step = "append" => len < BatchSize

\* An acknowledged event without a row is still in the batch, or its INSERT
\* failed, or the process ended, or a flush truncated the batch without having
\* read it.  Nothing else loses events: not two flushes at once, not a slot
\* reused while a flush reads it, not a header written back late.
LossAccounted ==
  \A e \in acked \ Malformed : rows[e] = 0 => e \in Batched \/ why[e] # {}

\* Every message of the topic is acknowledged in the end.
EventuallyAcked == \A e \in Events : <>(e \in acked)

\* A batch that stays below its size is flushed all the same.
PartialBatchFlushed == len > 0 ~> len = 0

=============================================================================
