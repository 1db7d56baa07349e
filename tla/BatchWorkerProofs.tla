------------------------- MODULE BatchWorkerProofs -------------------------
(***************************************************************************)
(* Proofs about BatchWorker, for every batch size and every set of events: *)
(* the length of the shared slice stays below its capacity at each append, *)
(* and events are lost in the accounted ways only.                         *)
(***************************************************************************)
EXTENDS BatchWorker, TLAPS

USE EventsAssumption, SizeAssumption

-----------------------------------------------------------------------------
(***************************************************************************)
(* The array.  Whose turn it is bounds the length: only the receiver makes *)
(* it grow, and it appends only after its own flush, or after seeing room. *)
(***************************************************************************)

Turns ==
  /\ recv.step # "receive" => Idle("receiver") /\ recv.msg \in Events
  /\ recv.step = "receive" /\ Idle("receiver") => len < BatchSize
  /\ recv.step = "append" => len < BatchSize
  /\ recv.step = "grow" => /\ recv.seen < BatchSize
                           /\ len \in {0, recv.seen}
                           /\ buf[recv.seen + 1] = recv.msg

Filled(n) == \A i \in 1 .. n : buf[i] \in Events

\* Every slot a flush may still read holds an event.
Slots ==
  /\ Filled(len)
  /\ recv.step = "grow" => Filled(recv.seen + 1)
  /\ \A g \in Goroutines : flush[g].step = "insert" => Filled(flush[g].upto)

ArrayInv == TypeOK /\ Turns /\ Slots

\* The states a flush starts from and ends in.
LEMMA EnteringType ==
  /\ Entering \in FlushState /\ Entering.step = "enter"
  /\ NotFlushing \in FlushState /\ NotFlushing.step = "idle"
  BY DEF Entering, NotFlushing, FlushState

LEMMA ArrayInvInit == Init => ArrayInv
  BY EnteringType
     DEF Init, ArrayInv, TypeOK, Turns, Slots, Filled, Idle, Receiving,
         ReceiverState, EmptyArray, NoneFlushing, Goroutines, Index

LEMMA BlameType ==
  ASSUME TypeOK, NEW c \in Causes, NEW lost, Blame(c, lost)
  PROVE  why' \in [Events -> SUBSET Causes]
  BY DEF TypeOK, Blame

\* The receiver's steps keep it.
LEMMA ArrayInvReceiver ==
  ASSUME ArrayInv, Receiver
  PROVE  ArrayInv'
<1> USE DEF ArrayInv, TypeOK, Turns, Slots, Filled, Idle, Index
<1>1. ASSUME NEW e \in Events, Receive(e)
      PROVE  ArrayInv'
  BY <1>1 DEF Receive, ReceiverState
<1>2. ASSUME NEW e \in Events, Discard(e)
      PROVE  ArrayInv'
  BY <1>2 DEF Discard, worker
<1>3. CASE Append
  <2>1. /\ len < BatchSize /\ recv.msg \in Events
        /\ buf' = [buf EXCEPT ![len + 1] = recv.msg]
        /\ recv' = [recv EXCEPT !.step = "grow", !.seen = len]
        /\ UNCHANGED <<acked, len, flush, up, rows, why, restarts>>
    BY <1>3 DEF Append
  <2>2. TypeOK'
    BY <2>1 DEF ReceiverState
  <2>3. recv'.step = "grow" /\ recv'.seen = len /\ recv'.msg = recv.msg
    BY <2>1 DEF ReceiverState
  <2>4. Idle("receiver")'
    BY <1>3, <2>1 DEF Append
  <2>5. Turns'
    BY <2>1, <2>3, <2>4
  <2>6. ASSUME NEW n \in Nat, n <= BatchSize, Filled(n)
        PROVE  Filled(n)'
    BY <2>1, <2>6
  <2>7. Filled(len + 1)'
    BY <2>1
  <2>8. Slots'
    BY <2>1, <2>3, <2>6, <2>7
  <2> QED
    BY <2>2, <2>5, <2>8
<1>4. CASE Grow
  <2>1. /\ recv.seen < BatchSize /\ recv.msg \in Events
        /\ len' = recv.seen + 1
        /\ recv' = [recv EXCEPT !.step = "ack"]
        /\ Idle("receiver")
        /\ UNCHANGED <<acked, buf, flush, up, rows, why, restarts>>
    BY <1>4 DEF Grow
  <2>2. recv' \in ReceiverState /\ recv'.step = "ack" /\ recv'.msg = recv.msg
    BY <2>1 DEF ReceiverState
  <2>3. len' \in 0 .. BatchSize
    BY <2>1 DEF ReceiverState
  <2>4. TypeOK'
    BY <2>1, <2>2, <2>3
  <2>5. Turns'
    BY <2>1, <2>2
  <2>6. Slots'
    BY <1>4, <2>1, <2>2 DEF Grow
  <2> QED
    BY <2>4, <2>5, <2>6
<1>5. CASE Ack
  BY <1>5 DEF Ack, ReceiverState
<1>6. CASE Check
  <2>1. /\ recv.msg \in Events /\ Idle("receiver")
        /\ recv' = Receiving
        /\ UNCHANGED <<acked, buf, len, up, rows, why, restarts>>
    BY <1>6 DEF Check
  <2>2. /\ flush' \in [Goroutines -> FlushState]
        /\ \A g \in Goroutines : flush'[g].step = "insert" =>
                                   flush'[g] = flush[g]
        /\ len >= BatchSize => flush'["receiver"].step = "enter"
    BY <1>6, EnteringType DEF Check, Goroutines
  <2>3. recv'.step = "receive" /\ TypeOK'
    BY <2>1, <2>2 DEF Receiving, ReceiverState
  <2>4. Turns'
    BY <2>1, <2>2, <2>3
  <2>5. Slots'
    BY <2>1, <2>2, <2>3
  <2> QED
    BY <2>3, <2>4, <2>5
<1> QED
  BY <1>1, <1>2, <1>3, <1>4, <1>5, <1>6 DEF Receiver

\* So does any goroutine's flushBatch.
LEMMA ArrayInvFlushing ==
  ASSUME ArrayInv, NEW g \in Goroutines, Flushing(g)
  PROVE  ArrayInv'
<1> USE DEF ArrayInv, TypeOK, Turns, Slots, Filled, Idle, Index
<1>1. CASE Enter(g)
  <2>1. /\ flush[g].step = "enter"
        /\ flush' = [flush EXCEPT ![g] = IF len = 0 THEN NotFlushing
                                         ELSE [@ EXCEPT !.step = "open"]]
        /\ UNCHANGED <<acked, buf, len, recv, up, rows, why, restarts>>
    BY <1>1 DEF Enter
  <2>2. /\ flush'[g].step \in {"idle", "open"}
        /\ flush'[g].step = "idle" => len = 0
        /\ \A h \in Goroutines \ {g} : flush'[h] = flush[h]
    BY <2>1, EnteringType DEF FlushState
  <2>3. flush'[g] \in FlushState
    BY <2>1, EnteringType DEF FlushState
  <2>4. TypeOK'
    BY <2>1, <2>3
  <2>5. Turns'
    BY <2>1, <2>2 DEF Goroutines
  <2>6. Slots'
    BY <2>1, <2>2
  <2> QED
    BY <2>5, <2>6, <2>4
<1>2. CASE Open(g)
  <2>1. /\ flush[g].step = "open"
        /\ flush' = [flush EXCEPT ![g] = [@ EXCEPT !.step = "insert",
                                                   !.upto = len]]
        /\ UNCHANGED <<acked, buf, len, recv, up, rows, why, restarts>>
    BY <1>2 DEF Open
  <2>2. /\ flush'[g] \in FlushState
        /\ flush'[g].step = "insert"
        /\ flush'[g].upto = len
        /\ \A h \in Goroutines \ {g} : flush'[h] = flush[h]
    BY <2>1 DEF FlushState
  <2>3. TypeOK'
    BY <2>1, <2>2
  <2>4. Turns'
    BY <2>1, <2>2 DEF Goroutines
  <2>5. Slots'
    BY <2>1, <2>2
  <2> QED
    BY <2>3, <2>4, <2>5
<1>3. ASSUME NEW ok \in BOOLEAN, Insert(g, ok)
      PROVE  ArrayInv'
  <2> DEFINE e == buf[flush[g].next]
  <2>1. /\ flush[g].step = "insert"
        /\ flush[g].next <= flush[g].upto
        /\ flush' = [flush EXCEPT ![g] = [flush[g] EXCEPT !.next = @ + 1,
                                              !.read = @ \cup {e}]]
        /\ UNCHANGED <<acked, buf, len, recv, up, restarts>>
    BY <1>3 DEF Insert
  <2>2. e \in Events
    BY <2>1 DEF FlushState
  <2>3. rows' \in [Events -> Nat]
    BY <1>3, <2>2 DEF Insert
  <2>4. why' \in [Events -> SUBSET Causes]
    <3>1. UNCHANGED why \/ \E c \in Causes : Blame(c, {e})
      BY <1>3 DEF Insert, Causes
    <3> QED
      BY <3>1, BlameType
  <2> HIDE DEF e
  <2> DEFINE f == [flush[g] EXCEPT !.next = @ + 1, !.read = @ \cup {e}]
  <2>5. f \in FlushState /\ f.step = "insert" /\ f.upto = flush[g].upto
    <3>1. /\ flush[g] \in FlushState
          /\ flush[g].next + 1 \in 1 .. BatchSize + 1
          /\ flush[g].read \cup {e} \in SUBSET Events
      BY <2>1, <2>2 DEF FlushState
    <3> QED
      BY <2>1, <3>1 DEF FlushState
  <2>6. flush' = [flush EXCEPT ![g] = f]
    BY <2>1
  <2> HIDE DEF f
  <2>7. /\ flush'[g] \in FlushState
        /\ flush'[g].step = "insert"
        /\ flush'[g].upto = flush[g].upto
        /\ \A h \in Goroutines \ {g} : flush'[h] = flush[h]
    BY <2>5, <2>6
  <2>8. TypeOK'
    BY <2>1, <2>3, <2>4, <2>7
  <2>9. Turns'
    BY <2>1, <2>7 DEF Goroutines
  <2>10. Slots'
    BY <2>1, <2>7
  <2> QED
    BY <2>8, <2>9, <2>10
<1>4. CASE Truncate(g)
  <2>1. /\ len' = 0
        /\ flush' = [flush EXCEPT ![g] = NotFlushing]
        /\ UNCHANGED <<acked, buf, recv, up, rows, restarts>>
    BY <1>4 DEF Truncate
  <2>2. why' \in [Events -> SUBSET Causes]
    BY <1>4, BlameType DEF Truncate, Causes
  <2>3. /\ flush'[g] \in FlushState
        /\ flush'[g].step = "idle"
        /\ \A h \in Goroutines \ {g} : flush'[h] = flush[h]
    BY <2>1, EnteringType
  <2>4. TypeOK'
    BY <2>1, <2>2, <2>3
  <2>5. Turns'
    BY <2>1, <2>3 DEF Goroutines
  <2>6. Slots'
    BY <2>1, <2>3
  <2> QED
    BY <2>4, <2>5, <2>6
<1> QED
  BY <1>1, <1>2, <1>3, <1>4 DEF Flushing

\* A goroutine other than the receiver sets out to flush.
LEMMA ArrayInvEntering ==
  ASSUME ArrayInv, NEW g \in Goroutines \ {"receiver"},
         flush' = [flush EXCEPT ![g] = Entering],
         up' \in BOOLEAN,
         UNCHANGED <<acked, buf, len, recv, rows, why, restarts>>
  PROVE  ArrayInv'
<1> USE DEF ArrayInv, TypeOK, Turns, Slots, Filled, Idle
<1>1. /\ flush'[g] \in FlushState
      /\ flush'[g].step = "enter"
      /\ \A h \in Goroutines \ {g} : flush'[h] = flush[h]
  BY EnteringType
<1>2. TypeOK'
  BY <1>1
<1>3. Turns'
  BY <1>1 DEF Goroutines
<1>4. Slots'
  BY <1>1
<1> QED
  BY <1>2, <1>3, <1>4

LEMMA ArrayInvStep == ArrayInv /\ [Next]_vars => ArrayInv'
<1> SUFFICES ASSUME ArrayInv, [Next]_vars PROVE ArrayInv'
  OBVIOUS
<1>1. CASE Tick
  BY <1>1, ArrayInvEntering DEF Tick, Goroutines, ArrayInv, TypeOK
<1>2. CASE Signal
  BY <1>2, ArrayInvEntering DEF Signal, Goroutines
<1>3. CASE Restart
  <2>1. /\ buf' = EmptyArray /\ len' = 0 /\ recv' = Receiving
        /\ flush' = NoneFlushing /\ up' = TRUE
        /\ UNCHANGED <<acked, rows>> /\ restarts' = restarts + 1
    BY <1>3 DEF Restart
  <2>2. why' \in [Events -> SUBSET Causes]
    BY <1>3, BlameType DEF Restart, Causes, ArrayInv
  <2>3. TypeOK'
    BY <2>1, <2>2, EnteringType
       DEF ArrayInv, TypeOK, EmptyArray, Receiving, ReceiverState, NoneFlushing
  <2>4. Turns' /\ Slots'
    BY <2>1 DEF Turns, Slots, Filled, Idle, Receiving, NoneFlushing,
                NotFlushing, Goroutines
  <2> QED
    BY <2>3, <2>4 DEF ArrayInv
<1>4. CASE UNCHANGED vars
  BY <1>4 DEF vars, worker, ArrayInv, TypeOK, Turns, Slots, Filled, Idle
<1> QED
  BY <1>1, <1>2, <1>3, <1>4, ArrayInvReceiver, ArrayInvFlushing
     DEF Next, Exit, Crash

\* Every variable keeps its domain; in particular the length of the slice
\* never passes its capacity.
THEOREM TypeCorrect == Spec => []TypeOK
<1> ArrayInv => TypeOK
  BY DEF ArrayInv
<1> QED
  BY ArrayInvInit, ArrayInvStep, PTL DEF Spec

\* append always finds room in the array, although the ticker and main
\* truncate the slice without a lock.
THEOREM AppendAlwaysFits == Spec => []AppendFits
<1> ArrayInv => AppendFits
  BY DEF ArrayInv, Turns, AppendFits
<1> QED
  BY ArrayInvInit, ArrayInvStep, PTL DEF Spec

-----------------------------------------------------------------------------
(***************************************************************************)
(* Lost events.  An event is settled once it has a row or a cause.         *)
(***************************************************************************)

Settled(e) == rows[e] > 0 \/ why[e] # {}

Kept(e) == e \in Batched \/ Settled(e)

\* What a flush has read is settled, what is acknowledged or about to be is in
\* the batch or settled.
KeptInv ==
  /\ \A g \in Goroutines : \A e \in flush[g].read : Settled(e)
  /\ recv.step = "ack" => Kept(recv.msg)
  /\ recv.step = "check" => Kept(recv.msg)
  /\ \A e \in acked \ Malformed : Kept(e)

\* Nothing ever unsettles an event.
LEMMA SettledStays ==
  ASSUME ArrayInv, [Next]_vars, NEW e \in Events, Settled(e)
  PROVE  Settled(e)'
<1> USE DEF ArrayInv, TypeOK, Settled
<1>1. ASSUME NEW g \in Goroutines, NEW ok \in BOOLEAN, Insert(g, ok)
      PROVE  Settled(e)'
  BY <1>1 DEF Insert, Blame
<1>2. ASSUME NEW g \in Goroutines, Truncate(g)
      PROVE  Settled(e)'
  BY <1>2 DEF Truncate, Blame
<1>3. CASE Restart
  BY <1>3 DEF Restart, Blame
<1>4. CASE UNCHANGED <<rows, why>>
  BY <1>4
<1> QED
  BY <1>1, <1>2, <1>3, <1>4
     DEF Next, Receiver, Receive, Discard, Append, Grow, Ack, Check, Tick,
         Flushing, Enter, Open, Signal, Exit, Crash, vars

\* An event leaves the batch settled: a truncation has read it or is its
\* cause, and the end of the process is one as well.
LEMMA KeptStays ==
  ASSUME ArrayInv, KeptInv, [Next]_vars, NEW e \in Events, Kept(e)
  PROVE  Kept(e)'
<1> USE DEF ArrayInv, TypeOK
<1>1. CASE Settled(e)
  BY <1>1, SettledStays DEF Kept
<1> SUFFICES ASSUME e \in Batched PROVE Kept(e)'
  BY <1>1 DEF Kept
<1>2. ASSUME NEW g \in Goroutines, Truncate(g)
      PROVE  Settled(e)'
  <2>1. CASE e \in flush[g].read
    <3>1. Settled(e)
      BY <2>1 DEF KeptInv
    <3> QED
      BY <3>1, SettledStays
  <2>2. CASE e \notin flush[g].read
    BY <1>2, <2>2 DEF Truncate, Blame, Settled
  <2> QED
    BY <2>1, <2>2
<1>3. CASE Restart
  <2>1. Settled(e)'
    BY <1>3 DEF Restart, Blame, Settled
  <2> QED
    BY <2>1 DEF Kept
<1>4. CASE Append
  BY <1>4 DEF Append, Batched, Kept, Index
<1>5. CASE Grow
  BY <1>5 DEF Grow, Batched, Kept, Turns, Index
<1>6. CASE UNCHANGED <<buf, len>>
  BY <1>6 DEF Batched, Kept
<1> QED
  BY <1>2, <1>3, <1>4, <1>5, <1>6
     DEF Kept, Next, Receiver, Receive, Discard, Ack, Check, Tick, Flushing,
         Enter, Open, Insert, Signal, Exit, Crash, vars, worker

\* A flush marks an event as read in one way, by the turn of the loop that
\* leaves a row or a cause.
LEMMA ReadIsSettled ==
  ASSUME ArrayInv, NEW g \in Goroutines, NEW h \in Goroutines, Flushing(g),
         NEW e \in flush'[h].read, e \notin flush[h].read
  PROVE  e \in Events /\ Settled(e)'
<1> USE DEF ArrayInv, TypeOK
<1>1. CASE Enter(g)
  BY <1>1 DEF Enter, NotFlushing, FlushState
<1>2. CASE Open(g)
  BY <1>2 DEF Open, FlushState
<1>3. ASSUME NEW ok \in BOOLEAN, Insert(g, ok)
      PROVE  e \in Events /\ Settled(e)'
  <2>1. h = g /\ e = buf[flush[g].next]
    BY <1>3 DEF Insert, FlushState
  <2>2. e \in Events
    BY <1>3, <2>1 DEF Insert, FlushState, Slots, Filled
  <2>3. CASE ok
    BY <1>3, <2>1, <2>2, <2>3 DEF Insert, Settled
  <2>4. CASE ~ok
    <3>1. PICK c \in Causes : Blame(c, {e})
      BY <1>3, <2>1, <2>4 DEF Insert, Causes
    <3> QED
      BY <2>2, <3>1 DEF Blame, Settled
  <2> QED
    BY <2>2, <2>3, <2>4
<1>4. CASE Truncate(g)
  BY <1>4 DEF Truncate, NotFlushing, FlushState
<1> QED
  BY <1>1, <1>2, <1>3, <1>4 DEF Flushing

\* The steps that leave the receiver, or what a flush has read, alone.
LEMMA Frame ==
  ASSUME [Next]_vars
  PROVE  /\ \/ Receiver
            \/ UNCHANGED <<recv, acked>>
            \/ recv' = Receiving /\ UNCHANGED acked
         /\ \/ \E g \in Goroutines : Flushing(g)
            \/ flush' = NoneFlushing
            \/ flush' = flush
            \/ \E g \in Goroutines : flush' = [flush EXCEPT ![g] = Entering]
<1>1. ASSUME NEW g \in Goroutines, Flushing(g)
      PROVE  UNCHANGED <<recv, acked>>
  BY <1>1 DEF Flushing, Enter, Open, Insert, Truncate
<1>2. ASSUME Receiver
      PROVE  \/ flush' = flush
             \/ \E g \in Goroutines : flush' = [flush EXCEPT ![g] = Entering]
  BY <1>2 DEF Receiver, Receive, Discard, Append, Grow, Ack, Check, worker,
              Goroutines
<1>3. CASE Tick
  BY <1>3 DEF Tick, Goroutines
<1>4. CASE Signal
  BY <1>4 DEF Signal, Goroutines
<1>5. CASE Restart
  BY <1>5 DEF Restart
<1>6. CASE UNCHANGED vars
  BY <1>6 DEF vars, worker
<1> QED
  BY <1>1, <1>2, <1>3, <1>4, <1>5, <1>6 DEF Next, Exit, Crash

LEMMA KeptInvStep == ArrayInv /\ KeptInv /\ [Next]_vars => KeptInv'
<1> SUFFICES ASSUME ArrayInv, KeptInv, [Next]_vars PROVE KeptInv'
  OBVIOUS
<1> USE DEF ArrayInv, TypeOK
<1>1. ASSUME NEW g \in Goroutines, NEW e \in flush'[g].read
      PROVE  Settled(e)'
  <2>1. CASE e \in flush[g].read
    <3>1. e \in Events /\ Settled(e)
      BY <2>1 DEF KeptInv, FlushState
    <3> QED
      BY <3>1, SettledStays
  <2>2. CASE e \notin flush[g].read
    <3>1. PICK h \in Goroutines : Flushing(h)
      BY <2>2, Frame DEF NoneFlushing, NotFlushing, Entering
    <3> QED
      BY <2>2, <3>1, ReadIsSettled
  <2> QED
    BY <2>1, <2>2
<1>2. ASSUME recv'.step \in {"ack", "check"}
      PROVE  Kept(recv.msg)'
  <2>1. CASE Grow
    <3>1. /\ recv'.msg = recv.msg /\ len' = recv.seen + 1 /\ buf' = buf
          /\ buf[recv.seen + 1] = recv.msg /\ recv.seen \in Nat
      BY <2>1 DEF Grow, Turns, ReceiverState
    <3> QED
      BY <3>1 DEF Kept, Batched
  <2>2. CASE Ack
    <3>1. recv'.msg = recv.msg /\ Kept(recv.msg) /\ recv.msg \in Events
      BY <2>2 DEF Ack, KeptInv, Turns, ReceiverState
    <3> QED
      BY <3>1, KeptStays
  <2>3. CASE recv' = recv
    <3>1. Kept(recv.msg) /\ recv.msg \in Events
      BY <1>2, <2>3 DEF KeptInv, Turns
    <3> QED
      BY <2>3, <3>1, KeptStays
  <2>4. recv'.step \in {"ack", "check"} =>
          Grow \/ Ack \/ recv' = recv
    <3>1. ASSUME NEW e \in Events, Receive(e)
          PROVE  recv'.step = "append"
      BY <3>1 DEF Receive, ReceiverState
    <3>2. Append => recv'.step = "grow"
      BY DEF Append, ReceiverState
    <3>3. Check \/ recv' = Receiving => recv'.step = "receive"
      BY DEF Check, Receiving
    <3>4. ASSUME NEW e \in Events, Discard(e)
          PROVE  recv' = recv
      BY <3>4 DEF Discard, worker
    <3> QED
      BY <3>1, <3>2, <3>3, <3>4, Frame DEF Receiver
  <2> QED
    BY <1>2, <2>1, <2>2, <2>3, <2>4
<1>3. ASSUME NEW e \in acked' \ Malformed
      PROVE  Kept(e)'
  <2>1. CASE e \in acked
    BY <2>1, KeptStays DEF KeptInv
  <2>2. CASE Ack /\ e = recv.msg
    BY <2>2, KeptStays DEF Ack, KeptInv, Turns
  <2> QED
    BY <2>1, <2>2, Frame
       DEF Receiver, Receive, Discard, Append, Grow, Ack, Check
<1> QED
  BY <1>1, <1>2, <1>3 DEF KeptInv

\* An acknowledged event without a row is still in the batch or was lost in one
\* of the accounted ways, whatever the three goroutines do to the slice.
THEOREM LossesAccounted == Spec => []LossAccounted
<1>1. Init => KeptInv
  BY DEF Init, KeptInv, Receiving, NoneFlushing, NotFlushing
<1>2. ArrayInv /\ KeptInv => LossAccounted
  BY DEF ArrayInv, TypeOK, KeptInv, Kept, Settled, LossAccounted
<1> QED
  BY <1>1, <1>2, ArrayInvInit, ArrayInvStep, KeptInvStep, PTL DEF Spec

=============================================================================
