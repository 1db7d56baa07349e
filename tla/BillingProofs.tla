--------------------------- MODULE BillingProofs ---------------------------
(***************************************************************************)
(* Proofs about Billing, for all sets of requests, charges, triggers,      *)
(* letters and texts and however often processes are stopped.              *)
(***************************************************************************)
EXTENDS Billing, FiniteSetTheorems, WellFoundedInduction, TLAPS

USE DistinctAssumption, NoneAssumption, TriggersAssumption, StopsAssumption,
    NoMessageAssumption

-----------------------------------------------------------------------------
(***************************************************************************)
(* Messages.                                                               *)
(***************************************************************************)

LEMMA PlainMessage ==
  ASSUME NEW x \in Requests \cup Charges \cup Letters
  PROVE  /\ Plain(x) \in Messages
         /\ Plain(x).of = x /\ Plain(x).via = None /\ Plain(x).nth = 0
BY DEF Plain, Message, Messages

LEMMA FiredMessage ==
  ASSUME NEW c \in Charges, deliveries[c] \in 0 .. MaxStops + 1,
         NEW loaded \in SUBSET Triggers, NEW m \in Fired(c, loaded)
  PROVE  /\ m \in Messages /\ m.of = c /\ m.via \in Triggers
         /\ m.nth = deliveries[c] /\ ShouldTrigger(m.via, c)
BY DEF Fired, Message, Messages

LEMMA TopicOfMessage ==
  ASSUME NEW m
  PROVE  /\ TopicOf(m) \in {"commands", "email"}
         /\ TopicOf(m) = "commands" /\ m.via \in Triggers => m.via.action = "adjust_balance"
         /\ TopicOf(m) = "email" => m.via # None
BY DEF TopicOf

-----------------------------------------------------------------------------
(***************************************************************************)
(* Type correctness.  How often a charge is delivered is bounded by the    *)
(* stops of the monitor: what it has received, it does not receive again.  *)
(***************************************************************************)

RunInv ==
  /\ held \in [Topics -> SUBSET Messages]
  /\ acked \in [Topics -> SUBSET Messages]
  /\ current \in [Topics -> Messages \cup {None}]
  /\ \A t \in Topics : worked[t] => current[t] \in held[t]
  /\ \A m \in log["charges"] : \E c \in Charges : m = Plain(c)
  /\ \A c \in Charges :
       /\ deliveries[c] <= 1 + stops["charges"]
       /\ IF Plain(c) \in held["charges"] \cup acked["charges"]
            THEN deliveries[c] >= 1 ELSE deliveries[c] <= stops["charges"]

TypeInv == TypeOK /\ RunInv

LEMMA TypeInit == Init => TypeInv
<1> SUFFICES ASSUME Init PROVE TypeInv
  OBVIOUS
<1> PICK cs \in SUBSET Charges, ls \in SUBSET Letters :
           log = [t \in Topics |-> CASE t = "charges" -> {Plain(c) : c \in cs}
                                     [] t = "commands" -> {}
                                     [] t = "email" -> {Plain(l) : l \in ls}]
  BY DEF Init
<1>1. log \in [Topics -> SUBSET Messages]
  BY PlainMessage DEF Topics
<1>2. \A m \in log["charges"] : \E c \in Charges : m = Plain(c)
  BY DEF Topics
<1> QED
  BY <1>1, <1>2 DEF Init, TypeInv, TypeOK, RunInv, Topics

\* What a consumer that goes away, or a mail that takes it down, leaves behind.
LEMMA TypeRestart ==
  ASSUME TypeInv, NEW t \in Topics, Restart(t),
         \/ UNCHANGED stops /\ t # "charges"
         \/ CountStop(t)
  PROVE  TypeInv'
<1> USE DEF TypeInv
<1>1. UNCHANGED <<kind, charge, text, stage, failed, unsure, log, acked, applied, sent,
                  unloaded, deliveries>>
  BY DEF Restart, handlers, inputs, outcomes
<1>2. stops' \in [Topics \cup {"gateway"} -> 0 .. MaxStops]
      /\ \/ stops'["charges"] = stops["charges"] /\ t # "charges"
         \/ stops'["charges"] = stops["charges"] + 1 /\ t = "charges"
         \/ stops'["charges"] = stops["charges"] /\ t # "charges"
  BY DEF CountStop, Topics, TypeOK
<1>3. /\ held' \in [Topics -> SUBSET Messages]
      /\ current' \in [Topics -> Messages \cup {None}]
      /\ worked' \in [Topics -> BOOLEAN]
  BY DEF Restart, TypeOK, RunInv
<1>4. \A u \in Topics :
        /\ acked'[u] \cap held'[u] = {} /\ acked'[u] \cup held'[u] \subseteq log'[u]
        /\ current'[u] \in held'[u] \cup {None}
        /\ worked'[u] => current'[u] \in held'[u]
  BY <1>1 DEF Restart, TypeOK, RunInv
<1>5. pending' \in SUBSET Messages /\ lost' \in SUBSET Messages
  BY DEF Restart, TypeOK
<1>6. TypeOK'
  BY <1>1, <1>2, <1>3, <1>4, <1>5 DEF TypeOK
<1>7. ASSUME NEW c \in Charges
      PROVE  /\ deliveries[c] <= 1 + stops'["charges"]
             /\ IF Plain(c) \in held'["charges"] \cup acked["charges"]
                  THEN deliveries[c] >= 1 ELSE deliveries[c] <= stops'["charges"]
  <2>1. t = "charges" \/ held'["charges"] = held["charges"]
    BY DEF Restart, RunInv, Topics
  <2>2. deliveries[c] \in Int /\ stops["charges"] \in Int
    BY DEF TypeOK, Topics
  <2>3. held'["charges"] \subseteq held["charges"]
    BY DEF Restart, RunInv, Topics
  <2> QED
    BY <1>2, <2>1, <2>2, <2>3 DEF RunInv
<1>8. RunInv'
  BY <1>1, <1>3, <1>4, <1>7 DEF RunInv, Plain, Message
<1> QED
  BY <1>6, <1>8

LEMMA TypeHandlers ==
  ASSUME TypeInv,
         \/ \E r \in Requests : Call(r) \/ Answer(r) \/ Cancel(r)
         \/ \E m \in pending : Send(m)
         \/ StopGateway
  PROVE  TypeInv'
<1> USE DEF TypeInv, consumers, inputs, outcomes, handlers
<1>1. ASSUME NEW r \in Requests, Call(r)
      PROVE  TypeInv'
  BY <1>1 DEF Call, Stage, Apply, TypeOK, RunInv
<1>2. ASSUME NEW r \in Requests, Answer(r)
      PROVE  TypeInv'
  BY <1>2, PlainMessage DEF Answer, Stage, TypeOK, RunInv
<1>3. ASSUME NEW r \in Requests, Cancel(r)
      PROVE  TypeInv'
  BY <1>3 DEF Cancel, TypeOK, RunInv
<1>4. ASSUME NEW m \in pending, Send(m)
      PROVE  TypeInv'
  <2>1. /\ log' \in [Topics -> SUBSET Messages]
        /\ \A t \in Topics : log[t] \subseteq log'[t]
        /\ log'["charges"] = log["charges"]
    BY <1>4, TopicOfMessage DEF Send, TypeOK, Topics
  <2>2. TypeOK'
    BY <1>4, <2>1 DEF Send, TypeOK, Topics
  <2>3. RunInv'
    BY <1>4, <2>1 DEF Send, RunInv
  <2> QED
    BY <2>2, <2>3
<1>5. CASE StopGateway
  <2>1. stops' \in [Topics \cup {"gateway"} -> 0 .. MaxStops]
        /\ stops'["charges"] = stops["charges"]
    BY <1>5 DEF StopGateway, CountStop, TypeOK, Topics
  <2>2. TypeOK'
    BY <1>5, <2>1 DEF StopGateway, TypeOK
  <2>3. RunInv'
    BY <1>5, <2>1 DEF StopGateway, RunInv
  <2> QED
    BY <2>2, <2>3
<1> QED
  BY <1>1, <1>2, <1>3, <1>4, <1>5

LEMMA TypeConsumers ==
  ASSUME TypeInv,
         \/ \E t \in Topics : Consume(t)
         \/ Monitor \/ Execute \/ SendMail \/ FailMail
  PROVE  TypeInv'
<1> USE DEF TypeInv, inputs, outcomes, handlers
<1>1. ASSUME NEW t \in Topics, Receive(t)
      PROVE  TypeInv'
  <2> PICK m \in log[t] \ (held[t] \cup acked[t]) :
             /\ current' = [current EXCEPT ![t] = m]
             /\ held' = [held EXCEPT ![t] = @ \cup {m}]
             /\ deliveries' = IF t = "charges" THEN [deliveries EXCEPT ![m.of] = @ + 1]
                              ELSE deliveries
    BY <1>1 DEF Receive
  <2>1. m \in Messages
    BY DEF TypeOK
  <2>2. /\ held' \in [Topics -> SUBSET Messages]
        /\ current' \in [Topics -> Messages \cup {None}]
        /\ held'[t] = held[t] \cup {m} /\ current'[t] = m
        /\ \A u \in Topics \ {t} : held'[u] = held[u] /\ current'[u] = current[u]
    BY <2>1 DEF RunInv
  <2>3. /\ deliveries' \in [Charges -> 0 .. MaxStops + 1]
        /\ \A c \in Charges :
             /\ deliveries'[c] <= 1 + stops["charges"]
             /\ IF Plain(c) \in held'["charges"] \cup acked["charges"]
                  THEN deliveries'[c] >= 1 ELSE deliveries'[c] <= stops["charges"]
    <3>1. stops["charges"] \in 0 .. MaxStops
      BY DEF TypeOK, Topics
    <3>2. CASE t = "charges"
      <4> PICK d \in Charges : m = Plain(d)
        BY <3>2 DEF RunInv
      <4>1. m.of = d /\ \A c \in Charges : Plain(c) = m => c = d
        BY PlainMessage
      <4>2. deliveries[d] <= stops["charges"]
        BY <3>2 DEF RunInv
      <4> QED
        BY <2>2, <3>1, <3>2, <4>1, <4>2 DEF TypeOK, RunInv
    <3>3. CASE t # "charges"
      BY <2>2, <3>3 DEF TypeOK, RunInv, Topics
    <3> QED
      BY <3>2, <3>3
  <2>4. TypeOK'
    BY <1>1, <2>1, <2>2, <2>3 DEF Receive, TypeOK
  <2>5. RunInv'
    BY <1>1, <2>1, <2>2, <2>3 DEF Receive, RunInv, TypeOK
  <2> QED
    BY <2>4, <2>5
<1>2. ASSUME NEW t \in Topics, Parse(t)
      PROVE  TypeInv'
  <2>1. /\ worked' = [worked EXCEPT ![t] = TRUE] /\ current[t] \in held[t]
        /\ UNCHANGED <<handlers, pending, log, held, acked, current, inputs, stops, outcomes,
                       deliveries, lost>>
    BY <1>2 DEF Parse, Discard, At, Worked
  <2>2. TypeOK'
    BY <2>1 DEF TypeOK
  <2>3. RunInv'
    BY <2>1 DEF RunInv, TypeOK
  <2> QED
    BY <2>2, <2>3
<1>3. ASSUME NEW t \in Topics, Ack(t)
      PROVE  TypeInv'
  <2>1. current[t] \in held[t] /\ current[t] \in Messages
    BY <1>3 DEF Ack, RunInv
  <2>2. /\ held' \in [Topics -> SUBSET Messages]
        /\ acked' \in [Topics -> SUBSET Messages]
        /\ current' \in [Topics -> Messages \cup {None}]
        /\ \A u \in Topics :
             /\ held'[u] \cup acked'[u] = held[u] \cup acked[u]
             /\ held'[u] \cap acked'[u] = {}
             /\ current'[u] \in held'[u] \cup {None}
             /\ worked'[u] => current'[u] \in held'[u]
    BY <1>3, <2>1 DEF Ack, RunInv, TypeOK
  <2>3. TypeOK'
    BY <1>3, <2>2 DEF Ack, TypeOK
  <2>4. RunInv'
    <3>1. held'["charges"] \cup acked'["charges"] = held["charges"] \cup acked["charges"]
      BY <2>2 DEF Topics
    <3>2. \A x : x \in held'["charges"] \cup acked'["charges"]
                 <=> x \in held["charges"] \cup acked["charges"]
      BY <3>1
    <3> QED
      BY <1>3, <2>2, <3>2 DEF Ack, RunInv
  <2> QED
    BY <2>3, <2>4
<1>4. CASE Monitor
  <2> PICK m \in held["charges"], loaded \in SUBSET Triggers :
             /\ At("charges", m)
             /\ ~Malformed(m)
             /\ pending' = pending \cup Fired(m.of, loaded)
             /\ unloaded' = unloaded \cup ({m.of} \X (Triggers \ loaded))
    BY <1>4 DEF Monitor
  <2>1. m.of \in Charges
    <3>1. m \in log["charges"]
      BY DEF TypeOK, Topics
    <3> QED
      BY <3>1, PlainMessage DEF RunInv
  <2>2. Fired(m.of, loaded) \subseteq Messages
    BY <2>1, FiredMessage DEF TypeOK
  <2>3. /\ worked' = [worked EXCEPT !["charges"] = TRUE] /\ current["charges"] \in held["charges"]
        /\ UNCHANGED <<handlers, log, held, acked, current, inputs, stops, applied, sent,
                       deliveries, lost>>
    BY <1>4 DEF Monitor, Worked, At
  <2>4. TypeOK'
    BY <2>1, <2>2, <2>3 DEF TypeOK
  <2>5. RunInv'
    BY <2>3 DEF RunInv, TypeOK, Topics
  <2> QED
    BY <2>4, <2>5
<1>5. CASE Execute
  <2> PICK m \in held["commands"] : At("commands", m) /\ Apply(m.of)
    BY <1>5 DEF Execute
  <2>0. applied' \in [Requests \cup Charges -> Nat]
    <3>1. applied \in [Requests \cup Charges -> Nat]
      BY DEF TypeOK
    <3>2. CASE m.of \in Requests \cup Charges
      BY <3>1, <3>2 DEF Apply
    <3>3. CASE m.of \notin Requests \cup Charges
      <4>1. applied' = applied
        BY <3>1, <3>3 DEF Apply
      <4> QED
        BY <3>1, <4>1
    <3> QED
      BY <3>2, <3>3
  <2>1. /\ worked' = [worked EXCEPT !["commands"] = TRUE] /\ current["commands"] \in held["commands"]
        /\ applied' \in [Requests \cup Charges -> Nat]
        /\ UNCHANGED <<handlers, pending, log, held, acked, current, inputs, stops, sent,
                       unloaded, deliveries, lost>>
    BY <1>5, <2>0 DEF Execute, Worked, At
  <2>2. TypeOK'
    BY <2>1 DEF TypeOK
  <2>3. RunInv'
    BY <2>1 DEF RunInv, TypeOK
  <2> QED
    BY <2>2, <2>3
<1>6. CASE SendMail
  <2>1. /\ worked' = [worked EXCEPT !["email"] = TRUE] /\ current["email"] \in held["email"]
        /\ \A x \in sent' \ sent : x.mail \in log["email"]
        /\ UNCHANGED <<handlers, pending, log, held, acked, current, inputs, stops, applied,
                       unloaded, deliveries, lost>>
    BY <1>6 DEF SendMail, Worked, Mail, At, TypeOK, Topics
  <2>2. TypeOK'
    BY <2>1 DEF TypeOK
  <2>3. RunInv'
    BY <2>1 DEF RunInv, TypeOK
  <2> QED
    BY <2>2, <2>3
<1>7. CASE FailMail
  BY <1>7 DEF FailMail, AfterError, Skip, Mail, At, TypeOK, RunInv, Topics
<1> QED
  BY <1>1, <1>2, <1>3, <1>4, <1>5, <1>6, <1>7 DEF Consume

LEMMA TypeStep == TypeInv /\ [Next]_vars => TypeInv'
<1> SUFFICES ASSUME TypeInv, [Next]_vars PROVE TypeInv'
  OBVIOUS
<1>1. CASE Crash
  BY <1>1, TypeRestart DEF Crash, Topics
<1>2. ASSUME NEW t \in Topics, Stop(t)
      PROVE  TypeInv'
  BY <1>2, TypeRestart DEF Stop
<1>3. CASE UNCHANGED vars
  BY <1>3 DEF vars, handlers, consumers, inputs, outcomes, TypeInv, TypeOK, RunInv
<1> QED
  BY <1>1, <1>2, <1>3, TypeHandlers, TypeConsumers DEF Next

\* The parts of the system, and what is between them, stay of their types; in
\* particular a message a consumer is at work on is one it holds.
THEOREM TypeCorrect == Spec => []TypeOK
<1>1. TypeInv => TypeOK
  BY DEF TypeInv
<1> QED
  BY <1>1, TypeInit, TypeStep, PTL DEF Spec

-----------------------------------------------------------------------------
(***************************************************************************)
(* What is queued.  The invariant says where a message comes from: from a  *)
(* handler that has answered and left the work to a topic, or from the     *)
(* monitor, for one of the deliveries of a charge.                         *)
(***************************************************************************)

FromGateway(m) ==
  /\ m.of \in Requests
  /\ m = Plain(m.of)
  /\ stage[m.of] = "answered"
  /\ Queues(m.of)

FromMonitor(m) ==
  /\ m.of \in Charges
  /\ m.via \in Triggers
  /\ m.nth \in 1 .. 1 + stops["charges"]

QueueInv ==
  /\ held["commands"] \subseteq {current["commands"]}
  /\ \A r \in failed : kind[r] = "adjust" /\ stage[r] # "new"
  /\ \A m \in pending \cup log["commands"] : FromGateway(m) \/ FromMonitor(m)
  /\ \A m \in log["commands"] : m.via = None \/ m.via.action = "adjust_balance"

LEMMA NoCommandIsMalformed ==
  ASSUME TypeInv, QueueInv, NEW m \in log["commands"]
  PROVE  ~Malformed(m)
BY DEF QueueInv, FromGateway, FromMonitor, Malformed, TypeInv, TypeOK

\* Where a message came from is not forgotten.
LEMMA OriginKept ==
  ASSUME TypeInv, NEW m \in Messages, FromGateway(m) \/ FromMonitor(m),
         kind' = kind, failed \subseteq failed',
         \A r \in Requests : stage[r] = "answered" => stage'[r] = "answered",
         stops'["charges"] \in Int, stops["charges"] <= stops'["charges"]
  PROVE  FromGateway(m)' \/ FromMonitor(m)'
<1>1. stops["charges"] \in Int
  BY DEF TypeInv, TypeOK, Topics
<1> QED
  BY <1>1 DEF FromGateway, FromMonitor, Queues, Plain, Message

LEMMA QueueStep == TypeInv /\ QueueInv /\ [Next]_vars => QueueInv'
<1> SUFFICES ASSUME TypeInv, QueueInv, [Next]_vars PROVE QueueInv'
  OBVIOUS
<1>0. stops["charges"] \in Int /\ pending \subseteq Messages /\ log["commands"] \subseteq Messages
  BY DEF TypeInv, TypeOK, Topics
<1> USE <1>0 DEF handlers, consumers, inputs, outcomes
<1>1. ASSUME NEW r \in Requests, Call(r)
      PROVE  QueueInv'
  <2>1. \A q \in Requests : stage[q] = "answered" => stage'[q] = "answered"
    BY <1>1 DEF Call, Stage, TypeInv, TypeOK
  <2>2. \A m \in pending \cup log["commands"] : (FromGateway(m) \/ FromMonitor(m))'
    BY <1>1, <2>1, OriginKept DEF Call, QueueInv
  <2>3. \A q \in failed' : kind'[q] = "adjust" /\ stage'[q] # "new"
    BY <1>1 DEF Call, Stage, QueueInv, TypeInv, TypeOK
  <2> QED
    BY <1>1, <2>2, <2>3 DEF Call, QueueInv
<1>2. ASSUME NEW r \in Requests, Answer(r)
      PROVE  QueueInv'
  <2>1. \A q \in Requests : stage[q] = "answered" => stage'[q] = "answered"
    BY <1>2 DEF Answer, Stage, TypeInv, TypeOK
  <2>2. \A m \in pending \cup log["commands"] : (FromGateway(m) \/ FromMonitor(m))'
    BY <1>2, <2>1, OriginKept DEF Answer, QueueInv
  <2>3. \A q \in failed' : kind'[q] = "adjust" /\ stage'[q] # "new"
    BY <1>2 DEF Answer, Stage, QueueInv, TypeInv, TypeOK
  <2>4. Queues(r) => FromGateway(Plain(r))'
    BY <1>2, PlainMessage DEF Answer, Stage, FromGateway, Queues, TypeInv, TypeOK, Plain, Message
  <2> QED
    BY <1>2, <2>2, <2>3, <2>4 DEF Answer, QueueInv
<1>3. ASSUME NEW r \in Requests, Cancel(r)
      PROVE  QueueInv'
  <2>1. \A m \in pending \cup log["commands"] : (FromGateway(m) \/ FromMonitor(m))'
    BY <1>3, OriginKept DEF Cancel, QueueInv
  <2> QED
    BY <1>3, <2>1 DEF Cancel, QueueInv
<1>4. ASSUME NEW m \in pending, Send(m)
      PROVE  QueueInv'
  <2>1. \A n \in pending \cup log["commands"] : (FromGateway(n) \/ FromMonitor(n))'
    BY <1>4, OriginKept DEF Send, QueueInv
  <2>2. log'["commands"] \subseteq
          log["commands"] \cup (IF TopicOf(m) = "commands" THEN {m} ELSE {})
    BY <1>4 DEF Send, TypeInv, TypeOK, Topics
  <2>3. TopicOf(m) = "commands" => m.via = None \/ m.via.action = "adjust_balance"
    BY TopicOfMessage DEF Messages
  <2> QED
    BY <1>4, <2>1, <2>2, <2>3 DEF Send, QueueInv
<1>5. ASSUME NEW t \in Topics, Receive(t)
      PROVE  QueueInv'
  <2>1. \A m \in pending \cup log["commands"] : (FromGateway(m) \/ FromMonitor(m))'
    BY <1>5, OriginKept DEF Receive, QueueInv
  <2>2. held'["commands"] \subseteq {current'["commands"]}
    BY <1>5 DEF Receive, QueueInv, TypeInv, RunInv, Topics
  <2> QED
    BY <1>5, <2>1, <2>2 DEF Receive, QueueInv
<1>6. ASSUME NEW t \in Topics, Parse(t)
      PROVE  QueueInv'
  <2>1. \A m \in pending \cup log["commands"] : (FromGateway(m) \/ FromMonitor(m))'
    BY <1>6, OriginKept DEF Parse, QueueInv
  <2> QED
    BY <1>6, <2>1 DEF Parse, Discard, QueueInv
<1>7. ASSUME NEW t \in Topics, Ack(t)
      PROVE  QueueInv'
  <2>1. \A m \in pending \cup log["commands"] : (FromGateway(m) \/ FromMonitor(m))'
    BY <1>7, OriginKept DEF Ack, QueueInv
  <2>2. held'["commands"] \subseteq {current'["commands"]}
    BY <1>7 DEF Ack, QueueInv, TypeInv, RunInv, Topics
  <2> QED
    BY <1>7, <2>1, <2>2 DEF Ack, QueueInv
<1>8. CASE Monitor
  <2>1. \A m \in pending \cup log["commands"] : (FromGateway(m) \/ FromMonitor(m))'
    BY <1>8, OriginKept DEF Monitor, QueueInv
  <2>2. ASSUME NEW m \in held["charges"], NEW loaded \in SUBSET Triggers,
               NEW n \in Fired(m.of, loaded)
        PROVE  FromMonitor(n)
    <3> PICK c \in Charges : m = Plain(c)
      BY DEF TypeInv, TypeOK, RunInv, Topics
    <3>1. deliveries[c] \in 1 .. 1 + stops["charges"] /\ m.of = c
      BY PlainMessage DEF TypeInv, TypeOK, RunInv
    <3> QED
      BY <2>2, <3>1, FiredMessage DEF FromMonitor, TypeInv, TypeOK
  <2>3. \A n \in pending' : n \in pending \/ FromMonitor(n)
    BY <1>8, <2>2 DEF Monitor
  <2> QED
    BY <1>8, <2>1, <2>3 DEF Monitor, QueueInv, FromMonitor
<1>9. CASE Execute \/ SendMail
  <2>1. \A m \in pending \cup log["commands"] : (FromGateway(m) \/ FromMonitor(m))'
    BY <1>9, OriginKept DEF Execute, SendMail, QueueInv
  <2> QED
    BY <1>9, <2>1 DEF Execute, SendMail, QueueInv
<1>10. CASE FailMail
  <2>1. \A m \in pending \cup log["commands"] : (FromGateway(m) \/ FromMonitor(m))'
    BY <1>10, OriginKept DEF FailMail, QueueInv
  <2>2. held'["commands"] = held["commands"] /\ current'["commands"] = current["commands"]
    BY <1>10 DEF FailMail, AfterError, Skip, TypeInv, RunInv
  <2> QED
    BY <1>10, <2>1, <2>2 DEF FailMail, QueueInv
<1>11. ASSUME NEW t \in Topics, Restart(t), UNCHANGED stops \/ CountStop(t)
       PROVE  QueueInv'
  <2>1. stops'["charges"] \in Int /\ stops["charges"] <= stops'["charges"]
    BY <1>11 DEF CountStop, TypeInv, TypeOK, Topics
  <2>2. \A m \in pending \cup log["commands"] : (FromGateway(m) \/ FromMonitor(m))'
    BY <1>11, <2>1, OriginKept DEF Restart, QueueInv
  <2>3. held'["commands"] \subseteq {current'["commands"]}
    BY <1>11 DEF Restart, QueueInv, TypeInv, RunInv, Topics
  <2> QED
    BY <1>11, <2>2, <2>3 DEF Restart, QueueInv
<1>12. CASE StopGateway
  <2>1. stops'["charges"] = stops["charges"]
    BY <1>12 DEF StopGateway, CountStop, TypeInv, TypeOK, Topics
  <2>2. \A q \in Requests : stage[q] = "answered" => stage'[q] = "answered"
    BY <1>12 DEF StopGateway
  <2>3. \A m \in pending \cup log["commands"] : (FromGateway(m) \/ FromMonitor(m))'
    BY <1>12, <2>1, <2>2, OriginKept DEF StopGateway, QueueInv
  <2>4. \A q \in failed : stage'[q] # "new"
    BY <1>12 DEF StopGateway, QueueInv, TypeInv, TypeOK
  <2> QED
    BY <1>12, <2>3, <2>4 DEF StopGateway, QueueInv
<1>13. CASE UNCHANGED vars
  <2>1. \A m \in pending \cup log["commands"] : (FromGateway(m) \/ FromMonitor(m))'
    BY <1>13, OriginKept DEF vars, QueueInv
  <2> QED
    BY <1>13, <2>1 DEF vars, QueueInv
<1> QED
  BY <1>1, <1>2, <1>3, <1>4, <1>5, <1>6, <1>7, <1>8, <1>9, <1>10, <1>11, <1>12, <1>13
     DEF Next, Consume, Crash, Stop, Topics

-----------------------------------------------------------------------------
(***************************************************************************)
(* How often something is applied.  An application is the RPC's, or the    *)
(* work done for a message, or work that a stop has made forgotten.        *)
(***************************************************************************)

Direct(x) ==
  IF /\ x \in Requests
     /\ kind[x] = "adjust"
     /\ stage[x] # "new"
     /\ x \in failed => x \in unsure
  THEN 1 ELSE 0

\* The commands carried out, as far as the service knows.
Done == acked["commands"] \cup {m \in held["commands"] : worked["commands"]}
DoneFor(x) == {m \in Done : m.of = x}

ApplyInv ==
  \A x \in Requests \cup Charges :
    applied[x] <= Direct(x) + Cardinality(DoneFor(x)) + stops["commands"]

Adjusting == {t \in Triggers : t.action = "adjust_balance"}

LEMMA DoneForRequest ==
  ASSUME TypeInv, QueueInv, NEW r \in Requests
  PROVE  /\ DoneFor(r) \subseteq {Plain(r)}
         /\ IsFiniteSet(DoneFor(r))
         /\ Cardinality(DoneFor(r)) \in 0 .. 1
         /\ DoneFor(r) = {} => Cardinality(DoneFor(r)) = 0
         /\ ~Queues(r) => Cardinality(DoneFor(r)) = 0
<1>1. \A m \in DoneFor(r) : m = Plain(r) /\ Queues(r)
  <2> SUFFICES ASSUME NEW m \in DoneFor(r) PROVE m = Plain(r) /\ Queues(r)
    OBVIOUS
  <2>1. m \in log["commands"] /\ m.of = r
    BY DEF DoneFor, Done, TypeInv, TypeOK, Topics
  <2>2. ~FromMonitor(m)
    BY <2>1 DEF FromMonitor
  <2> QED
    BY <2>1, <2>2 DEF QueueInv, FromGateway
<1>2. IsFiniteSet({Plain(r)}) /\ Cardinality({Plain(r)}) = 1
  BY FS_Singleton
<1>3. IsFiniteSet(DoneFor(r)) /\ Cardinality(DoneFor(r)) <= 1
  BY <1>1, <1>2, FS_Subset
<1>4. DoneFor(r) = {} => Cardinality(DoneFor(r)) = 0
  BY FS_EmptySet
<1> QED
  BY <1>1, <1>3, <1>4, FS_CardinalityType

LEMMA DoneForCharge ==
  ASSUME TypeInv, QueueInv, NEW c \in Charges
  PROVE  /\ IsFiniteSet(DoneFor(c))
         /\ Cardinality(DoneFor(c)) \in Nat
         /\ Cardinality(Adjusting) \in Nat
         /\ Cardinality(DoneFor(c)) <= Cardinality(Adjusting) * (1 + stops["charges"])
<1> DEFINE Runs == Adjusting \X (1 .. 1 + stops["charges"])
<1> DEFINE f == [m \in DoneFor(c) |-> <<m.via, m.nth>>]
<1>0. stops["charges"] \in Nat
  BY DEF TypeInv, TypeOK, Topics
<1>1. ASSUME NEW m \in DoneFor(c)
      PROVE  /\ m \in Messages /\ m.of = c
             /\ m.via \in Adjusting /\ m.nth \in 1 .. 1 + stops["charges"]
  <2>1. m \in log["commands"] /\ m.of = c /\ m \in Messages
    BY DEF DoneFor, Done, TypeInv, TypeOK, Topics
  <2>2. ~FromGateway(m)
    BY <2>1 DEF FromGateway
  <2>3. FromMonitor(m)
    BY <2>1, <2>2 DEF QueueInv
  <2>4. m.via = None \/ m.via.action = "adjust_balance"
    BY <2>1 DEF QueueInv
  <2> QED
    BY <2>1, <2>3, <2>4 DEF FromMonitor, Adjusting
<1>2. f \in [DoneFor(c) -> Runs]
  BY <1>1
<1>3. ASSUME NEW m \in DoneFor(c), NEW n \in DoneFor(c), f[m] = f[n]
      PROVE  m = n
  <2>1. m.via = n.via /\ m.nth = n.nth
    BY <1>3
  <2> QED
    BY <1>1, <2>1 DEF Messages
<1>4. f \in Injection(DoneFor(c), Runs)
  BY <1>2, <1>3 DEF Injection, IsInjective
<1>5. IsFiniteSet(Adjusting) /\ Cardinality(Adjusting) \in Nat
  BY FS_Subset, FS_CardinalityType DEF Adjusting
<1>6. /\ IsFiniteSet(1 .. 1 + stops["charges"])
      /\ Cardinality(1 .. 1 + stops["charges"]) = 1 + stops["charges"]
  BY <1>0, FS_Interval
<1>7. IsFiniteSet(Runs) /\ Cardinality(Runs) = Cardinality(Adjusting) * (1 + stops["charges"])
  BY <1>5, <1>6, FS_Product
<1> HIDE DEF f, Runs
<1>8. IsFiniteSet(DoneFor(c)) /\ Cardinality(DoneFor(c)) <= Cardinality(Runs)
  BY <1>4, <1>7, FS_Injection
<1> QED
  BY <1>5, <1>7, <1>8, FS_CardinalityType

LEMMA DoneForType ==
  ASSUME TypeInv, QueueInv, NEW x \in Requests \cup Charges
  PROVE  IsFiniteSet(DoneFor(x)) /\ Cardinality(DoneFor(x)) \in Nat
BY DoneForRequest, DoneForCharge

\* Steps that neither apply anything nor touch the work done.
LEMMA ApplyKept ==
  ASSUME TypeInv, QueueInv, ApplyInv, Done' = Done,
         applied' = applied, kind' = kind, failed' = failed, unsure' = unsure,
         \A r \in Requests : stage[r] # "new" => stage'[r] # "new",
         stops'["commands"] \in Int, stops["commands"] <= stops'["commands"]
  PROVE  ApplyInv'
<1> SUFFICES ASSUME NEW x \in Requests \cup Charges
             PROVE  applied[x] <= Direct(x)' + Cardinality(DoneFor(x)') + stops'["commands"]
  BY DEF ApplyInv
<1>1. DoneFor(x)' = DoneFor(x) /\ Cardinality(DoneFor(x)) \in Nat
  BY DoneForType DEF DoneFor
<1>2. Direct(x) \in Int /\ Direct(x)' \in Int /\ Direct(x) <= Direct(x)'
  BY DEF Direct
<1>3. applied[x] \in Int /\ stops["commands"] \in Int
  BY DEF TypeInv, TypeOK, Topics
<1> QED
  BY <1>1, <1>2, <1>3 DEF ApplyInv

LEMMA ApplyCall ==
  ASSUME TypeInv, QueueInv, ApplyInv, NEW r \in Requests, Call(r)
  PROVE  ApplyInv'
<1> SUFFICES ASSUME NEW x \in Requests \cup Charges
             PROVE  applied'[x] <= Direct(x)' + Cardinality(DoneFor(x)') + stops'["commands"]
  BY DEF ApplyInv
<1>1. DoneFor(x)' = DoneFor(x) /\ Cardinality(DoneFor(x)) \in Nat
  BY DoneForType DEF Call, consumers, DoneFor, Done
<1>2. applied[x] \in Int /\ stops["commands"] \in Int /\ stops' = stops
  BY DEF TypeInv, TypeOK, Topics, Call
<1>3. CASE x = r
  <2>1. Direct(x) = 0
    BY <1>3 DEF Direct, Call
  <2>2. r \notin failed /\ r \notin unsure
    BY DEF Call, QueueInv, TypeInv, TypeOK
  <2>3. stage'[r] = "called" /\ kind'[r] = "adjust"
    BY DEF Call, Stage, TypeInv, TypeOK, inputs
  <2>4. CASE applied'[r] = applied[r]
    BY <1>1, <1>2, <1>3, <2>1, <2>4 DEF ApplyInv, Direct
  <2>5. CASE Apply(r) /\ (r \in failed' => r \in unsure')
    <3>1. applied'[r] = applied[r] + 1
      BY <2>5 DEF Apply, TypeInv, TypeOK
    <3>2. Direct(x)' = 1
      BY <1>3, <2>3, <2>5 DEF Direct
    <3> QED
      BY <1>1, <1>2, <1>3, <2>1, <3>1, <3>2 DEF ApplyInv
  <2> QED
    BY <2>2, <2>4, <2>5 DEF Call
<1>4. CASE x # r
  <2>1. applied'[x] = applied[x]
    BY <1>4 DEF Call, Apply, TypeInv, TypeOK
  <2>2. Direct(x)' = Direct(x) /\ Direct(x) \in Int
    BY <1>4 DEF Call, Stage, Direct, TypeInv, TypeOK, inputs
  <2> QED
    BY <1>1, <1>2, <2>1, <2>2 DEF ApplyInv
<1> QED
  BY <1>3, <1>4

\* A command that is carried out is one more that is done, for the same x.
LEMMA ApplyExecute ==
  ASSUME TypeInv, QueueInv, ApplyInv, Execute
  PROVE  ApplyInv'
<1> PICK m \in held["commands"] : At("commands", m) /\ Apply(m.of)
  BY DEF Execute
<1>1. /\ m \in log["commands"] /\ m \notin acked["commands"]
      /\ held["commands"] = {m} /\ ~worked["commands"]
  BY DEF TypeInv, TypeOK, QueueInv, At, Topics
<1>2. m.of \in Requests \cup Charges
  BY <1>1 DEF QueueInv, FromGateway, FromMonitor
<1>3. m \notin Done /\ Done' = Done \cup {m}
  BY <1>1 DEF Done, Execute, Worked, TypeInv, TypeOK, Topics
<1> SUFFICES ASSUME NEW x \in Requests \cup Charges
             PROVE  applied'[x] <= Direct(x)' + Cardinality(DoneFor(x)') + stops'["commands"]
  BY DEF ApplyInv
<1>4. applied[x] \in Int /\ stops["commands"] \in Int /\ stops' = stops
  BY DEF TypeInv, TypeOK, Topics, Execute
<1>5. Direct(x)' = Direct(x) /\ Direct(x) \in Int
  BY DEF Direct, Execute, inputs, handlers
<1>6. IsFiniteSet(DoneFor(x)) /\ Cardinality(DoneFor(x)) \in Nat
  BY DoneForType
<1>7. CASE x = m.of
  <2>1. DoneFor(x)' = DoneFor(x) \cup {m} /\ m \notin DoneFor(x)
    BY <1>3, <1>7 DEF DoneFor
  <2>2. Cardinality(DoneFor(x)') = Cardinality(DoneFor(x)) + 1
    BY <1>6, <2>1, FS_AddElement
  <2>3. applied'[x] = applied[x] + 1
    BY <1>2, <1>7 DEF Apply, TypeInv, TypeOK
  <2> QED
    BY <1>4, <1>5, <1>6, <2>2, <2>3 DEF ApplyInv
<1>8. CASE x # m.of
  <2>1. DoneFor(x)' = DoneFor(x)
    BY <1>3, <1>8 DEF DoneFor
  <2>2. applied'[x] = applied[x]
    BY <1>2, <1>8 DEF Apply, TypeInv, TypeOK
  <2> QED
    BY <1>4, <1>5, <1>6, <2>1, <2>2 DEF ApplyInv
<1> QED
  BY <1>7, <1>8

\* The service goes away: it forgets what it holds, which is one at most.
LEMMA ApplyStop ==
  ASSUME TypeInv, QueueInv, ApplyInv, Stop("commands")
  PROVE  ApplyInv'
<1>1. stops'["commands"] = stops["commands"] + 1 /\ stops["commands"] \in Int
  BY DEF Stop, CountStop, TypeInv, TypeOK, Topics
<1>2. \E m : Done \ {m} \subseteq Done' /\ Done' \subseteq Done
  <2>1. Done' = acked["commands"]
    BY DEF Stop, Restart, Done, RunInv, TypeInv, TypeOK, Topics
  <2>2. Done \ {current["commands"]} \subseteq acked["commands"]
    BY DEF Done, QueueInv
  <2> QED
    BY <2>1, <2>2 DEF Done
<1> PICK m : Done \ {m} \subseteq Done' /\ Done' \subseteq Done
  BY <1>2
<1> SUFFICES ASSUME NEW x \in Requests \cup Charges
             PROVE  applied'[x] <= Direct(x)' + Cardinality(DoneFor(x)') + stops'["commands"]
  BY DEF ApplyInv
<1>3. applied'[x] = applied[x] /\ applied[x] \in Int
  BY DEF Stop, Restart, outcomes, TypeInv, TypeOK
<1>4. Direct(x)' = Direct(x) /\ Direct(x) \in Int
  BY DEF Direct, Stop, Restart, inputs, handlers
<1>5. IsFiniteSet(DoneFor(x)) /\ Cardinality(DoneFor(x)) \in Nat
  BY DoneForType
<1>6. DoneFor(x) \ {m} \subseteq DoneFor(x)' /\ DoneFor(x)' \subseteq DoneFor(x)
  BY DEF DoneFor
<1>7. IsFiniteSet(DoneFor(x)') /\ Cardinality(DoneFor(x)') \in Nat
  BY <1>5, <1>6, FS_Subset, FS_CardinalityType
<1>8. Cardinality(DoneFor(x) \ {m})
        = IF m \in DoneFor(x) THEN Cardinality(DoneFor(x)) - 1 ELSE Cardinality(DoneFor(x))
  BY ONLY <1>5, FS_RemoveElement
<1>9. Cardinality(DoneFor(x) \ {m}) <= Cardinality(DoneFor(x)')
  BY <1>6, <1>7, FS_Subset
<1>10. Cardinality(DoneFor(x) \ {m}) \in Nat
  BY <1>5, FS_RemoveElement, FS_CardinalityType
<1> QED
  BY <1>1, <1>3, <1>4, <1>5, <1>7, <1>8, <1>9, <1>10 DEF ApplyInv

LEMMA ApplyStep == TypeInv /\ QueueInv /\ ApplyInv /\ [Next]_vars => ApplyInv'
<1> SUFFICES ASSUME TypeInv, QueueInv, ApplyInv, [Next]_vars PROVE ApplyInv'
  OBVIOUS
<1>0. stops["commands"] \in Int
  BY DEF TypeInv, TypeOK, Topics
<1> USE <1>0 DEF handlers, consumers, inputs, outcomes
<1>1. ASSUME NEW r \in Requests, Answer(r) \/ Cancel(r)
      PROVE  ApplyInv'
  BY <1>1, ApplyKept DEF Answer, Cancel, Stage, Done, TypeInv, TypeOK
<1>2. ASSUME NEW m \in pending, Send(m)
      PROVE  ApplyInv'
  BY <1>2, ApplyKept DEF Send, Done
<1>3. ASSUME NEW t \in Topics, Receive(t)
      PROVE  ApplyInv'
  <2>1. t = "commands" => ~worked["commands"]
    BY <1>3 DEF Receive, TypeInv, TypeOK, RunInv, Topics
  <2>2. Done' = Done
    BY <1>3, <2>1 DEF Receive, Done, TypeInv, TypeOK, RunInv, Topics
  <2> QED
    BY <1>3, <2>2, ApplyKept DEF Receive
<1>4. ASSUME NEW t \in Topics, Parse(t)
      PROVE  ApplyInv'
  <2>1. t # "commands"
    BY <1>4, NoCommandIsMalformed DEF Parse, Discard, At, TypeInv, TypeOK, Topics
  <2>2. Done' = Done
    BY <1>4, <2>1 DEF Parse, Discard, Worked, Done, TypeInv, TypeOK, Topics
  <2> QED
    BY <1>4, <2>2, ApplyKept DEF Parse
<1>5. ASSUME NEW t \in Topics, Ack(t)
      PROVE  ApplyInv'
  <2>1. t # "commands" =>
          /\ acked'["commands"] = acked["commands"]
          /\ held'["commands"] = held["commands"]
          /\ worked'["commands"] = worked["commands"]
    BY <1>5 DEF Ack, TypeInv, TypeOK, RunInv, Topics
  <2>2. t = "commands" =>
          /\ acked'["commands"] = acked["commands"] \cup held["commands"]
          /\ ~worked'["commands"] /\ worked["commands"]
    BY <1>5 DEF Ack, QueueInv, TypeInv, TypeOK, RunInv, Topics
  <2>3. Done' = Done
    BY <2>1, <2>2 DEF Done
  <2> QED
    BY <1>5, <2>3, ApplyKept DEF Ack
<1>6. CASE Monitor \/ SendMail
  <2>1. Done' = Done
    BY <1>6 DEF Monitor, SendMail, Worked, Done, TypeInv, TypeOK, Topics
  <2> QED
    BY <1>6, <2>1, ApplyKept DEF Monitor, SendMail
<1>7. CASE FailMail
  BY <1>7, ApplyKept DEF FailMail, AfterError, Skip, Done
<1>8. ASSUME NEW t \in Topics \ {"commands"}, Restart(t), UNCHANGED stops \/ CountStop(t)
      PROVE  ApplyInv'
  <2>1. stops'["commands"] = stops["commands"]
    BY <1>8 DEF CountStop, TypeInv, TypeOK, Topics
  <2>2. Done' = Done
    BY <1>8 DEF Restart, Done, TypeInv, TypeOK, RunInv, Topics
  <2> QED
    BY <1>8, <2>1, <2>2, ApplyKept DEF Restart
<1>9. CASE StopGateway
  <2>1. stops'["commands"] = stops["commands"]
    BY <1>9 DEF StopGateway, CountStop, TypeInv, TypeOK, Topics
  <2>2. \A r \in Requests : stage[r] # "new" => stage'[r] # "new"
    BY <1>9 DEF StopGateway
  <2> QED
    BY <1>9, <2>1, <2>2, ApplyKept DEF StopGateway, Done
<1>10. CASE UNCHANGED vars
  BY <1>10, ApplyKept DEF vars, Done
<1> QED
  BY <1>1, <1>2, <1>3, <1>4, <1>5, <1>6, <1>7, <1>8, <1>9, <1>10,
     ApplyCall, ApplyExecute, ApplyStop DEF Next, Consume, Crash, Stop, Topics

\* Nothing is applied more often than once, but for an RPC that worked and was
\* taken for failed, and stops between carrying a command out and acknowledging
\* it; what a charge triggers, once more for every stop of the monitor.
THEOREM AdjustmentsAreBounded == Spec => []ApplicationsBounded
<1>1. Init => QueueInv /\ ApplyInv
  <2> SUFFICES ASSUME Init PROVE QueueInv /\ ApplyInv
    OBVIOUS
  <2>1. log["commands"] = {} /\ TypeInv
    BY TypeInit DEF Init, Topics
  <2>2. QueueInv
    BY <2>1 DEF Init, QueueInv, Topics
  <2>3. ASSUME NEW x \in Requests \cup Charges
        PROVE  applied[x] <= Direct(x) + Cardinality(DoneFor(x)) + stops["commands"]
    BY <2>1, <2>2, DoneForType DEF Init, Direct, Topics
  <2> QED
    BY <2>2, <2>3 DEF ApplyInv
<1>2. TypeInv /\ QueueInv /\ ApplyInv => ApplicationsBounded
  <2> SUFFICES ASSUME TypeInv, QueueInv, ApplyInv PROVE ApplicationsBounded
    OBVIOUS
  <2>0. stops["commands"] \in Int /\ stops["charges"] \in Int
    BY DEF TypeInv, TypeOK, Topics
  <2>1. ASSUME NEW r \in Requests
        PROVE  applied[r] <= 1 + (IF r \in unsure THEN 1 ELSE 0) + stops["commands"]
    <3>1. applied[r] \in Int /\ Cardinality(DoneFor(r)) \in 0 .. 1
      BY DoneForRequest DEF TypeInv, TypeOK
    <3>2. Direct(r) \in 0 .. 1
      BY DEF Direct
    <3>3. Direct(r) = 1 /\ r \notin unsure => Cardinality(DoneFor(r)) = 0
      BY DoneForRequest DEF Direct, Queues
    <3> QED
      BY <2>0, <3>1, <3>2, <3>3 DEF ApplyInv
  <2>2. ASSUME NEW c \in Charges
        PROVE  applied[c] <= Cardinality({t \in Triggers : t.action = "adjust_balance"})
                               * (1 + stops["charges"]) + stops["commands"]
    <3>1. applied[c] \in Int /\ Direct(c) = 0
      BY DEF Direct, TypeInv, TypeOK
    <3>2. applied[c] <= Cardinality(DoneFor(c)) + stops["commands"]
      BY <2>0, <3>1, DoneForCharge DEF ApplyInv
    <3>3. Cardinality(Adjusting) * (1 + stops["charges"]) \in Int
      BY <2>0, DoneForCharge
    <3>4. applied[c] <= Cardinality(Adjusting) * (1 + stops["charges"]) + stops["commands"]
      BY <2>0, <3>1, <3>2, <3>3, DoneForCharge
    <3> QED
      BY <3>4 DEF Adjusting
  <2> QED
    BY <2>1, <2>2 DEF ApplicationsBounded
<1> QED
  BY <1>1, <1>2, TypeInit, TypeStep, QueueStep, ApplyStep, PTL DEF Spec

-----------------------------------------------------------------------------
(***************************************************************************)
(* Triggers that fire.                                                     *)
(***************************************************************************)

\* There is a message of what t does about c, or was.
Accounted(c, t) ==
  \E m \in pending \cup log[TopicOf(Message(c, t, 0))] \cup lost : m.of = c /\ m.via = t

FireInv ==
  \A c \in Charges, t \in Triggers :
    /\ <<c, t>> \notin unloaded
    /\ \/ Plain(c) \in acked["charges"]
       \/ worked["charges"] /\ current["charges"] = Plain(c)
    /\ charge[c] # None
    /\ ShouldTrigger(t, c)
    => Accounted(c, t)

\* A goroutine's message is sent or lost; what a gateway cancels is its own.
LEMMA AccountedKept ==
  ASSUME TypeInv, [Next]_vars, NEW c \in Charges, NEW t \in Triggers, Accounted(c, t)
  PROVE  Accounted(c, t)'
<1> DEFINE topic == TopicOf(Message(c, t, 0))
<1>0. topic \in Topics
  BY TopicOfMessage DEF Topics
<1> USE DEF handlers, consumers, inputs, outcomes
<1>1. PICK m \in pending \cup log[topic] \cup lost : m.of = c /\ m.via = t
  BY DEF Accounted
<1>2. ASSUME m \in pending' \cup log'[topic] \cup lost' PROVE Accounted(c, t)'
  BY <1>1, <1>2 DEF Accounted
<1>3. ASSUME NEW n \in pending, Send(n)
      PROVE  m \in pending' \cup log'[topic] \cup lost'
  <2>1. m = n => TopicOf(n) = topic
    BY <1>1 DEF TopicOf, Message
  <2> HIDE DEF topic
  <2> QED
    BY <1>0, <1>1, <1>3, <2>1 DEF Send, TypeInv, TypeOK
<1>4. ASSUME NEW r \in Requests, Cancel(r)
      PROVE  m \in pending' \cup log'[topic] \cup lost'
  BY <1>1, <1>4 DEF Cancel, Plain, Message
<1>5. ASSUME NEW p \in Topics, Restart(p)
      PROVE  m \in pending' \cup log'[topic] \cup lost'
  BY <1>1, <1>5 DEF Restart
<1>6. CASE StopGateway
  BY <1>1, <1>2, <1>6 DEF StopGateway
<1>7. ASSUME pending \subseteq pending', UNCHANGED <<log, lost>>
      PROVE  m \in pending' \cup log'[topic] \cup lost'
  BY <1>1, <1>7
<1>8. ASSUME NEW r \in Requests, Call(r) \/ Answer(r)
      PROVE  Accounted(c, t)'
  BY <1>2, <1>7, <1>8 DEF Call, Answer
<1>9. ASSUME NEW p \in Topics, Consume(p)
      PROVE  Accounted(c, t)'
  BY <1>2, <1>7, <1>9 DEF Consume, Receive, Parse, Ack
<1>10. CASE Monitor \/ Execute \/ SendMail \/ FailMail
  BY <1>2, <1>7, <1>10 DEF Monitor, Execute, SendMail, FailMail
<1>11. CASE UNCHANGED vars
  BY <1>2, <1>7, <1>11 DEF vars
<1> HIDE DEF topic
<1> QED
  BY <1>2, <1>3, <1>4, <1>5, <1>6, <1>8, <1>9, <1>10, <1>11 DEF Next, Stop, Crash, Topics

LEMMA InputsKept == [Next]_vars => UNCHANGED inputs
BY DEF Next, vars, Call, Answer, Cancel, Send, Consume, Receive, Parse, Ack, Monitor,
       Execute, SendMail, FailMail, Crash, Stop, Restart, StopGateway

\* Whether the monitor is done with c changes only when it fires, or passes over
\* what does not parse.
LEMMA FireStep == TypeInv /\ FireInv /\ [Next]_vars => FireInv'
<1> SUFFICES ASSUME TypeInv, FireInv, [Next]_vars,
                    NEW c \in Charges, NEW t \in Triggers, <<c, t>> \notin unloaded',
                    \/ Plain(c) \in acked'["charges"]
                    \/ worked'["charges"] /\ current'["charges"] = Plain(c),
                    charge'[c] # None,
                    ShouldTrigger(t, c)'
             PROVE  Accounted(c, t)'
  BY DEF FireInv
<1>1. charge[c] # None /\ ShouldTrigger(t, c)
  BY InputsKept DEF inputs, ShouldTrigger
<1>2. ASSUME <<c, t>> \notin unloaded,
             \/ Plain(c) \in acked["charges"]
             \/ worked["charges"] /\ current["charges"] = Plain(c)
      PROVE  Accounted(c, t)'
  BY <1>1, <1>2, AccountedKept DEF FireInv
<1> USE DEF handlers, consumers, inputs, outcomes
<1>3. ASSUME NEW p \in Topics, Receive(p) \/ Ack(p)
      PROVE  Accounted(c, t)'
  <2>1. UNCHANGED unloaded
    BY <1>3 DEF Receive, Ack
  <2>2. CASE p = "charges" /\ Receive(p)
    BY <1>2, <2>1, <2>2 DEF Receive, TypeInv, TypeOK, RunInv
  <2>3. CASE p = "charges" /\ Ack(p)
    BY <1>2, <2>1, <2>3 DEF Ack, TypeInv, TypeOK, RunInv
  <2>4. CASE p # "charges"
    BY <1>2, <1>3, <2>1, <2>4 DEF Receive, Ack, TypeInv, TypeOK, RunInv, Topics
  <2> QED
    BY <1>3, <2>2, <2>3, <2>4
<1>4. ASSUME NEW p \in Topics, Parse(p)
      PROVE  Accounted(c, t)'
  <2>1. UNCHANGED <<unloaded, acked, current>>
    BY <1>4 DEF Parse, Discard
  <2>2. CASE p = "charges" /\ current["charges"] = Plain(c)
    BY <1>1, <1>4, <2>2, PlainMessage DEF Parse, Discard, At, Malformed
  <2>3. CASE p = "charges" /\ current["charges"] # Plain(c)
    BY <1>2, <2>1, <2>3
  <2>4. CASE p # "charges"
    BY <1>2, <1>4, <2>1, <2>4 DEF Parse, Discard, Worked, TypeInv, TypeOK, Topics
  <2> QED
    BY <2>2, <2>3, <2>4
<1>5. CASE Monitor
  <2> PICK m \in held["charges"], loaded \in SUBSET Triggers :
             /\ At("charges", m)
             /\ pending' = pending \cup Fired(m.of, loaded)
             /\ unloaded' = unloaded \cup ({m.of} \X (Triggers \ loaded))
    BY <1>5 DEF Monitor
  <2>1. CASE m = Plain(c)
    <3>1. m.of = c
      BY <2>1, PlainMessage
    <3>2. pending' = pending \cup Fired(c, loaded) /\ t \in loaded
      BY <3>1
    <3>3. Message(c, t, deliveries[c]) \in Fired(c, loaded)
      BY <1>1, <3>2 DEF Fired
    <3> QED
      BY <3>2, <3>3 DEF Accounted, Message
  <2>2. CASE m # Plain(c)
    BY <1>2, <1>5, <2>2 DEF Monitor, At
  <2> QED
    BY <2>1, <2>2
<1>6. CASE Execute \/ SendMail
  BY <1>2, <1>6 DEF Execute, SendMail, Worked, TypeInv, TypeOK, Topics
<1>7. CASE FailMail
  BY <1>2, <1>7 DEF FailMail, AfterError, Skip, TypeInv, RunInv, Topics
<1>8. ASSUME NEW p \in Topics, Restart(p)
      PROVE  Accounted(c, t)'
  BY <1>2, <1>8 DEF Restart, TypeInv, TypeOK, RunInv, Topics
<1>9. CASE \/ \E r \in Requests : Call(r) \/ Answer(r) \/ Cancel(r)
           \/ \E m \in pending : Send(m)
           \/ StopGateway
           \/ UNCHANGED vars
  BY <1>2, <1>9 DEF Call, Answer, Cancel, Send, StopGateway, vars
<1> QED
  BY <1>3, <1>4, <1>5, <1>6, <1>7, <1>8, <1>9 DEF Next, Consume, Stop, Crash, Topics

\* No acknowledged charge has left a trigger of it out that the SELECT yielded.
THEOREM FiringsAreAccounted == Spec => []FiringsAccounted
<1>1. Init => FireInv
  BY DEF Init, FireInv, Topics
<1>2. FireInv => FiringsAccounted
  BY DEF FireInv, FiringsAccounted, Accounted
<1> QED
  BY <1>1, <1>2, TypeInit, TypeStep, FireStep, PTL DEF Spec

-----------------------------------------------------------------------------
(***************************************************************************)
(* Mails.                                                                  *)
(***************************************************************************)

MailSent(m) == \E x \in sent : x.mail = m

MailInv ==
  \A m \in log["email"] :
    \/ m \in acked["email"]
    \/ worked["email"] /\ current["email"] = m
    => Malformed(m) \/ MailSent(m)

LEMMA MailStep == TypeInv /\ MailInv /\ [Next]_vars => MailInv'
<1> SUFFICES ASSUME TypeInv, MailInv, [Next]_vars, NEW m,
                    \/ m \in acked'["email"]
                    \/ worked'["email"] /\ current'["email"] = m
             PROVE  Malformed(m)' \/ MailSent(m)'
  BY DEF MailInv
<1>1. Malformed(m)' <=> Malformed(m)
  BY InputsKept DEF Malformed, inputs
<1>2. ASSUME \/ m \in acked["email"]
             \/ worked["email"] /\ current["email"] = m,
             sent \subseteq sent'
      PROVE  Malformed(m)' \/ MailSent(m)'
  BY <1>1, <1>2 DEF MailInv, MailSent, TypeInv, TypeOK, RunInv, Topics
<1> USE DEF handlers, consumers, inputs, outcomes
<1>3. ASSUME NEW p \in Topics, Receive(p) \/ Ack(p)
      PROVE  Malformed(m)' \/ MailSent(m)'
  <2>1. UNCHANGED sent
    BY <1>3 DEF Receive, Ack
  <2>2. CASE p = "email" /\ Receive(p)
    BY <1>2, <2>1, <2>2 DEF Receive, TypeInv, TypeOK, RunInv
  <2>3. CASE p = "email" /\ Ack(p)
    BY <1>2, <2>1, <2>3 DEF Ack, TypeInv, TypeOK, RunInv
  <2>4. CASE p # "email"
    BY <1>2, <1>3, <2>1, <2>4 DEF Receive, Ack, TypeInv, TypeOK, RunInv, Topics
  <2> QED
    BY <1>3, <2>2, <2>3, <2>4
<1>4. ASSUME NEW p \in Topics, Parse(p)
      PROVE  Malformed(m)' \/ MailSent(m)'
  <2>1. UNCHANGED <<sent, acked, current>>
    BY <1>4 DEF Parse, Discard
  <2>2. CASE p = "email" /\ current["email"] = m
    BY <1>1, <1>4, <2>2 DEF Parse, Discard, At
  <2>3. CASE p = "email" /\ current["email"] # m
    BY <1>2, <2>1, <2>3
  <2>4. CASE p # "email"
    BY <1>2, <1>4, <2>1, <2>4 DEF Parse, Discard, Worked, TypeInv, TypeOK, Topics
  <2> QED
    BY <2>2, <2>3, <2>4
<1>5. CASE SendMail
  <2>1. CASE current["email"] = m
    <3> PICK n \in held["email"] : \E s \in {TextOf(n), Default} :
               /\ Mail(n)
               /\ ReplaceAll(s) # Panic
               /\ sent' = sent \cup {[mail |-> n, text |-> ReplaceAll(s)]}
      BY <1>5 DEF SendMail
    <3>1. n = m
      BY <2>1 DEF Mail, At
    <3>2. \A y : [mail |-> n, text |-> y].mail = m
      BY <3>1
    <3> QED
      BY <3>2 DEF MailSent
  <2>2. CASE current["email"] # m
    BY <1>2, <1>5, <2>2 DEF SendMail
  <2> QED
    BY <2>1, <2>2
<1>6. CASE Monitor \/ Execute
  BY <1>2, <1>6 DEF Monitor, Execute, Worked, TypeInv, TypeOK, Topics
<1>7. CASE FailMail
  <2>1. At("email", current["email"])
    BY <1>7 DEF FailMail, Mail, At
  <2>2. UNCHANGED <<sent, acked, worked>>
    BY <1>7 DEF FailMail, AfterError, Skip
  <2> QED
    BY <1>2, <2>1, <2>2 DEF At
<1>8. ASSUME NEW p \in Topics, Restart(p)
      PROVE  Malformed(m)' \/ MailSent(m)'
  BY <1>2, <1>8 DEF Restart, TypeInv, TypeOK, RunInv, Topics
<1>9. CASE \/ \E r \in Requests : Call(r) \/ Answer(r) \/ Cancel(r)
           \/ \E n \in pending : Send(n)
           \/ StopGateway
           \/ UNCHANGED vars
  BY <1>2, <1>9 DEF Call, Answer, Cancel, Send, StopGateway, vars
<1> QED
  BY <1>3, <1>4, <1>5, <1>6, <1>7, <1>8, <1>9 DEF Next, Consume, Stop, Crash, Topics

\* A mail is not acknowledged before it is sent, whatever fails in between.
THEOREM AcknowledgedIsSent == Spec => []AckedMailWasSent
<1>1. Init => MailInv
  BY DEF Init, MailInv, Topics
<1>2. TypeInv /\ MailInv => AckedMailWasSent
  BY DEF TypeInv, TypeOK, MailInv, AckedMailWasSent, MailSent, Topics
<1> QED
  BY <1>1, <1>2, TypeInit, TypeStep, MailStep, PTL DEF Spec

-----------------------------------------------------------------------------
(***************************************************************************)
(* Rendering.  The search begins at the start of the text in every round,  *)
(* so the first round finds all that any round finds: the loop either ends *)
(* with it, or comes to slice s[start:i] with start > i.                   *)
(***************************************************************************)

\* A set of naturals that is not empty has a least element: what induction
\* comes down to here.
LEMMA Least ==
  ASSUME NEW T, T \subseteq Nat, T # {}
  PROVE  \E x \in T : \A y \in T : x <= y
<1>1. \E x \in T : \A y \in T : ~ (<<y, x>> \in OpToRel(<, Nat))
  BY NatLessThanWellFounded, WFMin
<1>2. \E x \in T : \A y \in T : ~ (y < x)
  BY <1>1 DEF OpToRel
<1> QED
  BY <1>2

LEMMA FirstMatchFinds ==
  ASSUME NEW Pieces, NEW s \in Seq(Pieces)
  PROVE  /\ FirstMatch(s) \in 0 .. Len(s)
         /\ FirstMatch(s) < Len(s) => s[FirstMatch(s) + 1] = Placeholder
         /\ \A j \in 1 .. FirstMatch(s) : s[j] # Placeholder
<1> DEFINE P(i) == /\ i < Len(s) => s[i + 1] = Placeholder
                  /\ \A j \in 1 .. i : s[j] # Placeholder
<1> DEFINE T == {i \in 0 .. Len(s) : i < Len(s) => s[i + 1] = Placeholder}
<1>1. Len(s) \in Nat
  OBVIOUS
<1>2. T \subseteq Nat /\ Len(s) \in T
  BY <1>1
<1> HIDE DEF T
<1>3. PICK i \in T : \A k \in T : i <= k
  BY <1>2, Least
<1>4. i \in 0 .. Len(s) /\ (i < Len(s) => s[i + 1] = Placeholder)
  BY <1>3 DEF T
<1>5. ASSUME NEW j \in 1 .. i, s[j] = Placeholder PROVE FALSE
  <2>1. j - 1 \in T
    BY <1>1, <1>4, <1>5 DEF T
  <2> QED
    BY <1>1, <1>3, <1>4, <2>1
<1>6. P(i)
  BY <1>4, <1>5
<1>7. \E k \in 0 .. Len(s) : P(k)
  BY <1>4, <1>6
<1> QED
  BY <1>7 DEF FirstMatch

\* The loop in closed form: a second round would start behind what it finds.
LEMMA ReplaceAllRounds ==
  ASSUME NEW Pieces, NEW s \in Seq(Pieces)
  PROVE  ReplaceAll(s) = IF FirstMatch(s) = Len(s) THEN SubSeq(s, 1, Len(s))
                         ELSE IF FirstMatch(s) + 1 = Len(s)
                                THEN SubSeq(s, 1, FirstMatch(s)) \o <<Value>>
                                ELSE Panic
<1> DEFINE i == FirstMatch(s)
           n == Len(s)
           done(start) == SubSeq(s, start + 1, i) \o <<Value>>
           Round(f, start) ==
             IF i = n THEN SubSeq(s, start + 1, n)
             ELSE IF start > i THEN Panic
             ELSE IF i + 1 = n THEN done(start)
             ELSE IF f[i + 1] = Panic THEN Panic
             ELSE done(start) \o f[i + 1]
           g == [start \in 0 .. n |-> Round([k \in 0 .. n |-> Panic], start)]
           loop == CHOOSE f : f = [start \in 0 .. n |-> Round(f, start)]
<1>1. n \in Nat /\ i \in 0 .. n
  BY FirstMatchFinds
<1>2. ReplaceAll(s) = loop[0]
  BY DEF ReplaceAll
<1>3. g = [start \in 0 .. n |-> Round(g, start)]
  <2>1. i < n => i + 1 \in 0 .. n /\ i + 1 > i
    BY <1>1
  <2>2. i < n => g[i + 1] = Panic
    <3> HIDE DEF i, n, done
    <3> QED
      BY <1>1, <2>1
  <2>3. ASSUME NEW start \in 0 .. n
        PROVE  Round([k \in 0 .. n |-> Panic], start) = Round(g, start)
    <3> HIDE DEF i, n, done, g
    <3> QED
      BY <1>1, <2>1, <2>2
  <2> HIDE DEF Round, n
  <2> QED
    BY <2>3
<1>4. loop = [start \in 0 .. n |-> Round(loop, start)]
  <2> HIDE DEF g, i, n, done, Round
  <2> QED
    BY <1>3
<1>5. loop[0] = Round(loop, 0)
  <2> HIDE DEF loop, i, done, Round
  <2> QED
    BY <1>1, <1>4
<1>6. i < n /\ i + 1 # n => loop[i + 1] = Panic
  <2> HIDE DEF loop, i, done, n
  <2> SUFFICES ASSUME i < n PROVE loop[i + 1] = Panic
    OBVIOUS
  <2>1. i + 1 \in 0 .. n /\ i + 1 > i /\ i # n
    BY <1>1
  <2>2. loop[i + 1] = Round(loop, i + 1)
    BY <1>4, <2>1
  <2> QED
    BY <2>1, <2>2
<1>7. i # n => i < n /\ ~(0 > i)
  BY <1>1
<1> HIDE DEF loop, i, n
<1> QED
  BY <1>2, <1>5, <1>6, <1>7 DEF i, n

LEMMA RenderedWhole ==
  ASSUME NEW Pieces, NEW s \in Seq(Pieces), ReplaceAll(s) # Panic
  PROVE  ReplaceAll(s) = Rendered(s)
<1> DEFINE i == FirstMatch(s)
           n == Len(s)
<1>1. /\ n \in Nat /\ i \in 0 .. n
      /\ i < n => s[i + 1] = Placeholder
      /\ \A j \in 1 .. i : s[j] # Placeholder
  BY FirstMatchFinds
<1>2. CASE i = n
  <2>1. ReplaceAll(s) = SubSeq(s, 1, n)
    BY <1>2, ReplaceAllRounds
  <2>2. SubSeq(s, 1, n) = s
    OBVIOUS
  <2>3. Rendered(s) = [j \in 1 .. n |-> s[j]]
    BY <1>1, <1>2 DEF Rendered
  <2>4. s = [j \in 1 .. n |-> s[j]]
    OBVIOUS
  <2> QED
    BY <2>1, <2>2, <2>3, <2>4
<1>3. CASE i # n
  <2>1. i + 1 = n /\ ReplaceAll(s) = SubSeq(s, 1, i) \o <<Value>>
    BY <1>3, ReplaceAllRounds
  <2>2. s[n] = Placeholder /\ \A j \in 1 .. n - 1 : s[j] # Placeholder
    <3> HIDE DEF i, n
    <3> QED
      BY <1>1, <2>1
  <2>3. SubSeq(s, 1, i) \o <<Value>> = Rendered(s)
    <3>1. SubSeq(s, 1, i) = [k \in 1 .. i |-> s[k]] /\ i = n - 1
      BY <1>1, <2>1
    <3>2. SubSeq(s, 1, i) \o <<Value>> = [k \in 1 .. n |-> IF k = n THEN Value ELSE s[k]]
      BY <1>1, <3>1
    <3>3. Rendered(s) = [k \in 1 .. n |-> IF k = n THEN Value ELSE s[k]]
      BY <1>1, <2>2 DEF Rendered
    <3> QED
      BY <3>2, <3>3
  <2> QED
    BY <2>1, <2>3
<1> QED
  BY <1>2, <1>3

\* A text with a placeholder before its last piece cannot be rendered: the loop
\* of the email-consumer takes the process down with it.
THEOREM PlaceholderInFrontPanics ==
  ASSUME NEW Pieces, NEW s \in Seq(Pieces),
         NEW j \in 1 .. Len(s) - 1, s[j] = Placeholder
  PROVE  ReplaceAll(s) = Panic
<1>1. Len(s) \in Nat /\ FirstMatch(s) \in 0 .. Len(s) /\ j \notin 1 .. FirstMatch(s)
  BY FirstMatchFinds
<1>2. FirstMatch(s) # Len(s) /\ FirstMatch(s) + 1 # Len(s)
  BY <1>1
<1> QED
  BY <1>2, ReplaceAllRounds

LEMMA RenderedStep == TypeInv /\ SentIsRendered /\ [Next]_vars => SentIsRendered'
<1> SUFFICES ASSUME TypeInv, SentIsRendered, [Next]_vars, NEW x \in sent'
             PROVE  x.text \in {Rendered(TextOf(x.mail)), Rendered(Default)}
  BY InputsKept DEF SentIsRendered, TextOf, inputs
<1>1. CASE x \in sent
  BY <1>1 DEF SentIsRendered
<1>2. CASE x \notin sent
  <2>1. SendMail
    BY <1>2 DEF Next, vars, outcomes, Call, Answer, Cancel, Send, Consume, Receive, Parse,
                Ack, Monitor, Execute, FailMail, Crash, Stop, Restart, StopGateway
  <2> PICK m \in held["email"] : \E s \in {TextOf(m), Default} :
             /\ Mail(m)
             /\ ReplaceAll(s) # Panic
             /\ sent' = sent \cup {[mail |-> m, text |-> ReplaceAll(s)]}
    BY <2>1 DEF SendMail
  <2> PICK s \in {TextOf(m), Default} :
             /\ Mail(m)
             /\ ReplaceAll(s) # Panic
             /\ sent' = sent \cup {[mail |-> m, text |-> ReplaceAll(s)]}
    OBVIOUS
  <2>2. x.mail = m /\ x.text = ReplaceAll(s)
    BY <1>2
  <2>3. s \in Seq(STRING) \cup Seq({"other"})
    <3>1. Default \in Seq({"other"})
      BY DEF Default
    <3>2. m.of \in Letters => text[m.of] \in Texts
      BY DEF Mail, Malformed, TypeInv, TypeOK
    <3> QED
      BY TextsAssumption, <3>1, <3>2 DEF TextOf
  <2> QED
    BY <2>2, <2>3, RenderedWhole
<1> QED
  BY <1>1, <1>2

\* What is mailed is the text or the default, rendered in full: a text that the
\* loop cannot render is never mailed in part.
THEOREM SentMailsAreRendered == Spec => []SentIsRendered
<1>1. Init => SentIsRendered
  BY DEF Init, SentIsRendered
<1> QED
  BY <1>1, TypeInit, TypeStep, RenderedStep, PTL DEF Spec

=============================================================================
