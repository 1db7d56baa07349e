------------------------------ MODULE Billing ------------------------------
(***************************************************************************)
(* Work that leaves the request: balance adjustments and bulk commands of  *)
(* the operator-gateway, top-ups of the selfcare-gateway, the triggers of  *)
(* the balance-monitor, and the mails of the email-consumer, with the      *)
(* Pulsar topics between them and the billing engine behind.               *)
(*                                                                         *)
(* A publication is a goroutine: it may fail unnoticed, and is gone with   *)
(* its process.  A subscription is Shared, without acknowledgement timeout *)
(* and negative acknowledgement: what a consumer has received and not      *)
(* acknowledged is delivered again when the consumer has gone away.        *)
(***************************************************************************)
EXTENDS Integers, FiniteSets, Template

CONSTANTS
  Requests,   \* the requests of the gateways
  Charges,    \* the events on billing.events.charges
  Contents,   \* what an event may say: its type and amount
  Triggers,   \* active action triggers of the tenant: action and conditions
  Letters,    \* mails other services have published
  Texts,      \* templates, as in Template
  MaxStops,   \* bound of the model: how often processes are stopped
  None        \* nothing; an event or a mail that does not parse

\* Ids are of one table each; executeTrigger knows two actions; a text is a sequence.
ASSUME DistinctAssumption ==
  Requests \cap Charges = {} /\ Requests \cap Letters = {} /\ Charges \cap Letters = {}
ASSUME NoneAssumption == None \notin Triggers
ASSUME TriggersAssumption ==
  IsFiniteSet(Triggers) /\ \A t \in Triggers : t.action \in {"notification", "adjust_balance"}
ASSUME TextsAssumption == Texts \subseteq Seq(STRING)
ASSUME StopsAssumption == MaxStops \in Nat

VARIABLES
  kind,      \* kind[r]: "adjust", "bulk" or "topup"
  charge,    \* charge[c]: what the event says
  text,      \* text[l]: the template of letter l
  stage,     \* stage[r]: how far the handler of r has come
  failed,    \* adjustments whose RPC returned an error
  pending,   \* messages goroutines are about to send
  log,       \* log[t]: the messages on topic t
  held,      \* held[t]: those its consumer has received and not acknowledged
  acked,     \* acked[t]: those it has acknowledged
  current,   \* current[t]: what the consumer of t is at work on
  worked,    \* worked[t]: whether it has done all but acknowledge it
  stops,     \* stops[p]: how often p was stopped
  applied,   \* history: how often r, or the adjustment c triggers, was applied
  unsure,    \* history: adjustments applied though the RPC returned an error
  deliveries, \* history: how often a charge was delivered
  unloaded,  \* history: <<c, t>>, when c was handled without t, not loaded
  sent,      \* history: mails the SMTP server has taken, with their text
  lost       \* history: messages whose Send failed, or whose process stopped before

inputs == <<kind, charge, text>>
handlers == <<stage, failed, unsure>>
consumers == <<held, acked, current, worked>>
outcomes == <<applied, sent, unloaded>>
vars == <<handlers, pending, log, consumers, inputs, stops, outcomes, deliveries, lost>>

\* The topics by what their consumers do: charges, for the balance-monitor; mails,
\* for the email-consumer; and commands, which services outside the repository
\* carry out: commands.balance.adjust, commands.tariff.update, events/topups.
Topics == {"charges", "commands", "email"}

\* A message, by what it is about, the trigger that sent it, and which delivery
\* of the charge made the trigger fire.
Message(x, via, nth) == [of |-> x, via |-> via, nth |-> nth]
Plain(x) == Message(x, None, 0)
Messages == [of : Requests \cup Charges \cup Letters,
             via : Triggers \cup {None}, nth : 0 .. MaxStops + 1]

ASSUME NoMessageAssumption == None \notin Messages

\* A slip to compare with: a trigger's adjustment is published where charges are.
TopicOfLoop(m) == IF m.via = None THEN "commands"
                  ELSE IF m.via.action = "notification" THEN "email" ELSE "charges"
TopicOf(m) == IF m.via = None THEN "commands"
              ELSE IF m.via.action = "notification" THEN "email" ELSE "commands"

Malformed(m) == \/ m.of \in Charges /\ charge[m.of] = None /\ m.via = None
                \/ m.of \in Letters /\ text[m.of] = None

Owner(m) == IF m.of \in Requests THEN "gateway" ELSE "charges"

TypeOK ==
  /\ kind \in [Requests -> {"adjust", "bulk", "topup"}]
  /\ charge \in [Charges -> Contents \cup {None}]
  /\ text \in [Letters -> Texts \cup {None}]
  /\ stage \in [Requests -> {"new", "called", "answered", "over"}]
  /\ failed \in SUBSET Requests
  /\ pending \in SUBSET Messages
  /\ log \in [Topics -> SUBSET Messages]
  /\ \A t \in Topics : acked[t] \cap held[t] = {} /\ acked[t] \cup held[t] \subseteq log[t]
  /\ \A t \in Topics : current[t] \in held[t] \cup {None}
  /\ worked \in [Topics -> BOOLEAN]
  /\ stops \in [Topics \cup {"gateway"} -> 0 .. MaxStops]
  /\ applied \in [Requests \cup Charges -> Nat]
  /\ unsure \in SUBSET failed
  /\ deliveries \in [Charges -> 0 .. MaxStops + 1]
  /\ unloaded \in SUBSET (Charges \X Triggers)
  /\ \A x \in sent : x.mail \in log["email"]
  /\ lost \in SUBSET Messages

-----------------------------------------------------------------------------

Init ==
  /\ kind \in [Requests -> {"adjust", "bulk", "topup"}]
  /\ charge \in [Charges -> Contents \cup {None}]
  /\ text \in [Letters -> Texts \cup {None}]
  /\ stage \in [Requests -> {"new", "over"}]  \* some have been refused
  /\ failed = {}
  /\ pending = {}
  /\ \E cs \in SUBSET Charges, ls \in SUBSET Letters :
       log = [t \in Topics |-> CASE t = "charges" -> {Plain(c) : c \in cs}
                                 [] t = "commands" -> {}
                                 [] t = "email" -> {Plain(l) : l \in ls}]
  /\ held = [t \in Topics |-> {}]
  /\ acked = [t \in Topics |-> {}]
  /\ current = [t \in Topics |-> None]
  /\ worked = [t \in Topics |-> FALSE]
  /\ stops = [p \in Topics \cup {"gateway"} |-> 0]
  /\ applied = [x \in Requests \cup Charges |-> 0]
  /\ unsure = {}
  /\ deliveries = [c \in Charges |-> 0]
  /\ unloaded = {}
  /\ sent = {}
  /\ lost = {}

Apply(x) == applied' = [applied EXCEPT ![x] = @ + 1]
Stage(r, next) == stage' = [stage EXCEPT ![r] = next]

-----------------------------------------------------------------------------
(***************************************************************************)
(* The handlers, for requests that are well-formed and whose subscriber    *)
(* exists.  The row AdjustBalance then inserts into balance_history names  *)
(* an operation its CHECK does not know: it is never there.                *)
(***************************************************************************)

\* AdjustBalance calls the billing engine, and is told that it worked, or that
\* it did not, which after a timeout says nothing.
Call(r) ==
  /\ kind[r] = "adjust"
  /\ stage[r] = "new"
  /\ Stage(r, "called")
  /\ \/ Apply(r) /\ UNCHANGED <<failed, unsure>>
     \/ Apply(r) /\ failed' = failed \cup {r} /\ unsure' = unsure \cup {r}
     \/ failed' = failed \cup {r} /\ UNCHANGED <<applied, unsure>>
  /\ UNCHANGED <<pending, log, consumers, inputs, stops, sent, unloaded, deliveries, lost>>

\* When r leaves work to a topic.  A slip to compare with: an adjustment does so
\* whether or not the RPC worked.
QueuesRegardless(r) == TRUE
Queues(r) == kind[r] = "adjust" => r \in failed

\* The handler answers 202, after it has started the goroutine, if any.
Answer(r) ==
  /\ stage[r] = IF kind[r] = "adjust" THEN "called" ELSE "new"
  /\ Stage(r, "answered")
  /\ pending' = IF Queues(r) THEN pending \cup {Plain(r)} ELSE pending
  /\ UNCHANGED <<failed, unsure, log, consumers, inputs, stops, outcomes, deliveries, lost>>

\* Send returns; or it fails, or there is no client.
Send(m) ==
  /\ m \in pending
  /\ pending' = pending \ {m}
  /\ \/ log' = [log EXCEPT ![TopicOf(m)] = @ \cup {m}] /\ UNCHANGED lost
     \/ lost' = lost \cup {m} /\ UNCHANGED log
  /\ UNCHANGED <<handlers, consumers, inputs, stops, outcomes, deliveries>>

\* The context Send is given: context.Background(), or that of the request.
\* A slip to compare with: always that of the request.
WithRequestAlways(r) == TRUE
WithRequest(r) == kind[r] = "topup"

\* The request's context ends with the answer, and with it the goroutine.
Cancel(r) ==
  /\ WithRequest(r)
  /\ stage[r] = "answered"
  /\ Plain(r) \in pending
  /\ pending' = pending \ {Plain(r)}
  /\ UNCHANGED <<handlers, log, consumers, inputs, stops, outcomes, deliveries, lost>>

-----------------------------------------------------------------------------
(***************************************************************************)
(* The consumers.                                                          *)
(***************************************************************************)

Receive(t) ==
  /\ current[t] = None
  /\ \E m \in log[t] \ (held[t] \cup acked[t]) :
       /\ current' = [current EXCEPT ![t] = m]
       /\ held' = [held EXCEPT ![t] = @ \cup {m}]
       /\ deliveries' = IF t = "charges"
                          THEN [deliveries EXCEPT ![m.of] = @ + 1]
                          ELSE deliveries
  /\ UNCHANGED <<handlers, pending, log, acked, worked, inputs, stops, outcomes, lost>>

\* t is at work on m.
At(t, m) == m \in held[t] /\ current[t] = m /\ ~worked[t]
Worked(t) == worked' = [worked EXCEPT ![t] = TRUE]

Ack(t) ==
  /\ worked[t]
  /\ acked' = [acked EXCEPT ![t] = @ \cup {current[t]}]
  /\ held' = [held EXCEPT ![t] = @ \ {current[t]}]
  /\ current' = [current EXCEPT ![t] = None]
  /\ worked' = [worked EXCEPT ![t] = FALSE]
  /\ UNCHANGED <<handlers, pending, log, inputs, stops, outcomes, deliveries, lost>>

\* The loop goes on to the next message; m stays with the client, where nothing
\* will look at it again.
Skip(t) ==
  /\ current' = [current EXCEPT ![t] = None]
  /\ UNCHANGED <<worked, held, acked>>

\* Malformed messages are only acknowledged.  A slip to compare with: they are
\* passed over.
DiscardUnacked(t, m) == At(t, m) /\ Malformed(m) /\ Skip(t)
Discard(t, m) ==
  At(t, m) /\ Malformed(m) /\ Worked(t) /\ UNCHANGED <<held, acked, current>>

Parse(t) ==
  /\ \E m \in held[t] : Discard(t, m)
  /\ UNCHANGED <<handlers, pending, log, inputs, stops, outcomes, deliveries, lost>>

\* shouldTrigger: a condition is a set of at most one number.
ShouldTrigger(t, c) ==
  \/ \E threshold \in t.threshold : charge[c].amount >= threshold
  \/ /\ charge[c].type = "charge"
     /\ \E min \in t.minBalance : charge[c].amount > min

\* executeTrigger for each that should.  A slip to compare with: only for one.
FiredFirst(c, loaded) ==
  LET matching == {t \in loaded : ShouldTrigger(t, c)}
  IN  IF matching = {} THEN {}
      ELSE {Message(c, CHOOSE t \in matching : TRUE, deliveries[c])}

Fired(c, loaded) ==
  {Message(c, t, deliveries[c]) : t \in {u \in loaded : ShouldTrigger(u, c)}}

\* The triggers are loaded and fire, each in a goroutine.  The SELECT may fail,
\* a row may not scan, and the result set may break off, which nobody asks:
\* those that were loaded fire, and the charge is acknowledged.
Monitor ==
  /\ \E m \in held["charges"], loaded \in SUBSET Triggers :
       /\ At("charges", m)
       /\ ~Malformed(m)
       /\ pending' = pending \cup Fired(m.of, loaded)
       /\ unloaded' = unloaded \cup ({m.of} \X (Triggers \ loaded))
  /\ Worked("charges")
  /\ UNCHANGED <<handlers, log, held, acked, current, inputs, stops, applied, sent,
                 deliveries, lost>>

\* A command is carried out.
Execute ==
  /\ \E m \in held["commands"] : At("commands", m) /\ Apply(m.of)
  /\ Worked("commands")
  /\ UNCHANGED <<handlers, pending, log, held, acked, current, inputs, stops, sent,
                 unloaded, deliveries, lost>>

\* The default text has no placeholders.  It is used when the template is not
\* found: for the monitor's mails, which name no locale, or when the SELECT fails.
Default == <<"other">>
TextOf(m) == IF m.of \in Letters THEN text[m.of] ELSE Default
Panics(m) == ReplaceAll(TextOf(m)) = Panic

Mail(m) == At("email", m) /\ ~Malformed(m)

\* sendEmail gets past the rendering, and what it hands over is accepted.
SendMail ==
  /\ \E m \in held["email"] : \E s \in {TextOf(m), Default} :
       /\ Mail(m)
       /\ ReplaceAll(s) # Panic
       /\ sent' = sent \cup {[mail |-> m, text |-> ReplaceAll(s)]}
  /\ Worked("email")
  /\ UNCHANGED <<handlers, pending, log, held, acked, current, inputs, stops, applied,
                 unloaded, deliveries, lost>>

\* SendMail returns an error: "continue".  A slip to compare with: the message
\* is acknowledged after an error, too.
AfterErrorAcks == Worked("email") /\ UNCHANGED <<held, acked, current>>
AfterError == Skip("email")

FailMail ==
  /\ \E m \in held["email"] : Mail(m)  \* with its text or the default
  /\ AfterError
  /\ UNCHANGED <<handlers, pending, log, inputs, stops, outcomes, deliveries, lost>>

-----------------------------------------------------------------------------

\* The consumer of t goes away, with its goroutines, and is restarted.
Restart(t) ==
  /\ held' = [held EXCEPT ![t] = {}]
  /\ current' = [current EXCEPT ![t] = None]
  /\ worked' = [worked EXCEPT ![t] = FALSE]
  /\ LET gone == {m \in pending : Owner(m) = t}
     IN  pending' = pending \ gone /\ lost' = lost \cup gone
  /\ UNCHANGED <<handlers, log, acked, inputs, outcomes, deliveries>>

\* replaceAll panics.
Crash ==
  /\ \E m \in held["email"] : Mail(m) /\ Panics(m)
  /\ Restart("email")
  /\ UNCHANGED stops

CountStop(p) ==
  /\ stops["charges"] + stops["commands"] + stops["email"] + stops["gateway"] < MaxStops
  /\ stops' = [stops EXCEPT ![p] = @ + 1]

Stop(t) == CountStop(t) /\ Restart(t)

StopGateway ==
  /\ CountStop("gateway")
  /\ stage' = [r \in Requests |-> IF stage[r] = "called" THEN "over" ELSE stage[r]]
  /\ LET gone == {m \in pending : Owner(m) = "gateway"}
     IN  pending' = pending \ gone /\ lost' = lost \cup gone
  /\ UNCHANGED <<failed, unsure, log, consumers, inputs, outcomes, deliveries>>

Consume(t) == Receive(t) \/ Parse(t) \/ Ack(t)

Next ==
  \/ \E r \in Requests : Call(r) \/ Answer(r) \/ Cancel(r)
  \/ \E m \in pending : Send(m)
  \/ \E t \in Topics : Consume(t) \/ Stop(t)
  \/ Monitor \/ Execute \/ SendMail \/ FailMail \/ Crash
  \/ StopGateway

Spec == Init /\ [][Next]_vars

\* Handlers and goroutines are scheduled, and the loops of the consumers go on.
Fairness ==
  /\ \A r \in Requests : WF_vars(Answer(r))
  /\ WF_vars(\E m \in pending : Send(m))
  /\ \A t \in Topics : WF_vars(Consume(t))
  /\ WF_vars(Monitor) /\ WF_vars(Execute) /\ WF_vars(SendMail \/ FailMail)

FairSpec == Spec /\ Fairness

-----------------------------------------------------------------------------
(***************************************************************************)
(* Properties.                                                             *)
(***************************************************************************)

\* An adjustment is applied once, but for two causes: the RPC had done it and
\* returned an error, or the service that carries commands out was stopped
\* before it acknowledged.  What a charge triggers may besides be applied once
\* for every stop of the monitor.
ApplicationsBounded ==
  /\ \A r \in Requests :
       applied[r] <= 1 + (IF r \in unsure THEN 1 ELSE 0) + stops["commands"]
  /\ \A c \in Charges :
       applied[c] <= Cardinality({t \in Triggers : t.action = "adjust_balance"})
                       * (1 + stops["charges"]) + stops["commands"]

\* An acknowledged charge has fired every trigger it matches: there is a message
\* on its way or on the topic, or lost in its goroutine.  Only a trigger that the
\* SELECT did not yield is passed over, and it alone.
FiringsAccounted ==
  \A c \in Charges, t \in Triggers :
    /\ Plain(c) \in acked["charges"]
    /\ charge[c] # None
    /\ ShouldTrigger(t, c)
    /\ <<c, t>> \notin unloaded
    =>
      \E m \in pending \cup log[TopicOf(Message(c, t, 0))] \cup lost :
        m.of = c /\ m.via = t

\* A mail that is acknowledged has been sent, however sending and stopping
\* alternate.
AckedMailWasSent ==
  \A m \in acked["email"] : Malformed(m) \/ \E x \in sent : x.mail = m

\* In a mail that is sent every placeholder is replaced, and nothing else.
SentIsRendered ==
  \A x \in sent : x.text \in {Rendered(TextOf(x.mail)), Rendered(Default)}

\* What has been answered with 202 is carried out in the end, with no help from
\* the client, unless the goroutine that queues it comes to nothing.  A top-up
\* has no such promise.
EventuallyApplied ==
  \A r \in Requests :
    kind[r] # "topup" /\ stage[r] = "answered" ~> applied[r] > 0 \/ Plain(r) \in lost

\* All topics are worked off in the end, whatever is published on them, but for
\* two kinds of mail: one that could not be sent may stay with the client of the
\* consumer, which moves on, and one whose template takes the consumer down
\* keeps doing so, and may keep the others waiting.
Waits(m) == m \in held["email"] /\ current["email"] # m /\ ~Malformed(m)
Stuck == \E m \in log["email"] : ~Malformed(m) /\ Panics(m)

EventuallyWorkedOff ==
  <>[](\A t \in Topics : \A m \in log[t] \ acked[t] :
         t = "email" /\ (Waits(m) \/ Stuck))

=============================================================================
