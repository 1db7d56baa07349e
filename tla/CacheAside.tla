----------------------------- MODULE CacheAside -----------------------------
(***************************************************************************)
(* One cached piece of configuration: branding:<tenant> (pkg/branding) or  *)
(* i18n:<locale> (pkg/i18n) in Redis, the rows of PostgreSQL it is made    *)
(* from, the handlers of the admin gateway that change the rows, the topic *)
(* config.changes, and workers/cache-invalidator.                          *)
(*                                                                         *)
(* A reader that misses selects, and later sets; a writer updates, later   *)
(* deletes the entry, and later publishes an event upon which the worker   *)
(* deletes it again.  These are separate steps of separate processes.  The *)
(* content is named after the number of UPDATEs it reflects, its version.  *)
(***************************************************************************)
EXTENDS Integers

CONSTANTS
  Readers,      \* GET /branding or /translations requests, in any gateway
  Writers,      \* requests that change the rows
  Kinds,        \* what they do: "update", "logo" (branding), "import" (i18n)
  MaxVersion,   \* bound of the model: UPDATEs that are committed
  MaxFailures,  \* bound of the model: DELs that fail, gateways that stop and
                \* SELECTs that break off
  None          \* no entry, no reading under way, no event

ASSUME KindsAssumption == Kinds \subseteq {"update", "logo", "import"}
ASSUME BoundsAssumption == MaxVersion \in Nat /\ MaxFailures \in Nat
ASSUME NoneAssumption == None \notin Int

VARIABLES
  version,   \* what the rows hold
  cache,     \* the version of the entry in Redis, or None
  reader,    \* reader[r]: the version r has selected and is about to set
  part,      \* the readers whose SELECT broke off and gave a part of the rows
  incomplete,\* whether the entry in Redis was made from such a part
  writer,    \* writer[w]: the next step of w, and the version it has written
  topic,     \* the events not acknowledged, by the version they announce
  worker,    \* the event the worker has processed and not acknowledged
  late,      \* history: the entry is older than the last DEL before its SET
  cleared,   \* history: the version there was when a DEL last took effect
  lost,      \* history: versions whose DEL by event will not take effect
  failures   \* how many failures there have been

entry == <<cache, incomplete>>
reading == <<reader, part>>
history == <<late, cleared, lost, failures>>
vars == <<version, entry, reading, writer, topic, worker, history>>

TypeOK ==
  /\ version \in Nat
  /\ cache \in 0 .. version \cup {None}
  /\ reader \in [Readers -> 0 .. version \cup {None}]
  /\ part \in SUBSET Readers
  /\ incomplete \in BOOLEAN
  /\ writer \in [Writers -> [step : {"idle", "import", "delete", "publish"},
                             wrote : 0 .. version]]
  /\ topic \in SUBSET (0 .. version)
  /\ worker \in 0 .. version \cup {None}
  /\ late \in BOOLEAN
  /\ cleared \in 0 .. version
  /\ lost \in SUBSET (0 .. version)
  /\ failures \in Nat

-----------------------------------------------------------------------------

Init ==
  /\ version = 0
  /\ cache = None
  /\ reader = [r \in Readers |-> None]
  /\ part = {}
  /\ incomplete = FALSE
  /\ writer = [w \in Writers |-> [step |-> "idle", wrote |-> 0]]
  /\ topic = {}
  /\ worker = None
  /\ late = FALSE
  /\ cleared = 0
  /\ lost = {}
  /\ failures = 0

\* redis.Delete of the entry takes effect.
ClearEntry ==
  /\ cache' = None
  /\ incomplete' = FALSE
  /\ late' = FALSE
  /\ cleared' = version

Fail == failures < MaxFailures /\ failures' = failures + 1

-----------------------------------------------------------------------------
(***************************************************************************)
(* Readers.  A GET that finds the entry changes nothing.                   *)
(***************************************************************************)

\* GET finds nothing, or fails; one SELECT follows.  branding reads one row.
\* i18n reads many, skips those that do not scan, and does not ask whether the
\* result set ended or broke off.
Select(r) ==
  /\ reader[r] = None
  /\ reader' = [reader EXCEPT ![r] = version]
  /\ \/ UNCHANGED <<part, failures>>
     \/ "import" \in Kinds /\ Fail /\ part' = part \cup {r}
  /\ UNCHANGED <<version, entry, writer, topic, worker, late, cleared, lost>>

\* SET, over whatever is there by now.
Fill(r) ==
  /\ reader[r] # None
  /\ cache' = reader[r]
  /\ incomplete' = (r \in part)
  /\ late' = (reader[r] < cleared)
  /\ reader' = [reader EXCEPT ![r] = None]
  /\ part' = part \ {r}
  /\ UNCHANGED <<version, writer, topic, worker, cleared, lost, failures>>

\* SET fails, or the gateway stops; the error is not looked at.
FillNothing(r) ==
  /\ reader[r] # None
  /\ reader' = [reader EXCEPT ![r] = None]
  /\ part' = part \ {r}
  /\ UNCHANGED <<version, entry, writer, topic, worker, history>>

\* A slip to compare with: SET without an expiry.
ExpireNever == FALSE /\ UNCHANGED vars

\* The entry's five minutes, or its hour, are over.
Expire ==
  /\ cache # None
  /\ cache' = None
  /\ incomplete' = FALSE
  /\ late' = FALSE
  /\ UNCHANGED <<version, reading, writer, topic, worker, cleared, lost, failures>>

-----------------------------------------------------------------------------
(***************************************************************************)
(* Writers.                                                                *)
(***************************************************************************)

\* A slip to compare with: the handler goes on after an UPDATE that failed.
CommitNothing(w, next) ==
  /\ version < MaxVersion
  /\ writer' = [writer EXCEPT ![w] = [step |-> next, wrote |-> version + 1]]
  /\ UNCHANGED <<version, entry, reading, topic, worker, history>>

\* One statement of w is committed, and next is what follows it.
Commit(w, next) ==
  /\ version < MaxVersion
  /\ version' = version + 1
  /\ writer' = [writer EXCEPT ![w] = [step |-> next, wrote |-> version + 1]]
  /\ UNCHANGED <<entry, reading, topic, worker, history>>

\* UpdateBranding: when the UPDATE fails the handler returns.
UpdateBranding(w) ==
  /\ "update" \in Kinds
  /\ writer[w].step = "idle"
  /\ Commit(w, "delete")

\* UploadLogo: the only invalidation is the event.
UploadLogo(w) ==
  /\ "logo" \in Kinds
  /\ writer[w].step = "idle"
  /\ Commit(w, "publish")

\* ImportTranslations: one statement per translation; one that fails is
\* skipped.
ImportOne(w) ==
  /\ "import" \in Kinds
  /\ writer[w].step \in {"idle", "import"}
  /\ Commit(w, "import")

ImportEnd(w) ==
  /\ writer[w].step = "import"
  /\ writer' = [writer EXCEPT ![w].step = "delete"]
  /\ UNCHANGED <<version, entry, reading, topic, worker, history>>

\* InvalidateCache, whose error is dropped.
Delete(w) ==
  /\ writer[w].step = "delete"
  /\ writer' = [writer EXCEPT ![w].step = "publish"]
  /\ \/ ClearEntry /\ UNCHANGED failures
     \/ Fail /\ UNCHANGED <<entry, late, cleared>>
  /\ UNCHANGED <<version, reading, topic, worker, lost>>

\* go PublishTo(ctx, ...): with the context of the request, which ends when the
\* handler returns, so that the event may be sent or not.
Publish(w) ==
  /\ writer[w].step = "publish"
  /\ writer' = [writer EXCEPT ![w].step = "idle"]
  /\ \/ topic' = topic \cup {writer[w].wrote} /\ UNCHANGED lost
     \/ lost' = lost \cup {writer[w].wrote} /\ UNCHANGED topic
  /\ UNCHANGED <<version, entry, reading, worker, late, cleared, failures>>

\* The gateway stops in the middle of the handler.
GiveUp(w) ==
  /\ writer[w].step # "idle"
  /\ Fail
  /\ writer' = [writer EXCEPT ![w].step = "idle"]
  /\ lost' = lost \cup {writer[w].wrote}
  /\ UNCHANGED <<version, entry, reading, topic, worker, late, cleared>>

-----------------------------------------------------------------------------
(***************************************************************************)
(* The worker.                                                             *)
(***************************************************************************)

\* A slip to compare with: another key is deleted, such as the
\* i18n:{locale}:{category} of the documents.
ProcessElsewhere(e) ==
  /\ e \in topic
  /\ worker = None
  /\ worker' = e
  /\ UNCHANGED <<version, entry, reading, writer, topic, history>>

\* processEvent; a Delete that fails is logged.
Process(e) ==
  /\ e \in topic
  /\ worker = None
  /\ worker' = e
  /\ \/ ClearEntry /\ UNCHANGED <<lost, failures>>
     \/ Fail /\ lost' = lost \cup {e} /\ UNCHANGED <<entry, late, cleared>>
  /\ UNCHANGED <<version, reading, writer, topic>>

\* consumer.Ack, in either case.
Ack ==
  /\ worker # None
  /\ topic' = topic \ {worker}
  /\ worker' = None
  /\ UNCHANGED <<version, entry, reading, writer, history>>

\* The worker stops before the Ack and is started again; the event is
\* delivered again.
Redeliver ==
  /\ worker # None
  /\ worker' = None
  /\ UNCHANGED <<version, entry, reading, writer, topic, history>>

-----------------------------------------------------------------------------

Next ==
  \/ \E r \in Readers : Select(r) \/ Fill(r) \/ FillNothing(r)
  \/ \E w \in Writers : \/ UpdateBranding(w) \/ UploadLogo(w)
                        \/ ImportOne(w) \/ ImportEnd(w)
                        \/ Delete(w) \/ Publish(w) \/ GiveUp(w)
  \/ \E e \in topic : Process(e)
  \/ Ack
  \/ Redeliver
  \/ Expire

Spec == Init /\ [][Next]_vars

\* Redis drops what has expired, and a reader past its SELECT comes to its SET
\* or fails.  Nothing is assumed of the writers and the worker.
Fairness == /\ WF_vars(Expire)
            /\ \A r \in Readers : WF_vars(Fill(r) \/ FillNothing(r))

FairSpec == Spec /\ Fairness

-----------------------------------------------------------------------------
(***************************************************************************)
(* Properties.                                                             *)
(***************************************************************************)

Stale == cache # None /\ cache < version

\* Some invalidation is still to come for version v.
Pending(v) == \/ v \in topic
              \/ \E w \in Writers : writer[w].step # "idle" /\ writer[w].wrote = v

\* An entry that is out of date is so for one of three reasons: the newest
\* write's invalidation is on its way, or it got lost, or a reader set what it
\* had selected before the last DEL.  Interleaved writers, a loop of upserts
\* followed by one DEL, redelivered events and failed DELs add no other.
\* (It speaks of the version only: an entry that lacks rows of its version
\* needs no write to be wrong, and no invalidation is on its way for it.)
StaleExplained == Stale => late \/ Pending(version) \/ version \in lost

\* Once the writes and the failures have ended every reader gets the newest
\* version, and the whole of it, for good, whatever was lost, came late or was
\* cached in part: the expiry sees to it, and nothing else would see to an
\* entry made from a SELECT that broke off.
EventuallyCurrent == <>[](~Stale /\ ~incomplete)

=============================================================================
