-------------------------- MODULE CacheAsideProofs --------------------------
(***************************************************************************)
(* Proofs about CacheAside: its types, and that an entry is out of date    *)
(* for one of the three known reasons only.                                *)
(***************************************************************************)
EXTENDS CacheAside, TLAPS

USE BoundsAssumption, NoneAssumption

\* A writer's record, changed in one field or in both.
LEMMA WriterType ==
  ASSUME TypeOK, NEW w \in Writers,
         NEW step \in {"idle", "import", "delete", "publish"}
  PROVE  /\ [writer EXCEPT ![w].step = step]
              \in [Writers -> [step : {"idle", "import", "delete", "publish"},
                               wrote : 0 .. version]]
         /\ [writer EXCEPT ![w] = [step |-> step, wrote |-> version + 1]]
              \in [Writers -> [step : {"idle", "import", "delete", "publish"},
                               wrote : 0 .. version + 1]]
         /\ writer[w].wrote \in 0 .. version
         /\ version \in Nat
<1>1. /\ version \in Nat
      /\ writer \in [Writers -> [step : {"idle", "import", "delete", "publish"},
                                 wrote : 0 .. version]]
  BY DEF TypeOK
<1>2. 0 .. version \subseteq 0 .. version + 1 /\ version + 1 \in 0 .. version + 1
  BY <1>1
<1> QED
  BY <1>1, <1>2

LEMMA TypeInit == Init => TypeOK
<1> SUFFICES ASSUME Init PROVE TypeOK
  OBVIOUS
<1>1. 0 \in Nat /\ 0 \in 0 .. 0
  OBVIOUS
<1>2. [step |-> "idle", wrote |-> 0]
        \in [step : {"idle", "import", "delete", "publish"}, wrote : 0 .. 0]
  BY <1>1
<1>3. writer \in [Writers -> [step : {"idle", "import", "delete", "publish"},
                             wrote : 0 .. version]]
  BY <1>2 DEF Init
<1>4. reader \in [Readers -> 0 .. version \cup {None}]
  BY DEF Init
<1> QED
  BY <1>1, <1>3, <1>4 DEF Init, TypeOK

LEMMA TypeStep == TypeOK /\ [Next]_vars => TypeOK'
<1> SUFFICES ASSUME TypeOK, [Next]_vars PROVE TypeOK'
  OBVIOUS
<1>1. ASSUME NEW r \in Readers, Select(r) \/ Fill(r) \/ FillNothing(r)
      PROVE  TypeOK'
  <2>1. version \in 0 .. version
    BY DEF TypeOK
  <2>2. reader' \in [Readers -> 0 .. version \cup {None}]
    BY <1>1, <2>1 DEF TypeOK, Select, Fill, FillNothing
  <2>3. reader[r] # None => reader[r] \in 0 .. version
    BY DEF TypeOK
  <2>4. cache' \in 0 .. version \cup {None}
    BY <1>1, <2>3 DEF TypeOK, Select, Fill, FillNothing, entry
  <2>5. late' = late \/ late' = (reader[r] < cleared)
    BY <1>1 DEF Select, Fill, FillNothing, history
  <2>6. late' \in BOOLEAN
    <3>1. (reader[r] < cleared) \in BOOLEAN
      OBVIOUS
    <3> QED
      BY <2>5, <3>1, Zenon DEF TypeOK
  <2>7. UNCHANGED <<version, writer, topic, worker, cleared, lost>>
    BY <1>1 DEF Select, Fill, FillNothing, history
  <2>8. /\ part' \in SUBSET Readers
        /\ failures' \in Nat
    BY <1>1 DEF TypeOK, Select, Fill, FillNothing, Fail, history
  <2>9. incomplete' = incomplete \/ incomplete' = (r \in part)
    BY <1>1 DEF Select, Fill, FillNothing, entry
  <2>10. incomplete' \in BOOLEAN
    <3>1. (r \in part) \in BOOLEAN
      OBVIOUS
    <3> QED
      BY <2>9, <3>1, Zenon DEF TypeOK
  <2> QED
    BY <2>2, <2>4, <2>6, <2>7, <2>8, <2>10 DEF TypeOK
<1>2. ASSUME NEW w \in Writers, NEW next \in {"import", "delete", "publish"},
             Commit(w, next)
      PROVE  TypeOK'
  <2>1. /\ version' = version + 1
        /\ writer' = [writer EXCEPT ![w] = [step |-> next, wrote |-> version + 1]]
        /\ UNCHANGED <<cache, incomplete, reader, part, topic, worker, late,
                       cleared, lost, failures>>
    BY <1>2 DEF Commit, entry, reading, history
  <2>2. 0 .. version \subseteq 0 .. version' /\ version' \in Nat
    BY <2>1 DEF TypeOK
  <2>3. writer' \in [Writers -> [step : {"idle", "import", "delete", "publish"},
                                 wrote : 0 .. version']]
    BY <2>1, WriterType
  <2> QED
    BY <2>1, <2>2, <2>3 DEF TypeOK
<1>3. ASSUME NEW w \in Writers, ImportEnd(w) \/ Delete(w) \/ Publish(w) \/ GiveUp(w)
      PROVE  TypeOK'
  <2>0. PICK step \in {"idle", "delete", "publish"} :
          writer' = [writer EXCEPT ![w].step = step]
    BY <1>3 DEF ImportEnd, Delete, Publish, GiveUp
  <2>1. /\ UNCHANGED <<version, reader, part, worker>>
        /\ writer' \in [Writers -> [step : {"idle", "import", "delete", "publish"},
                                    wrote : 0 .. version]]
    BY <1>3, <2>0, WriterType
       DEF ImportEnd, Delete, Publish, GiveUp, reading, history
  <2>2. /\ topic' \in SUBSET (0 .. version)
        /\ lost' \in SUBSET (0 .. version)
    BY <1>3, WriterType DEF TypeOK, ImportEnd, Delete, Publish, GiveUp, history
  <2>3. /\ cache' \in 0 .. version \cup {None}
        /\ late' \in BOOLEAN /\ incomplete' \in BOOLEAN
        /\ cleared' \in 0 .. version
    <3>1. ClearEntry \/ UNCHANGED <<cache, incomplete, late, cleared>>
      BY <1>3 DEF ImportEnd, Delete, Publish, GiveUp, entry, history
    <3>2. late' \in BOOLEAN /\ incomplete' \in BOOLEAN
      BY <3>1, Zenon DEF TypeOK, ClearEntry
    <3>3. cache' \in 0 .. version \cup {None} /\ cleared' \in 0 .. version
      BY <3>1 DEF TypeOK, ClearEntry
    <3> QED
      BY <3>2, <3>3
  <2>4. failures' \in Nat
    BY <1>3 DEF TypeOK, ImportEnd, Delete, Publish, GiveUp, Fail, history
  <2> QED
    BY <2>1, <2>2, <2>3, <2>4 DEF TypeOK
<1>4. ASSUME NEW e \in topic, Process(e)
      PROVE  TypeOK'
  BY <1>4 DEF TypeOK, Process, ClearEntry, Fail, entry, reading
<1>5. CASE Ack \/ Redeliver \/ Expire
  BY <1>5 DEF TypeOK, Ack, Redeliver, Expire, entry, reading, history
<1>6. CASE UNCHANGED vars
  BY <1>6 DEF TypeOK, vars, entry, reading, history
<1> QED
  BY <1>1, <1>2, <1>3, <1>4, <1>5, <1>6
     DEF Next, UpdateBranding, UploadLogo, ImportOne

\* The versions every reader, writer, event and entry speaks of exist.
THEOREM TypeCorrect == Spec => []TypeOK
  BY TypeInit, TypeStep, PTL DEF Spec

-----------------------------------------------------------------------------

\* The newest version has been cleared for, or is to be, or that got lost.
NewestHandled == version > cleared => Pending(version) \/ version \in lost

\* An event whose processing has begun has had its effect, or never will.
Processed == worker # None => worker \in lost \/ worker <= cleared

\* An entry that did not come late was selected after the last DEL.
OnTime == cache # None /\ ~late => cache >= cleared

CacheInv == TypeOK /\ NewestHandled /\ Processed /\ OnTime

LEMMA CacheInvStep == CacheInv /\ [Next]_vars => CacheInv'
<1> SUFFICES ASSUME CacheInv, [Next]_vars PROVE CacheInv'
  OBVIOUS
<1>0. TypeOK /\ TypeOK'
  BY TypeStep DEF CacheInv
<1>1. ASSUME NEW r \in Readers, Select(r) \/ Fill(r) \/ FillNothing(r)
      PROVE  CacheInv'
  <2>1. /\ NewestHandled' /\ Processed'
    BY <1>1 DEF CacheInv, NewestHandled, Processed, Pending, Select, Fill,
                FillNothing, entry, history
  <2>2. OnTime'
    BY <1>0, <1>1
       DEF CacheInv, OnTime, TypeOK, Select, Fill, FillNothing, entry, history
  <2> QED
    BY <1>0, <2>1, <2>2 DEF CacheInv
<1>2. ASSUME NEW w \in Writers, NEW next \in {"import", "delete", "publish"},
             Commit(w, next)
      PROVE  CacheInv'
  <2>1. writer'[w].step # "idle" /\ writer'[w].wrote = version'
    BY <1>0, <1>2 DEF Commit, TypeOK
  <2>2. NewestHandled'
    BY <2>1 DEF NewestHandled, Pending
  <2>3. Processed' /\ OnTime'
    BY <1>2 DEF Commit, CacheInv, Processed, OnTime, entry, history
  <2> QED
    BY <1>0, <2>2, <2>3 DEF CacheInv
<1>3. ASSUME NEW w \in Writers, ImportEnd(w) \/ Delete(w) \/ Publish(w) \/ GiveUp(w)
      PROVE  CacheInv'
  <2>1. \A x \in Writers \ {w} : writer'[x] = writer[x]
    BY <1>0, <1>3 DEF TypeOK, ImportEnd, Delete, Publish, GiveUp
  <2>2. writer'[w].wrote = writer[w].wrote
    BY <1>0, <1>3 DEF TypeOK, ImportEnd, Delete, Publish, GiveUp
  <2>3. CASE ImportEnd(w) \/ Delete(w)
    <3>1. writer'[w].step # "idle" /\ topic' = topic /\ lost' = lost
          /\ version' = version /\ worker' = worker
      BY <1>0, <2>3 DEF TypeOK, ImportEnd, Delete, history
    <3>2. Pending(version) => Pending(version)'
      BY <2>1, <2>2, <3>1 DEF Pending
    <3>3. CASE UNCHANGED <<cache, late, cleared>>
      BY <1>0, <3>1, <3>2, <3>3 DEF CacheInv, NewestHandled, Processed, OnTime
    <3>4. CASE ClearEntry
      BY <1>0, <3>1, <3>4
         DEF CacheInv, TypeOK, NewestHandled, Processed, OnTime, ClearEntry
    <3> QED
      BY <2>3, <3>3, <3>4 DEF ImportEnd, Delete, entry, history
  <2>4. CASE Publish(w) \/ GiveUp(w)
    <3>1. /\ UNCHANGED <<version, cache, worker, late, cleared>>
          /\ topic \subseteq topic' /\ lost \subseteq lost'
          /\ writer[w].wrote \in topic' \cup lost'
      BY <2>4 DEF Publish, GiveUp, entry
    <3>2. Pending(version) => Pending(version)' \/ version' \in lost'
      BY <2>1, <3>1 DEF Pending
    <3> QED
      BY <1>0, <3>1, <3>2 DEF CacheInv, NewestHandled, Processed, OnTime
  <2> QED
    BY <1>3, <2>3, <2>4
<1>4. ASSUME NEW e \in topic, Process(e)
      PROVE  CacheInv'
  <2>1. /\ UNCHANGED <<version, reader, writer, topic>>
        /\ worker' = e /\ e <= version /\ version \in Nat
    BY <1>0, <1>4 DEF Process, TypeOK
  <2>2. CASE ClearEntry /\ UNCHANGED <<lost, failures>>
    BY <1>0, <2>1, <2>2
       DEF CacheInv, NewestHandled, Processed, OnTime, ClearEntry
  <2>3. CASE lost' = lost \cup {e} /\ UNCHANGED <<cache, late, cleared>>
    BY <1>0, <2>1, <2>3
       DEF CacheInv, NewestHandled, Processed, OnTime, Pending
  <2> QED
    BY <1>4, <2>2, <2>3 DEF Process, entry
<1>5. CASE Ack
  <2>1. /\ UNCHANGED <<version, cache, writer, late, cleared, lost>>
        /\ topic' = topic \ {worker} /\ worker # None /\ worker' = None
    BY <1>5 DEF Ack, entry, history
  <2>2. version > cleared => version # worker \/ version \in lost
    BY <1>0 DEF CacheInv, Processed, TypeOK
  <2> QED
    BY <1>0, <2>1, <2>2
       DEF CacheInv, NewestHandled, Processed, OnTime, Pending
<1>6. CASE Redeliver \/ Expire \/ UNCHANGED vars
  BY <1>0, <1>6
     DEF CacheInv, NewestHandled, Processed, OnTime, Pending, Redeliver, Expire,
         vars, entry, history
<1> QED
  BY <1>1, <1>2, <1>3, <1>4, <1>5, <1>6
     DEF Next, UpdateBranding, UploadLogo, ImportOne

\* An entry of the cache that is out of date is explained by a pending or lost
\* invalidation, or by a reader that set it late, for any numbers of readers,
\* writers and failures.
THEOREM StalenessExplained == Spec => []StaleExplained
<1>1. Init => CacheInv
  BY TypeInit DEF Init, CacheInv, NewestHandled, Processed, OnTime
<1>2. CacheInv => StaleExplained
  BY DEF CacheInv, TypeOK, NewestHandled, OnTime, StaleExplained, Stale
<1> QED
  BY <1>1, <1>2, CacheInvStep, PTL DEF Spec

=============================================================================
