--------------------------- MODULE StackTasks_proofs ---------------------------
(***************************************************************************)
(* The safety properties of StackTasks for any number of requests, servers *)
(* and restarts.                                                           *)
(***************************************************************************)
EXTENDS StackTasks, TLAPS

\* A write that a server has in hand names a revision of its task that was
\* reached while the task worked, and if nothing was written since it works still.
Due(s) == busy[s] # None =>
    /\ busy[s].revision <= task[busy[s].task].revision
    /\ busy[s].revision = task[busy[s].task].revision =>
          task[busy[s].task].status = "working"

IInv == TypeOK /\ \A s \in Servers : Due(s)

\* The store only moves forward: a task is left alone, or it was not over and
\* its revision moves.
Forward(t) ==
    \/ task'[t] = task[t]
    \/ task[t].status \notin Terminal /\ task'[t].revision = task[t].revision + 1

\* Writes of the servers other than s stay due when the store moves forward.
LEMMA OthersDue ==
    ASSUME IInv, NEW s \in Servers, \A t \in Tasks : Forward(t),
           NEW q \in Servers, busy'[q] = busy[q]
    PROVE  Due(q)'
  <1>1. busy[q] # None => busy[q] \in Writes
    BY DEF IInv, TypeOK
  <1>2. busy[q] # None => busy[q].task \in Tasks /\ busy[q].revision \in Nat
    BY <1>1 DEF Writes
  <1>3. \A t \in Tasks : task[t].revision \in Nat
    <2> SUFFICES ASSUME NEW t \in Tasks PROVE task[t].revision \in Nat
      OBVIOUS
    <2>1. task[t] \in Records
      BY DEF IInv, TypeOK
    <2> QED BY <2>1 DEF Records
  <1>4. CASE busy[q] = None
    BY <1>4 DEF Due
  <1>5. CASE busy[q] # None
    <2> DEFINE w == busy[q].task
    <2>1. w \in Tasks /\ task[w].revision \in Nat /\ busy[q].revision \in Nat
      BY <1>2, <1>3, <1>5
    <2>2. Due(q) /\ Forward(w)
      BY <2>1 DEF IInv
    <2> QED BY <1>5, <2>1, <2>2 DEF Due, Forward
  <1> QED BY <1>4, <1>5

\* What the store writes is a record, and moves the task forward.
LEMMA StoredForward ==
    ASSUME TypeOK, NEW t \in Tasks, NEW status \in {"working"} \cup Terminal,
           Stored(t, status), task[t].status \notin Terminal
    PROVE  task' \in [Tasks -> Records] /\ \A u \in Tasks : Forward(u)
  <1>1. task[t] \in Records
    BY DEF TypeOK
  <1>2. [status |-> status, revision |-> task[t].revision + 1, cancelling |-> FALSE] \in Records
    BY <1>1 DEF Records, Terminal
  <1>3. task' = [task EXCEPT ![t] = [status |-> status, revision |-> task[t].revision + 1,
                                     cancelling |-> FALSE]]
    BY <1>1 DEF Stored, TypeOK
  <1>4. task' \in [Tasks -> Records]
    BY <1>2, <1>3 DEF TypeOK
  <1> QED BY <1>3, <1>4 DEF Forward, TypeOK

\* A coroutine goes from one state to another.
LEMMA AtTyped ==
    ASSUME TypeOK, NEW s \in Servers, NEW t \in Tasks, NEW state \in Coroutines,
           At(s, t, state)
    PROVE  worker' \in [Servers -> [Tasks -> Coroutines]]
  BY DEF TypeOK, At

\* Initially no server is in a store call.
LEMMA InitIInv == Init => IInv
  <1> SUFFICES ASSUME Init PROVE IInv
    OBVIOUS
  <1>1. Absent \in Records
    BY DEF Absent, Records
  <1>2. "none" \in Coroutines
    BY DEF Coroutines
  <1>3. TypeOK
    BY <1>1, <1>2, StackTasksAssumption DEF Init, TypeOK
  <1> QED BY <1>3 DEF Init, IInv, Due

\* A step that starts or stops a coroutine writes nothing.
LEMMA QuietKeeps ==
    ASSUME IInv, NEW s \in Servers, NEW t \in Tasks, Start(s, t) \/ StopWorker(s, t)
    PROVE  IInv' /\ \A u \in Tasks : Forward(u)
  <1>1. worker' \in [Servers -> [Tasks -> Coroutines]]
    BY AtTyped DEF IInv, Start, StopWorker, Coroutines
  <1> QED BY <1>1 DEF IInv, TypeOK, Start, StopWorker, Due, Forward

\* A call stores a new record or finds the old one.
LEMMA CallKeeps ==
    ASSUME IInv, NEW s \in Servers, NEW t \in Tasks, Call(s, t) \/ CallCrashes(s, t)
    PROVE  IInv' /\ \A u \in Tasks : Forward(u)
  <1>1. task' \in [Tasks -> Records] /\ \A u \in Tasks : Forward(u)
    <2>1. CASE UNCHANGED task
      BY <2>1 DEF IInv, TypeOK, Forward
    <2>2. CASE task[t].status = "none" /\ Stored(t, "working")
      BY <2>2, StoredForward DEF IInv, Terminal
    <2> QED BY <2>1, <2>2 DEF Call, CallCrashes
  <1>2. busy' = busy /\ payload' = payload
    BY DEF Call, CallCrashes
  <1>3. worker' \in [Servers -> [Tasks -> Coroutines]]
    <2>1. CASE Call(s, t)
      BY <2>1, AtTyped DEF IInv, Call, Coroutines
    <2>2. CASE CallCrashes(s, t)
      BY <2>2 DEF IInv, TypeOK, CallCrashes, Coroutines
    <2> QED BY <2>1, <2>2
  <1>4. crashes' \in 0..MaxCrashes
    <2>1. \/ crashes' = crashes
          \/ crashes < MaxCrashes /\ crashes' = crashes + 1
      BY DEF Call, CallCrashes
    <2> QED BY <2>1, StackTasksAssumption DEF IInv, TypeOK
  <1>5. TypeOK'
    BY <1>1, <1>2, <1>3, <1>4 DEF IInv, TypeOK
  <1>6. \A q \in Servers : Due(q)'
    BY <1>1, <1>2, OthersDue
  <1> QED BY <1>1, <1>5, <1>6 DEF IInv

\* The answer of an inspection is written only for a task that works.
LEMMA InspectedKeeps ==
    ASSUME IInv, NEW s \in Servers, NEW t \in Tasks, Inspected(s, t)
    PROVE  IInv' /\ \A u \in Tasks : Forward(u)
  <1>1. worker' \in [Servers -> [Tasks -> Coroutines]]
    BY AtTyped DEF IInv, Inspected, Coroutines
  <1>2. PICK op \in {"result", "error"} :
           /\ payload' = payload \cup {<<t, op>>}
           /\ busy' = IF task[t].status = "working"
                      THEN [busy EXCEPT ![s] = Write(op, t)] ELSE busy
    BY DEF Inspected
  <1>3. task[t].revision \in Nat
    BY DEF IInv, TypeOK, Records
  <1>4. Write(op, t) \in Writes
    BY <1>3 DEF Write, Writes
  <1>5. TypeOK'
    BY <1>1, <1>2, <1>4 DEF IInv, TypeOK, Inspected
  <1>6. \A u \in Tasks : Forward(u)
    BY DEF Inspected, Forward
  <1>7. Due(s)'
    <2>1. CASE task[t].status = "working"
      BY <1>2, <1>3, <2>1 DEF IInv, TypeOK, Inspected, Due, Write
    <2>2. CASE task[t].status # "working"
      BY <1>2, <2>2 DEF IInv, Inspected, Due
    <2> QED BY <2>1, <2>2
  <1>8. ASSUME NEW q \in Servers \ {s} PROVE Due(q)'
    BY <1>2, <1>6, <1>8, OthersDue DEF IInv, TypeOK
  <1> QED BY <1>5, <1>6, <1>7, <1>8 DEF IInv

\* The store takes a write only at the revision it names, where the task works.
LEMMA FinishKeeps ==
    ASSUME IInv, NEW s \in Servers, NEW t \in Tasks, Finish(s, t)
    PROVE  IInv' /\ \A u \in Tasks : Forward(u)
  <1>1. worker' \in [Servers -> [Tasks -> Coroutines]]
    BY AtTyped DEF IInv, Finish, Coroutines
  <1>2. task[t].revision \in Nat
    BY DEF IInv, TypeOK, Records
  <1>3. Write("error", t) \in Writes
    BY <1>2 DEF Write, Writes
  <1>4. task' \in [Tasks -> Records] /\ \A u \in Tasks : Forward(u)
    <2>1. CASE UNCHANGED task
      BY <2>1 DEF IInv, TypeOK, Forward
    <2>2. ASSUME Accepts(s), NEW status \in Terminal, Stored(t, status)
          PROVE  task' \in [Tasks -> Records] /\ \A u \in Tasks : Forward(u)
      <3>1. task[t].status = "working"
        BY <2>2 DEF IInv, Due, Accepts, Finish
      <3> QED BY <2>2, <3>1, StoredForward DEF IInv, Terminal
    <2> QED BY <2>1, <2>2 DEF Finish, Terminal
  <1>5. busy' \in [Servers -> Writes \cup {None}]
    BY <1>3 DEF IInv, TypeOK, Finish
  <1>6. payload' \subseteq Tasks \X {"result", "error"}
    BY DEF IInv, TypeOK, Finish
  <1>7. TypeOK'
    BY <1>1, <1>4, <1>5, <1>6 DEF IInv, TypeOK, Finish
  <1>8. Due(s)'
    BY <1>2 DEF IInv, TypeOK, Finish, Due, Write
  <1>9. ASSUME NEW q \in Servers \ {s} PROVE Due(q)'
    <2>1. busy'[q] = busy[q]
      BY <1>9 DEF IInv, TypeOK, Finish
    <2> QED BY <1>4, <2>1, OthersDue
  <1> QED BY <1>4, <1>7, <1>8, <1>9 DEF IInv

\* A cancellation stores its intent in a working task and names that revision.
LEMMA CancelKeeps ==
    ASSUME IInv, NEW s \in Servers, NEW t \in Tasks, Cancel(s, t)
    PROVE  IInv' /\ \A u \in Tasks : Forward(u)
  <1> DEFINE state == CASE worker[s][t] = "new" -> "cancelled early"
                        [] worker[s][t] = "inspecting" -> "cancelled"
                        [] OTHER -> worker[s][t]
  <1>1. worker[s][t] \in Coroutines
    BY DEF IInv, TypeOK
  <1>2. state \in Coroutines
    BY <1>1 DEF Coroutines
  <1>3. worker' \in [Servers -> [Tasks -> Coroutines]]
    BY <1>2, AtTyped DEF IInv, Cancel
  <1>4. task[t] \in Records
    BY DEF IInv, TypeOK
  <1> DEFINE wanted == [status |-> "working", revision |-> task[t].revision + 1,
                        cancelling |-> TRUE]
  <1>5. task' = task \/ task' = [task EXCEPT ![t] = wanted]
    BY DEF Cancel
  <1>6. /\ task' \in [Tasks -> Records]
        /\ task'[t].status = "working"
        /\ \A u \in Tasks : Forward(u)
    <2>1. CASE task' = task
      BY <2>1 DEF IInv, TypeOK, Cancel, Forward
    <2>2. CASE task' = [task EXCEPT ![t] = wanted]
      <3>1. wanted \in Records
        BY <1>4 DEF Records
      <3>2. /\ task' \in [Tasks -> Records] /\ task'[t] = wanted
            /\ \A u \in Tasks \ {t} : task'[u] = task[u]
        BY <2>2, <3>1 DEF IInv, TypeOK
      <3>3. task[t].status \notin Terminal
        BY DEF Cancel, Terminal
      <3> QED BY <3>2, <3>3 DEF Forward
    <2> QED BY <1>5, <2>1, <2>2
  <1>7. [op |-> "cancel", task |-> t, revision |-> task'[t].revision] \in Writes
    BY <1>6 DEF Records, Writes
  <1>8. TypeOK'
    BY <1>3, <1>6, <1>7 DEF IInv, TypeOK, Cancel
  <1>9. Due(s)'
    <2>1. task'[t].revision \in Nat
      BY <1>6 DEF Records
    <2>2. busy'[s] = [op |-> "cancel", task |-> t, revision |-> task'[t].revision]
      BY DEF IInv, TypeOK, Cancel
    <2> QED BY <1>6, <2>1, <2>2 DEF Due
  <1>10. ASSUME NEW q \in Servers \ {s} PROVE Due(q)'
    <2>1. busy'[q] = busy[q]
      BY <1>10 DEF IInv, TypeOK, Cancel
    <2> QED BY <1>6, <2>1, OthersDue
  <1> QED BY <1>6, <1>8, <1>9, <1>10 DEF IInv

\* The acknowledgement is written only if nothing was written since the intent.
LEMMA AcknowledgeKeeps ==
    ASSUME IInv, NEW s \in Servers, NEW t \in Tasks, Acknowledge(s, t)
    PROVE  IInv' /\ \A u \in Tasks : Forward(u)
  <1>1. task' \in [Tasks -> Records] /\ \A u \in Tasks : Forward(u)
    <2>1. CASE UNCHANGED task
      BY <2>1 DEF IInv, TypeOK, Forward
    <2>2. CASE Accepts(s) /\ Stored(t, "cancelled")
      <3>1. task[t].status = "working"
        BY <2>2 DEF IInv, Due, Accepts, Acknowledge
      <3> QED BY <2>2, <3>1, StoredForward DEF IInv, Terminal
    <2> QED BY <2>1, <2>2 DEF Acknowledge
  <1>2. TypeOK'
    BY <1>1 DEF IInv, TypeOK, Acknowledge
  <1>3. Due(s)'
    BY DEF IInv, TypeOK, Acknowledge, Due
  <1>4. ASSUME NEW q \in Servers \ {s} PROVE Due(q)'
    <2>1. busy'[q] = busy[q]
      BY <1>4 DEF IInv, TypeOK, Acknowledge
    <2> QED BY <1>1, <2>1, OthersDue
  <1> QED BY <1>1, <1>2, <1>3, <1>4 DEF IInv

\* A task expires only while it works, and every write in hand is then late.
LEMMA ExpireKeeps ==
    ASSUME IInv, NEW t \in Tasks, Expire(t)
    PROVE  IInv' /\ \A u \in Tasks : Forward(u)
  <1>1. task' \in [Tasks -> Records] /\ \A u \in Tasks : Forward(u)
    BY StoredForward DEF IInv, Expire, Terminal
  <1>2. TypeOK'
    BY <1>1 DEF IInv, TypeOK, Expire
  <1>3. ASSUME NEW q \in Servers PROVE Due(q)'
    BY <1>1, <1>3, OthersDue DEF Expire
  <1> QED BY <1>1, <1>2, <1>3 DEF IInv

\* A restart forgets the store call in hand.
LEMMA CrashKeeps ==
    ASSUME IInv, NEW s \in Servers, Crash(s)
    PROVE  IInv' /\ \A u \in Tasks : Forward(u)
  <1>1. worker' \in [Servers -> [Tasks -> Coroutines]]
    BY DEF IInv, TypeOK, Crash, Coroutines
  <1>2. crashes' \in 0..MaxCrashes
    BY StackTasksAssumption DEF IInv, TypeOK, Crash
  <1>3. TypeOK'
    BY <1>1, <1>2 DEF IInv, TypeOK, Crash
  <1>4. ASSUME NEW q \in Servers PROVE Due(q)'
    BY <1>4 DEF IInv, TypeOK, Crash, Due
  <1> QED BY <1>3, <1>4 DEF IInv, Crash, Forward

\* Every step keeps the invariant and moves the store only forward.
LEMMA NextIInv == IInv /\ [Next]_vars => IInv' /\ \A u \in Tasks : Forward(u)
  <1> SUFFICES ASSUME IInv, [Next]_vars PROVE IInv' /\ \A u \in Tasks : Forward(u)
    OBVIOUS
  <1>1. CASE UNCHANGED vars
    BY <1>1 DEF vars, IInv, TypeOK, Due, Forward
  <1> QED BY <1>1, QuietKeeps, CallKeeps, InspectedKeeps, FinishKeeps, CancelKeeps,
             AcknowledgeKeeps, ExpireKeeps, CrashKeeps DEF Next, Work

\* Writes in hand are due, in every reachable state.
THEOREM Inductive == Spec => []IInv
  <1>1. IInv /\ [Next]_vars => IInv'
    BY NextIInv
  <1> QED BY InitIInv, <1>1, PTL DEF Spec

\* Store, payload files, coroutines and store calls keep their types.
THEOREM TypeCorrect == Spec => []TypeOK
  <1>1. IInv => TypeOK
    BY DEF IInv
  <1> QED BY <1>1, Inductive, PTL

\* No interleaving of calls, workers, cancellations, expiry and restarts of any
\* number of servers changes a task that a client may have seen finished.
THEOREM FinishedStays == Spec => FinishedTaskIsFinal
  <1>1. IInv /\ [Next]_vars =>
           [\A t \in Tasks : task[t].status \in Terminal => task'[t] = task[t]]_vars
    BY NextIInv DEF Forward
  <1> QED BY <1>1, Inductive, PTL DEF Spec, FinishedTaskIsFinal

=============================================================================
