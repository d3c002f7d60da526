------------------------------- MODULE StackTasks -------------------------------
(***************************************************************************)
(* The tasks extension of abyss-stack-mcp (tasks_extension.py): durable    *)
(* task handles for one read inspection, worked on by coroutines of the    *)
(* serving process.  The read unit and its fallback share one task root,   *)
(* so a task may be worked on, read and cancelled by two processes.        *)
(*                                                                         *)
(* Each process has one event loop: between two awaits its code runs       *)
(* alone, but the other process may come between a store read and the      *)
(* store write that follows it.  busy[s] is such a pair in progress.       *)
(*                                                                         *)
(* FileTaskStore and MCPTasksAdapter are a library: a store call is one    *)
(* step, and a write that names an old revision is refused.                *)
(***************************************************************************)
EXTENDS Naturals

CONSTANTS
    Tasks,     \* the requests clients make: principal, arguments and key
    Servers,   \* the processes on the task root
    MaxCrashes, \* bound: restarts of a server
    None       \* model value: the server is in no store call

ASSUME StackTasksAssumption == MaxCrashes \in Nat /\ None \notin Tasks

VARIABLES
    task,      \* the store: task -> [status, revision, cancelling]
    payload,   \* payload files: <<task, "result" or "error">>
    worker,    \* server -> task -> its coroutine in _workers
    busy,      \* server -> the store write it is about to do, or None
    crashes    \* crashes so far

vars == <<task, payload, worker, busy, crashes>>

Terminal == {"completed", "failed", "cancelled", "expired"}
Absent == [status |-> "none", revision |-> 0, cancelling |-> FALSE]

Init ==
    /\ task = [t \in Tasks |-> Absent]
    /\ payload = {}
    /\ worker = [s \in Servers |-> [t \in Tasks |-> "none"]]
    /\ busy = [s \in Servers |-> None]
    /\ crashes = 0

Write(op, t) == [op |-> op, task |-> t, revision |-> task[t].revision]
At(s, t, state) == worker' = [worker EXCEPT ![s][t] = state]

\* The store refuses a write whose expected revision is not the current one,
\* and moves the revision with every write.
Accepts(s) == busy[s].revision = task[busy[s].task].revision
Stored(t, status) ==
    task' = [task EXCEPT ![t] = [status |-> status, revision |-> @.revision + 1,
                                 cancelling |-> FALSE]]

---------------------------------------------------------------------------
\* tools/call: the same request finds its task again; a working task that has
\* no coroutine here, because the process is new, gets one.
Call(s, t) ==
    /\ busy[s] = None /\ worker[s][t] = "none"
    /\ task[t].status \in {"none", "working"}
    /\ IF task[t].status = "none" THEN Stored(t, "working") ELSE UNCHANGED task
    /\ At(s, t, "new")
    /\ UNCHANGED <<payload, busy, crashes>>

\* The process ends between the store's record and the coroutine.
CallCrashes(s, t) ==
    /\ busy[s] = None /\ task[t].status = "none" /\ crashes < MaxCrashes
    /\ Stored(t, "working")
    /\ worker' = [worker EXCEPT ![s] = [u \in Tasks |-> "none"]]
    /\ crashes' = crashes + 1
    /\ UNCHANGED <<payload, busy>>

\* Mutated form: the coroutine is put in a state that nothing handles.
StartLost(s, t) ==
    /\ busy[s] = None /\ worker[s][t] = "new" /\ At(s, t, "running")
    /\ UNCHANGED <<task, payload, busy, crashes>>

\* The coroutine starts the inspection in a thread.  One that was cancelled
\* before it started never enters its try, and its entry stays in _workers.
Start(s, t) ==
    /\ busy[s] = None
    /\ \/ worker[s][t] = "new" /\ At(s, t, "inspecting")
       \/ worker[s][t] = "cancelled early" /\ At(s, t, "leaked")
    /\ UNCHANGED <<task, payload, busy, crashes>>

\* CancelledError at the await: the coroutine returns and leaves _workers.
StopWorker(s, t) ==
    /\ busy[s] = None /\ worker[s][t] = "cancelled"
    /\ At(s, t, "none")
    /\ UNCHANGED <<task, payload, busy, crashes>>

\* Mutated form: the record's status is not looked at before it is written.
InspectedUnchecked(s, t) ==
    /\ busy[s] = None /\ worker[s][t] = "inspecting"
    /\ \E op \in {"result", "error"} :
          /\ payload' = payload \cup {<<t, op>>}
          /\ busy' = [busy EXCEPT ![s] = Write(op, t)]
    /\ At(s, t, "writing")
    /\ UNCHANGED <<task, crashes>>

\* Mutated form: an exception of the inspection ends the coroutine silently.
InspectedErrorLost(s, t) ==
    /\ busy[s] = None /\ worker[s][t] = "inspecting" /\ At(s, t, "none")
    /\ UNCHANGED <<task, payload, busy, crashes>>

\* The thread answers or raises: the payload is stored, then the record is read;
\* only a working task is written.
Inspected(s, t) ==
    /\ busy[s] = None /\ worker[s][t] = "inspecting"
    /\ \E op \in {"result", "error"} :
          /\ payload' = payload \cup {<<t, op>>}
          /\ busy' = IF task[t].status = "working"
                     THEN [busy EXCEPT ![s] = Write(op, t)] ELSE busy
    /\ At(s, t, IF task[t].status = "working" THEN "writing" ELSE "none")
    /\ UNCHANGED <<task, crashes>>

\* store.complete and store.fail.  A refused complete is an exception like any
\* other: the error payload is put and the task, if it still works, failed.
Finish(s, t) ==
    /\ busy[s] # None /\ busy[s].op \in {"result", "error"} /\ busy[s].task = t
    /\ \/ /\ Accepts(s)
          /\ Stored(t, IF busy[s].op = "result" THEN "completed" ELSE "failed")
          /\ busy' = [busy EXCEPT ![s] = None] /\ At(s, t, "none")
          /\ UNCHANGED payload
       \/ /\ ~Accepts(s) /\ busy[s].op = "result"
          /\ payload' = payload \cup {<<t, "error">>}
          /\ busy' = [busy EXCEPT ![s] = IF task[t].status = "working"
                                         THEN Write("error", t) ELSE None]
          /\ At(s, t, IF task[t].status = "working" THEN "writing" ELSE "none")
          /\ UNCHANGED task
       \/ /\ ~Accepts(s) /\ busy[s].op = "error"
          /\ busy' = [busy EXCEPT ![s] = None] /\ At(s, t, "none")
          /\ UNCHANGED <<task, payload>>
    /\ UNCHANGED crashes

\* tasks/cancel: the adapter stores the intent of a working task, once; then
\* _cancel stops the coroutine if it is here and reads the record to acknowledge.
Cancel(s, t) ==
    /\ busy[s] = None /\ task[t].status = "working"
    /\ task' = IF task[t].cancelling THEN task ELSE
               [task EXCEPT ![t] = [status |-> "working", revision |-> @.revision + 1,
                                    cancelling |-> TRUE]]
    /\ At(s, t, CASE worker[s][t] = "new" -> "cancelled early"
                  [] worker[s][t] = "inspecting" -> "cancelled"
                  [] OTHER -> worker[s][t])
    /\ busy' = [busy EXCEPT ![s] = [op |-> "cancel", task |-> t,
                                    revision |-> task'[t].revision]]
    /\ UNCHANGED <<payload, crashes>>

\* acknowledge_cancel, which raises to the client when the revision has moved.
Acknowledge(s, t) ==
    /\ busy[s] # None /\ busy[s].op = "cancel" /\ busy[s].task = t
    /\ IF Accepts(s) THEN Stored(t, "cancelled") ELSE UNCHANGED task
    /\ busy' = [busy EXCEPT ![s] = None]
    /\ UNCHANGED <<payload, worker, crashes>>

\* The store ends a task at its time to live.
Expire(t) ==
    /\ task[t].status = "working"
    /\ Stored(t, "expired")
    /\ UNCHANGED <<payload, worker, busy, crashes>>

\* A server ends and is started again: coroutines are gone, files stay.
Crash(s) ==
    /\ crashes < MaxCrashes /\ crashes' = crashes + 1
    /\ worker' = [worker EXCEPT ![s] = [t \in Tasks |-> "none"]]
    /\ busy' = [busy EXCEPT ![s] = None]
    /\ UNCHANGED <<task, payload>>

Work(s, t) == Start(s, t) \/ StopWorker(s, t) \/ Inspected(s, t) \/ Finish(s, t)
              \/ Acknowledge(s, t)
Next ==
    \/ \E s \in Servers, t \in Tasks :
          Call(s, t) \/ CallCrashes(s, t) \/ Work(s, t) \/ Cancel(s, t)
    \/ \E t \in Tasks : Expire(t)
    \/ \E s \in Servers : Crash(s)

Spec == Init /\ [][Next]_vars
\* An event loop runs what is ready, and an inspection thread ends.
FairSpec == Spec /\ \A s \in Servers, t \in Tasks : WF_vars(Work(s, t))

---------------------------------------------------------------------------
Records == [status : {"none", "working"} \cup Terminal,
            revision : Nat, cancelling : BOOLEAN]
Coroutines == {"none", "new", "inspecting", "writing", "cancelled",
               "cancelled early", "leaked"}
Writes == [op : {"result", "error", "cancel"}, task : Tasks, revision : Nat]
TypeOK ==
    /\ task \in [Tasks -> Records]
    /\ payload \subseteq Tasks \X {"result", "error"}
    /\ worker \in [Servers -> [Tasks -> Coroutines]]
    /\ busy \in [Servers -> Writes \cup {None}]
    /\ crashes \in 0..MaxCrashes

\* What a client has seen of a finished task stays: a cancelled or expired task
\* is never completed by the worker that was still inspecting, in this process
\* or the other, and a completed one never becomes failed or cancelled.
FinishedTaskIsFinal ==
    [][\A t \in Tasks : task[t].status \in Terminal => task'[t] = task[t]]_vars

\* A coroutine that inspects ends, and then its task is settled, unless a process
\* crashed or the intent to cancel it was stored: a client's cancel, in either
\* process, stops the coroutine of its own process and may be refused its
\* acknowledgement.
WorkedTaskEnds ==
    \A s \in Servers, t \in Tasks :
        worker[s][t] = "inspecting" ~>
            worker[s][t] # "inspecting"
                /\ (task[t].status \in Terminal \/ crashes > 0 \/ task[t].cancelling)
=============================================================================
