------------------------------- MODULE Worker --------------------------------
(***************************************************************************)
(* The background worker of a door (cagent_api/worker.py): one thread that *)
(* drains one in-memory queue and runs each turn to its end through the    *)
(* door's AgentRunner.  The runner (agent_runner.py and the agcode package *)
(* behind it) appears as the ways run() can end.                           *)
(*                                                                         *)
(* queue.Queue and the set of cancel flags have locks of their own, so     *)
(* each of their operations is one step.                                   *)
(***************************************************************************)
EXTENDS Store, Sequences

VARIABLES
  queue,         \* Worker._queue of each door
  cancel_flags,  \* Worker._cancel_flags of each door
  catching,      \* the worker is in the `except` of _run
  replayed       \* history: the turns _history put into the current task

workerVars == <<queue, cancel_flags, catching, replayed>>

(* Where a worker thread can be.  "dead": an exception left _run.          *)
WorkerLabel == {"get", "lookup", "check", "check_flag", "update", "set_response",
                "append_event", "compose", "run", "clear", "dead"}

(* The turn of door d is in the hands of its runner.                       *)
Running(d) == pc[d] \in {"compose", "run"}
-----------------------------------------------------------------------------
Put(d, r) == queue' = [queue EXCEPT ![d] = Append(@, r)]

(* Mutation: the request stays in the queue while it is processed.         *)
GetPeeking(d) ==
  /\ pc[d] = "get"
  /\ queue[d] # <<>>
  /\ rid' = [rid EXCEPT ![d] = Head(queue[d])]
  /\ Go(d, "lookup")
  /\ UNCHANGED <<requests, sessions, lock, evidence, clock, faults, life, upd, workerVars>>

Get(d) ==
  /\ pc[d] = "get"
  /\ queue[d] # <<>>
  /\ rid' = [rid EXCEPT ![d] = Head(queue[d])]
  /\ queue' = [queue EXCEPT ![d] = Tail(@)]
  /\ Go(d, "lookup")
  /\ UNCHANGED <<requests, sessions, lock, evidence, clock, faults, life, upd,
                 cancel_flags, catching, replayed>>

(* _process: get_request, ...                                              *)
Lookup(d) ==
  /\ pc[d] = "lookup"
  /\ GetRequest(d, "check")
  /\ UNCHANGED workerVars

(* ... then the state, read outside the lock, ...                          *)
Check(d) ==
  /\ pc[d] = "check"
  /\ Go(d, IF requests[rid[d]].state # "queued" THEN "clear" ELSE "check_flag")
  /\ UNCHANGED <<requests, sessions, lock, evidence, clock, faults, life, rid, upd, workerVars>>

(* ... then the cancel flag; only now is the turn dispatched.              *)
CheckFlag(d) ==
  /\ pc[d] = "check_flag"
  /\ CallUpdate(d, IF rid[d] \in cancel_flags[d] THEN "cancelled" ELSE "running", FALSE)
  /\ UNCHANGED <<requests, sessions, lock, evidence, clock, faults, life, rid, workerVars>>

(* _history and compose_task: every other request of the session that has  *)
(* a response.  Which of them fit the task's budget is left out.           *)
Compose(d) ==
  /\ pc[d] = "compose"
  /\ lock = None
  /\ replayed' = [replayed EXCEPT ![d] =
       {q \in RequestsOf(requests[rid[d]].session_id) \ {rid[d]} : requests[q].response}]
  /\ Go(d, "run")
  /\ UNCHANGED <<requests, sessions, lock, evidence, clock, faults, life, rid, upd,
                 queue, cancel_flags, catching>>

(* run() returns.  It is cancelled only by a stop() that saw the flag; the *)
(* flag may also be seen too late, or never asked for (claude_code).       *)
RunEnds(d) ==
  /\ pc[d] = "run"
  /\ \/ CallUpdate(d, "completed", TRUE)
     \/ CallUpdate(d, "failed", FALSE)
     \/ rid[d] \in cancel_flags[d] /\ CallUpdate(d, "cancelled", FALSE)
  /\ UNCHANGED <<requests, sessions, lock, evidence, clock, faults, life, rid, workerVars>>

(* Mutations: the exception ends the thread; it is logged and no more.     *)
RunRaisesUncaught(d) ==
  /\ pc[d] = "run"
  /\ Go(d, "dead")
  /\ UNCHANGED <<requests, sessions, lock, evidence, clock, faults, life, rid, upd, workerVars>>

RunRaisesLogged(d) ==
  /\ pc[d] = "run"
  /\ Go(d, "clear")
  /\ UNCHANGED <<requests, sessions, lock, evidence, clock, faults, life, rid, upd, workerVars>>

(* run() raises: the `except` of _run fails the request.                   *)
RunRaises(d) ==
  /\ pc[d] = "run"
  /\ CallUpdate(d, "failed", FALSE)
  /\ catching' = [catching EXCEPT ![d] = TRUE]
  /\ UNCHANGED <<requests, sessions, lock, evidence, clock, faults, life, rid,
                 queue, cancel_flags, replayed>>

(* update_request raises.  The first time the `except` fails the request;  *)
(* inside the `except` the exception leaves _run, through the `finally`.   *)
WorkerAppendFails(d) ==
  /\ AppendFails(d)
  /\ IF catching[d]
     THEN /\ Go(d, "dead")
          /\ upd' = [upd EXCEPT ![d] = NoUpdate]
          /\ cancel_flags' = [cancel_flags EXCEPT ![d] = @ \ {rid[d]}]
          /\ UNCHANGED catching
     ELSE /\ CallUpdate(d, "failed", FALSE)
          /\ catching' = [catching EXCEPT ![d] = TRUE]
          /\ UNCHANGED cancel_flags
  /\ UNCHANGED <<rid, queue, replayed>>

(* The `finally` of _run, and back to the queue.                           *)
Clear(d) ==
  /\ pc[d] = "clear"
  /\ cancel_flags' = [cancel_flags EXCEPT ![d] = @ \ {rid[d]}]
  /\ catching' = [catching EXCEPT ![d] = FALSE]
  /\ replayed' = [replayed EXCEPT ![d] = {}]
  /\ rid' = [rid EXCEPT ![d] = None]
  /\ Go(d, "get")
  /\ UNCHANGED <<requests, sessions, lock, evidence, clock, faults, life, upd, queue>>

WorkerUpdate(d) ==
  /\ SetState(d) \/ SetResponse(d) \/ AppendEvent(d)
  /\ UNCHANGED workerVars

(* One step of the worker thread of door d, faults aside.                  *)
WorkerStep(d) ==
  \/ Get(d) \/ Lookup(d) \/ Check(d) \/ CheckFlag(d) \/ WorkerUpdate(d)
  \/ Compose(d) \/ RunEnds(d) \/ RunRaises(d) \/ Clear(d)
=============================================================================
