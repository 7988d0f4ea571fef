------------------------------- MODULE Server --------------------------------
(***************************************************************************)
(* The HTTP handlers of the three listeners (cagent_api/server.py), one    *)
(* thread of ThreadingHTTPServer per connection.  Only handlers that get   *)
(* past authentication and validation are modelled: a refused call ends    *)
(* without touching the store, and so does a read (GET), whose only trace  *)
(* would be as_dict.  A caller is what its listener's authenticator makes  *)
(* of it, so a caller's class tells which listener it called.              *)
(***************************************************************************)
EXTENDS Worker

CONSTANT Callers   \* the authenticated identities that call

ASSUME ServerAssumption == Callers \subseteq Identity

HandlerLabel == {"idle", "write_json", "record_queued", "enqueue", "lookup", "cancel",
                 "cancel_again", "flag", "update", "append_event", "as_dict"}

(* A call gets as far as a handler on an idle thread of a live process.    *)
Accepts(t) == up /\ pc[t] = "idle"

(* The Worker of the listener a handler thread t belongs to.               *)
WorkerOf(t) == requests[rid[t]].identity.class
-----------------------------------------------------------------------------
(* POST /requests, and POST /window: a request in a session of its own.    *)
StartRequest(t, i, s, r) ==
  /\ Accepts(t)
  /\ CreateSessionAndRequest(t, s, i, r)
  /\ UNCHANGED workerVars

(* POST /sessions/{id}/requests, not mounted on the window listener.       *)
ContinueRequest(t, i, s, r) ==
  /\ i.class # "window"
  /\ Accepts(t)
  /\ ContinueSession(t, s, i, r)
  /\ UNCHANGED workerVars

EnqueueAt(t, d) ==
  /\ pc[t] = "enqueue"
  /\ Put(d, rid[t])
  /\ rid' = [rid EXCEPT ![t] = None]
  /\ Go(t, "idle")
  /\ UNCHANGED <<requests, sessions, lock, evidence, clock, faults, life, upd,
                 cancel_flags, catching, replayed>>

(* Mutations: one worker for every listener; a 202 with nothing enqueued.  *)
EnqueueAtNode(t) == EnqueueAt(t, "node")

EnqueueForgotten(t) ==
  /\ pc[t] = "enqueue"
  /\ rid' = [rid EXCEPT ![t] = None]
  /\ Go(t, "idle")
  /\ UNCHANGED <<requests, sessions, lock, evidence, clock, faults, life, upd, workerVars>>

(* Outside the store's lock, the id goes to the door's worker; 202.        *)
Enqueue(t) == EnqueueAt(t, WorkerOf(t))
-----------------------------------------------------------------------------
(* POST /requests/{id}/cancel, not mounted on the window listener.         *)
CancelRequest(t, i, r) ==
  /\ i.class # "window"
  /\ Accepts(t)
  /\ lock = None
  /\ requests[r] # None
  /\ OwnerKey(requests[r].identity) = OwnerKey(i)
  /\ rid' = [rid EXCEPT ![t] = r]
  /\ Go(t, "cancel")
  /\ UNCHANGED <<requests, sessions, lock, evidence, clock, faults, life, upd, workerVars>>

(* `request.state in TERMINAL_STATES`, on the live object.                 *)
CancelTerminal(t) ==
  /\ pc[t] = "cancel"
  /\ Go(t, IF Terminal(rid[t]) THEN "as_dict" ELSE "cancel_again")
  /\ UNCHANGED <<requests, sessions, lock, evidence, clock, faults, life, rid, upd,
                 workerVars>>

(* `request.state == "queued"`, read again.                                *)
CancelQueued(t) ==
  /\ pc[t] = "cancel_again"
  /\ IF requests[rid[t]].state = "queued"
     THEN CallUpdate(t, "cancelled", FALSE)
     ELSE Go(t, "flag") /\ UNCHANGED upd
  /\ UNCHANGED <<requests, sessions, lock, evidence, clock, faults, life, rid,
                 workerVars>>

CancelFlag(t) ==
  /\ pc[t] = "flag"
  /\ cancel_flags' = [cancel_flags EXCEPT ![WorkerOf(t)] = @ \cup {rid[t]}]
  /\ Go(t, "lookup")
  /\ UNCHANGED <<requests, sessions, lock, evidence, clock, faults, life, rid, upd,
                 queue, catching, replayed>>

CancelLookup(t) ==
  /\ pc[t] = "lookup"
  /\ GetRequest(t, "as_dict")
  /\ UNCHANGED workerVars

HandlerUpdate(t) ==
  /\ SetState(t) \/ AppendEvent(t)
  /\ UNCHANGED workerVars

HandlerRecord(t) ==
  /\ WriteJson(t) \/ RecordQueued(t)
  /\ UNCHANGED workerVars

(* as_dict reads the live object's fields without the lock, and the reply  *)
(* is written from them.                                                   *)
AsDict(t) ==
  /\ pc[t] = "as_dict"
  /\ rid' = [rid EXCEPT ![t] = None]
  /\ Go(t, "idle")
  /\ UNCHANGED <<requests, sessions, lock, evidence, clock, faults, life, upd, workerVars>>

(* An OSError of the evidence is answered with 500 and ends the handler.   *)
HandlerFails(t) ==
  /\ \/ RecordCreatedFails(t)
     \/ /\ AppendFails(t)
        /\ rid' = [rid EXCEPT ![t] = None]
        /\ upd' = [upd EXCEPT ![t] = NoUpdate]
        /\ Go(t, "idle")
  /\ UNCHANGED workerVars

(* One step of a handler that has started, faults aside.                   *)
HandlerStep(t) ==
  \/ HandlerRecord(t) \/ Enqueue(t)
  \/ CancelTerminal(t) \/ CancelQueued(t) \/ CancelFlag(t) \/ CancelLookup(t)
  \/ HandlerUpdate(t) \/ AsDict(t)

(* A client's call arrives on an idle thread.                              *)
HandlerStart(t) ==
  \E i \in Callers, r \in RequestId :
    \/ \E s \in SessionId : StartRequest(t, i, s, r) \/ ContinueRequest(t, i, s, r)
    \/ CancelRequest(t, i, r)
=============================================================================
