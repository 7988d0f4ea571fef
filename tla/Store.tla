-------------------------------- MODULE Store --------------------------------
(***************************************************************************)
(* The request store of the cluster agent (cagent_api/store.py) and the    *)
(* evidence directory behind it (cagent_api/evidence.py).                  *)
(*                                                                         *)
(* Process memory is a cache of the evidence.  Two facts of the code shape *)
(* the model: every mutation runs under one lock, but the lock protects    *)
(* only mutations.  get_request() hands out the live Request object, so a  *)
(* caller reads its fields while another thread is half way through        *)
(* update_request().  The steps of a locked method that another thread, or *)
(* a kill, can fall between are therefore actions of their own.            *)
(***************************************************************************)
EXTENDS Naturals, FiniteSets

CONSTANTS
  RequestId,    \* ids minted by _new_request_locked
  SessionId,    \* ids minted by AgentRunner.new_session_id
  Thread,       \* handler threads of the three listeners
  Uuid,         \* DesiredNode UUIDs
  CertSerial,   \* serials of client certificates
  None,         \* Python's None, and "no such entry"
  MaxFaults     \* bound: evidence writes that fail with an OSError

(* The doors: main.py builds a listener, a Worker and a runner for each.   *)
Door == {"node", "human", "window"}

(* Whoever can call the store: a handler thread, or the worker thread of a *)
(* door, which carries the door's name.                                    *)
Actor == Thread \cup Door

-----------------------------------------------------------------------------
VALID_STATES ==
  {"queued", "running", "completed", "failed", "cancelled", "interrupted"}

TERMINAL_STATES == {"completed", "failed", "cancelled", "interrupted"}

(* What read_latest_event finds: a state; "none" when events.jsonl does    *)
(* not exist yet; "torn" when request.json was opened for writing and is   *)
(* still empty, so that read_request cannot parse it.                      *)
Latest == VALID_STATES \cup {"none", "torn"}

Identity ==
  {i \in [class: Door, uuid: Uuid \cup {None}, cert_serial: CertSerial \cup {None}] :
     /\ (i.class = "node") <=> (i.uuid # None)
     /\ (i.class = "node") <=> (i.cert_serial # None)}

(* Nodes are told apart by UUID, whatever certificate they present; every  *)
(* human is one owner, and so is every window caller.                      *)
OwnerKey(i) == IF i.class = "node" THEN <<"node", i.uuid>> ELSE <<i.class>>

(* The text of a message or an answer is left out: `response` says whether *)
(* the field is set.  created_at stands for the turn order: a session's    *)
(* request_ids list is its requests by created_at, both as it is appended  *)
(* to and as scan_and_load sorts it.                                       *)
Request == [session_id: SessionId, identity: Identity, created_at: Nat,
            state: VALID_STATES, response: BOOLEAN]

EvidenceDir == [session_id: SessionId, identity: Identity, created_at: Nat,
                latest: Latest, response: BOOLEAN]

ASSUME StoreAssumption ==
  /\ Thread \cap Door = {}
  /\ None \notin RequestId \cup SessionId \cup Actor \cup Uuid \cup CertSerial
  /\ None \notin VALID_STATES /\ None \notin Identity
  /\ None \notin Request /\ None \notin EvidenceDir
  /\ MaxFaults \in Nat

VARIABLES
  requests,   \* Store._requests
  sessions,   \* Store._sessions: the identity that owns the session
  lock,       \* Store._lock: the actor inside, or None
  evidence,   \* <evidence_dir>/<request_id>/: request.json and the last event
  clock,      \* time.time() as created_at reads it, taken to be increasing
  faults,     \* history: evidence writes that failed so far
  pc,         \* where each actor is
  rid,        \* the request each actor works on
  upd,        \* the fields of the update_request call an actor is in
  up,         \* the process is running and has finished its startup scan
  crashes     \* history: times the process was killed

life == <<up, crashes>>
storeVars == <<requests, sessions, lock, evidence, clock, faults, pc, rid, upd, life>>

Go(a, label) == pc' = [pc EXCEPT ![a] = label]

NoUpdate == [state |-> None, response |-> FALSE]

Terminal(r) == requests[r].state \in TERMINAL_STATES

RequestsOf(s) == {r \in RequestId : requests[r] # None /\ requests[r].session_id = s}

(* Where an actor is inside the store's `with self._lock:` blocks.         *)
Locked == {"write_json", "record_queued", "set_response", "append_event"}
-----------------------------------------------------------------------------
(* _new_request_locked, up to the point where record_created has created   *)
(* the directory and opened request.json.                                  *)
NewRequest(a, s, i, r) ==
  /\ lock = None
  /\ requests[r] = None /\ evidence[r] = None
  /\ lock' = a
  /\ evidence' = [evidence EXCEPT ![r] =
       [session_id |-> s, identity |-> i, created_at |-> clock,
        latest |-> "torn", response |-> FALSE]]
  /\ clock' = clock + 1
  /\ rid' = [rid EXCEPT ![a] = r]
  /\ Go(a, "write_json")
  /\ UNCHANGED <<requests, faults, life, upd>>

(* A session id is a fresh uuid4, so it names no session on disk either.   *)
CreateSessionAndRequest(a, s, i, r) ==
  /\ sessions[s] = None
  /\ \A q \in RequestId : evidence[q] # None => evidence[q].session_id # s
  /\ NewRequest(a, s, i, r)
  /\ sessions' = [sessions EXCEPT ![s] = i]

(* Mutation: any caller may continue any session.                          *)
ContinueUnowned(a, s, i, r) ==
  /\ sessions[s] # None
  /\ NewRequest(a, s, i, r)
  /\ UNCHANGED sessions

ContinueSession(a, s, i, r) ==
  /\ sessions[s] # None
  /\ OwnerKey(sessions[s]) = OwnerKey(i)
  /\ NewRequest(a, s, i, r)
  /\ UNCHANGED sessions

(* The rest of record_created: the write, then the "queued" event.  Only   *)
(* after both does the request enter memory, and the lock is released.     *)
WriteJson(a) ==
  /\ pc[a] = "write_json"
  /\ evidence' = [evidence EXCEPT ![rid[a]].latest = "none"]
  /\ Go(a, "record_queued")
  /\ UNCHANGED <<requests, sessions, lock, clock, faults, life, rid, upd>>

InsertRequest(a) ==
  /\ requests' = [requests EXCEPT ![rid[a]] =
       [session_id |-> evidence[rid[a]].session_id, identity |-> evidence[rid[a]].identity,
        created_at |-> evidence[rid[a]].created_at, state |-> "queued", response |-> FALSE]]
  /\ lock' = None
  /\ Go(a, "enqueue")
  /\ UNCHANGED <<sessions, clock, faults, life, rid, upd>>

(* Mutation: the first event is not written.                               *)
RecordQueuedUnwritten(a) ==
  /\ pc[a] = "record_queued"
  /\ InsertRequest(a)
  /\ UNCHANGED evidence

RecordQueued(a) ==
  /\ pc[a] = "record_queued"
  /\ evidence' = [evidence EXCEPT ![rid[a]].latest = "queued"]
  /\ InsertRequest(a)

(* An OSError inside record_created.  The request never enters memory and  *)
(* the lock is released; what was written stays, except that the file may  *)
(* not even have been opened.  A new session stays too, with no request.   *)
RecordCreatedFails(a) ==
  /\ pc[a] \in {"write_json", "record_queued"}
  /\ faults < MaxFaults
  /\ faults' = faults + 1
  /\ \/ UNCHANGED evidence
     \/ /\ pc[a] = "write_json"
        /\ evidence' = [evidence EXCEPT ![rid[a]] = None]
  /\ lock' = None
  /\ rid' = [rid EXCEPT ![a] = None]
  /\ Go(a, "idle")
  /\ UNCHANGED <<requests, sessions, clock, life, upd>>
-----------------------------------------------------------------------------
(* get_request: the lookup is locked, the object it returns is not.        *)
GetRequest(a, label) ==
  /\ lock = None
  /\ requests[rid[a]] # None
  /\ Go(a, label)
  /\ UNCHANGED <<requests, sessions, lock, evidence, clock, faults, life, rid, upd>>

(* Calling update_request(rid[a], state=..., response=...).                *)
CallUpdate(a, state, response) ==
  /\ upd' = [upd EXCEPT ![a] = [state |-> state, response |-> response]]
  /\ Go(a, "update")

(* Where the caller of update_request continues when it returns.           *)
AfterUpdate(a) ==
  IF a \in Thread THEN "as_dict"
  ELSE IF upd[a].state = "running" THEN "compose" ELSE "clear"

(* update_request: take the lock, then setattr the fields one after the    *)
(* other, `state` first, each visible to every holder of the object.       *)
SetState(a) ==
  /\ pc[a] = "update"
  /\ lock = None
  /\ lock' = a
  /\ requests' = [requests EXCEPT ![rid[a]].state = upd[a].state]
  /\ Go(a, IF upd[a].response THEN "set_response" ELSE "append_event")
  /\ UNCHANGED <<sessions, evidence, clock, faults, life, rid, upd>>

SetResponse(a) ==
  /\ pc[a] = "set_response"
  /\ requests' = [requests EXCEPT ![rid[a]].response = TRUE]
  /\ Go(a, "append_event")
  /\ UNCHANGED <<sessions, lock, evidence, clock, faults, life, rid, upd>>

(* Mutation: the event leaves the response out.                            *)
AppendStateOnly(a) ==
  /\ pc[a] = "append_event"
  /\ evidence' = [evidence EXCEPT ![rid[a]].latest = requests[rid[a]].state]
  /\ lock' = None
  /\ upd' = [upd EXCEPT ![a] = NoUpdate]
  /\ Go(a, AfterUpdate(a))
  /\ UNCHANGED <<requests, sessions, clock, faults, life, rid>>

(* The event carries the response whenever the request has one.            *)
AppendEvent(a) ==
  /\ pc[a] = "append_event"
  /\ evidence' = [evidence EXCEPT ![rid[a]].latest = requests[rid[a]].state,
                                  ![rid[a]].response = requests[rid[a]].response]
  /\ lock' = None
  /\ upd' = [upd EXCEPT ![a] = NoUpdate]
  /\ Go(a, AfterUpdate(a))
  /\ UNCHANGED <<requests, sessions, clock, faults, life, rid>>

(* Mutation: the lock is released on the ordinary way out only.            *)
AppendFailsLocked(a) ==
  /\ pc[a] = "append_event"
  /\ faults < MaxFaults
  /\ faults' = faults + 1
  /\ UNCHANGED <<requests, sessions, lock, evidence, clock, life>>

(* An OSError in append_event leaves the `with` block: the lock is free,   *)
(* the fields set above stay set, and no event was written.  What the      *)
(* caller does next is its own (Worker, Server).                           *)
AppendFails(a) ==
  /\ pc[a] = "append_event"
  /\ faults < MaxFaults
  /\ faults' = faults + 1
  /\ lock' = None
  /\ UNCHANGED <<requests, sessions, evidence, clock, life>>

StoreStep(a) ==
  WriteJson(a) \/ RecordQueued(a) \/ SetState(a) \/ SetResponse(a) \/ AppendEvent(a)
-----------------------------------------------------------------------------
(* scan_and_load: rebuild the store from the evidence.                     *)
Recorded(s) == {r \in RequestId : evidence[r] # None /\ evidence[r].session_id = s}

(* by_session[s][0] after the sort.                                        *)
FirstOf(s) ==
  CHOOSE r \in Recorded(s) :
    \A q \in Recorded(s) : evidence[r].created_at <= evidence[q].created_at

Unfinished(r) == evidence[r] # None /\ evidence[r].latest \notin TERMINAL_STATES

(* read_request raises on an empty request.json, and main() with it.       *)
Scannable == \A r \in RequestId : evidence[r] # None => evidence[r].latest # "torn"

(* The "interrupted" event appended to every unfinished request in S.      *)
Interrupt(S) ==
  [r \in RequestId |->
     IF r \in S THEN [evidence[r] EXCEPT !.latest = "interrupted", !.response = FALSE]
     ELSE evidence[r]]

Recover(ev) ==
  /\ requests' = [r \in RequestId |->
       IF evidence[r] = None THEN None
       ELSE [session_id |-> evidence[r].session_id, identity |-> evidence[r].identity,
             created_at |-> evidence[r].created_at,
             state |-> ev[r].latest, response |-> evidence[r].response]]
  /\ sessions' = [s \in SessionId |->
       IF Recorded(s) = {} THEN None ELSE evidence[FirstOf(s)].identity]

(* Mutations: the scan marks nothing; marks in memory only; marks all.     *)
ScanMarksNothing == Scannable /\ Recover(evidence) /\ UNCHANGED evidence

ScanMarksMemory ==
  /\ Scannable
  /\ Recover(Interrupt({r \in RequestId : Unfinished(r)}))
  /\ UNCHANGED evidence

ScanMarksAll ==
  /\ Scannable
  /\ evidence' = Interrupt({r \in RequestId : evidence[r] # None})
  /\ Recover(evidence')

ScanAndLoad ==
  /\ Scannable
  /\ evidence' = Interrupt({r \in RequestId : Unfinished(r)})
  /\ Recover(evidence')
=============================================================================
