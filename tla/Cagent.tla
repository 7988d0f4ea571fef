------------------------------- MODULE Cagent --------------------------------
(***************************************************************************)
(* The cluster agent as main.py puts it together: three listeners with     *)
(* their handler threads, a worker per door, one store and one evidence    *)
(* directory.  The process may be killed at any point and started again,   *)
(* which rebuilds the store from the evidence and starts with empty        *)
(* queues.                                                                 *)
(***************************************************************************)
EXTENDS Server

CONSTANTS
  MaxCrashes,     \* bound: times the process is killed
  KillsMidWrite   \* whether a kill may hit between opening request.json and writing it

ASSUME CagentAssumption == MaxCrashes \in Nat /\ KillsMidWrite \in BOOLEAN

vars == <<storeVars, workerVars>>
-----------------------------------------------------------------------------
(* What a process starts with, beside the store.                           *)
FreshProcess ==
  /\ lock' = None
  /\ pc' = [a \in Actor |-> IF a \in Door THEN "get" ELSE "idle"]
  /\ rid' = [a \in Actor |-> None]
  /\ upd' = [a \in Actor |-> NoUpdate]
  /\ queue' = [d \in Door |-> <<>>]
  /\ cancel_flags' = [d \in Door |-> {}]
  /\ catching' = [d \in Door |-> FALSE]
  /\ replayed' = [d \in Door |-> {}]

Init ==
  /\ requests = [r \in RequestId |-> None]
  /\ sessions = [s \in SessionId |-> None]
  /\ lock = None
  /\ evidence = [r \in RequestId |-> None]
  /\ clock = 0
  /\ faults = 0
  /\ pc = [a \in Actor |-> IF a \in Door THEN "get" ELSE "idle"]
  /\ rid = [a \in Actor |-> None]
  /\ upd = [a \in Actor |-> NoUpdate]
  /\ queue = [d \in Door |-> <<>>]
  /\ cancel_flags = [d \in Door |-> {}]
  /\ catching = [d \in Door |-> FALSE]
  /\ replayed = [d \in Door |-> {}]
  /\ up = TRUE
  /\ crashes = 0

(* Only the evidence survives a kill.                                      *)
Crash ==
  /\ up
  /\ crashes < MaxCrashes
  /\ KillsMidWrite \/ \A t \in Thread : pc[t] # "write_json"
  /\ up' = FALSE
  /\ crashes' = crashes + 1
  /\ requests' = [r \in RequestId |-> None]
  /\ sessions' = [s \in SessionId |-> None]
  /\ FreshProcess
  /\ UNCHANGED <<evidence, clock, faults>>

(* A kill during the scan: some "interrupted" events are already written.  *)
CrashDuringScan ==
  /\ ~up
  /\ Scannable
  /\ crashes < MaxCrashes
  /\ crashes' = crashes + 1
  /\ \E S \in SUBSET {r \in RequestId : Unfinished(r)} : evidence' = Interrupt(S)
  /\ UNCHANGED <<requests, sessions, lock, clock, faults, pc, rid, upd,
                 workerVars, up>>

Restart ==
  /\ ~up
  /\ ScanAndLoad
  /\ up' = TRUE
  /\ UNCHANGED <<lock, clock, faults, pc, rid, upd, workerVars, crashes>>

Next ==
  \/ \E t \in Thread : HandlerStart(t)
  \/ \E t \in Thread : HandlerStep(t)
  \/ \E t \in Thread : HandlerFails(t)
  \/ \E d \in Door : WorkerStep(d)
  \/ \E d \in Door : WorkerAppendFails(d)
  \/ Crash \/ CrashDuringScan \/ Restart

Spec == Init /\ [][Next]_vars

(* The threads of the process run, and a killed process is started again.  *)
(* Nothing makes a runner's run() return: a backend call may be wedged for *)
(* ever (store.py).  Clients, kills and faults are free, too.              *)
Fairness ==
  /\ \A t \in Thread : WF_vars(HandlerStep(t))
  /\ \A d \in Door : WF_vars(pc[d] # "run" /\ WorkerStep(d))
  /\ WF_vars(Restart)

FairSpec == Spec /\ Fairness
-----------------------------------------------------------------------------
(* Every variable keeps its type.                                          *)
TypeOK ==
  /\ requests \in [RequestId -> Request \cup {None}]
  /\ sessions \in [SessionId -> Identity \cup {None}]
  /\ lock \in Actor \cup {None}
  /\ evidence \in [RequestId -> EvidenceDir \cup {None}]
  /\ clock \in Nat
  /\ faults \in Nat
  /\ pc \in [Actor -> HandlerLabel \cup WorkerLabel]
  /\ \A t \in Thread : pc[t] \in HandlerLabel
  /\ \A d \in Door : pc[d] \in WorkerLabel
  /\ rid \in [Actor -> RequestId \cup {None}]
  /\ upd \in [Actor -> [state: VALID_STATES \cup {None}, response: BOOLEAN]]
  /\ queue \in [Door -> Seq(RequestId)]
  /\ cancel_flags \in [Door -> SUBSET RequestId]
  /\ catching \in [Door -> BOOLEAN]
  /\ replayed \in [Door -> SUBSET RequestId]
  /\ up \in BOOLEAN
  /\ crashes \in Nat

(* A request is in someone's hands: queued for a worker, held by one, or   *)
(* between its creation and its enqueueing.                                *)
InQueue(d, r) == \E k \in 1..Len(queue[d]) : queue[d][k] = r
Taken(d, r) == rid[d] = r /\ pc[d] \notin {"get", "dead"}
Creating(r) == \E t \in Thread : rid[t] = r /\ pc[t] \in {"write_json", "record_queued", "enqueue"}
InHand(r) == Creating(r) \/ \E d \in Door : InQueue(d, r) \/ Taken(d, r)

(* Two turns of one session are never with a runner at the same time:      *)
(* "Turns within a session are serialized".  There are three workers, so   *)
(* this rests on a session never having requests at two doors.             *)
TurnsSerialized ==
  \A d, e \in Door : Running(d) /\ Running(e) /\ d # e =>
    requests[rid[d]].session_id # requests[rid[e]].session_id

(* A door's worker, and so its runner and tool set, only ever gets         *)
(* requests of sessions that were opened at that door.                     *)
OwnDoor ==
  \A d \in Door, r \in RequestId :
    up /\ (InQueue(d, r) \/ Taken(d, r)) => sessions[requests[r].session_id].class = d

(* While nobody is inside the store, memory and evidence hold the same     *)
(* requests, with the same fields: a restart would lose nothing.           *)
MemoryIsEvidence ==
  up /\ lock = None /\ faults = 0 =>
    \A r \in RequestId :
      IF evidence[r] = None THEN requests[r] = None
      ELSE /\ requests[r] # None
           /\ requests[r].state = evidence[r].latest
           /\ requests[r].response = evidence[r].response
           /\ requests[r].session_id = evidence[r].session_id
           /\ requests[r].identity = evidence[r].identity

(* A request that is not over has somebody who will finish it, whatever    *)
(* cancel calls and workers did to each other, unless its worker is dead.  *)
NoStrandedRequest ==
  up /\ (\A d \in Door : pc[d] # "dead") =>
    \A r \in RequestId :
      requests[r] # None /\ requests[r].state \in {"queued", "running"} => InHand(r)

(* "interrupted" is written by the startup scan only, about a request that *)
(* was not over, and is never left again.                                  *)
InterruptedOnlyByScan ==
  [][\A r \in RequestId : evidence[r] # None /\ evidence'[r] # None =>
       /\ evidence'[r].latest = "interrupted" /\ evidence[r].latest # "interrupted" =>
            ~up /\ Unfinished(r)
       /\ evidence[r].latest = "interrupted" => evidence'[r] = evidence[r]]_vars

(* A session's requests all have the owner of the session, and a restart,  *)
(* which takes the owner from the earliest request, changes nothing there. *)
SessionHasOneOwner ==
  \A r \in RequestId : up /\ requests[r] # None =>
    /\ sessions[requests[r].session_id] # None
    /\ OwnerKey(sessions[requests[r].session_id]) = OwnerKey(requests[r].identity)
-----------------------------------------------------------------------------
(* The promise of TurnService, read off the threads and queues.            *)
Undispatched(d) ==
  \/ pc[d] \in {"lookup", "check", "check_flag"}
  \/ pc[d] \in {"update", "append_event"} /\ upd[d].state = "running"

Phase(r) ==
  IF evidence[r] = None \/ evidence[r].latest = "torn" THEN "absent"
  ELSE IF \E d \in Door : rid[d] = r /\ Running(d) THEN "running"
  ELSE IF \/ Creating(r)
          \/ \E d \in Door : InQueue(d, r) \/ (rid[d] = r /\ Undispatched(d))
       THEN "waiting"
  ELSE "over"

Promise == INSTANCE TurnService WITH
  phase <- [r \in RequestId |-> Phase(r)],
  session <- [r \in RequestId |-> IF Phase(r) = "absent" THEN None ELSE evidence[r].session_id]

(* Every request is served at most once, and never beside another turn of  *)
(* its session, through cancels, kills and restarts.                       *)
ServedAtMostOnce == Promise!Spec

(* Every request that was recorded is over one day, in memory and in the   *)
(* evidence, and stays so; unless a call of its door's runner is wedged    *)
(* for ever, it being that turn or behind it in the queue: "a wedged       *)
(* backend call can also leave a request stuck `running` forever without a *)
(* restart".  A restart clears the wedge and what was behind it.           *)
Settled(r) ==
  /\ up
  /\ requests[r] # None
  /\ Terminal(r)
  /\ evidence[r].latest = requests[r].state

Wedged(r) == up /\ \E d \in Door : pc[d] = "run" /\ (rid[d] = r \/ InQueue(d, r))

EventuallySettled ==
  \A r \in RequestId :
    (evidence[r] # None /\ evidence[r].latest = "queued") ~> ([]Settled(r) \/ []Wedged(r))
-----------------------------------------------------------------------------
(* Under failing evidence writes.                                          *)

(* What is in memory, and so what a caller got a 202 for, is on disk.      *)
AcceptedIsDurable ==
  \A r \in RequestId : requests[r] # None =>
    evidence[r] # None /\ evidence[r].latest \notin {"none", "torn"}

(* "A crashing runner is a failed request, not a dead worker": only the    *)
(* evidence failing can end a worker.                                      *)
CrashingRunnerKillsNoWorker ==
  (\E d \in Door : pc[d] = "dead") => faults > 0

(* The lock is held exactly by the actor inside a locked block, also after *)
(* an exception has left one.                                              *)
LockDiscipline ==
  \A a \in Actor : lock = a <=> pc[a] \in Locked
-----------------------------------------------------------------------------
(* The inductive invariant behind TypeOK, TurnsSerialized, OwnDoor,        *)
(* SessionHasOneOwner, AcceptedIsDurable and LockDiscipline.               *)

(* An actor that is not at rest works on a request, which is in memory     *)
(* unless the actor is still creating it; then it is on disk only.         *)
AtRest(a) == pc[a] \in {"idle", "get"}
Recording(a) == pc[a] \in {"write_json", "record_queued"}

WorkInv ==
  \A a \in Actor : ~AtRest(a) =>
    /\ rid[a] \in RequestId
    /\ evidence[rid[a]] # None
    /\ IF Recording(a) THEN requests[rid[a]] = None ELSE requests[rid[a]] # None

UpdInv ==
  /\ \A a \in Actor : pc[a] = "update" => upd[a].state \in VALID_STATES
  /\ \A t \in Thread : upd[t].response = FALSE

(* What is in memory is also on disk, with the fields that never change.   *)
MemoryInv ==
  \A r \in RequestId : requests[r] # None =>
    /\ evidence[r] # None
    /\ evidence[r].latest \notin {"none", "torn"}
    /\ requests[r].session_id = evidence[r].session_id
    /\ requests[r].identity = evidence[r].identity

(* On disk, the requests of a session have one owner, who is the session's *)
(* owner in memory too.                                                    *)
OwnerInv ==
  /\ \A q, r \in RequestId :
       /\ evidence[q] # None /\ evidence[r] # None
       /\ evidence[q].session_id = evidence[r].session_id
       => OwnerKey(evidence[q].identity) = OwnerKey(evidence[r].identity)
  /\ \A r \in RequestId : up /\ evidence[r] # None =>
       /\ sessions[evidence[r].session_id] # None
       /\ OwnerKey(sessions[evidence[r].session_id]) = OwnerKey(evidence[r].identity)

(* What a door's queue and worker hold was created by a caller of the door.*)
DoorInv ==
  /\ \A d \in Door : \A k \in 1..Len(queue[d]) :
       /\ requests[queue[d][k]] # None
       /\ evidence[queue[d][k]].identity.class = d
  /\ \A d \in Door : ~AtRest(d) => evidence[rid[d]].identity.class = d

DownInv ==
  ~up => /\ lock = None
         /\ \A a \in Actor : AtRest(a)
         /\ \A d \in Door : queue[d] = <<>>
         /\ \A r \in RequestId : requests[r] = None

IInv ==
  /\ TypeOK
  /\ LockDiscipline
  /\ WorkInv
  /\ UpdInv
  /\ MemoryInv
  /\ OwnerInv
  /\ DoorInv
  /\ DownInv
-----------------------------------------------------------------------------
(* What docs and comments say and the code does not do.                    *)

(* "All five terminal states are final - no further transitions."          *)
TerminalIsFinal ==
  [][\A r \in RequestId : requests[r] # None /\ requests'[r] # None /\ Terminal(r) =>
       requests'[r].state = requests[r].state]_vars

(* "Every earlier turn of this session"; "a failed or cancelled one        *)
(* contributes nothing".                                                   *)
HistoryIsEarlierAnswers ==
  \A d \in Door : pc[d] = "run" =>
    \A q \in replayed[d] :
      /\ requests[q].created_at < requests[rid[d]].created_at
      /\ requests[q].state = "completed"

(* A killed process can always be started again.                           *)
RestartSucceeds == ~up => Scannable
=============================================================================
