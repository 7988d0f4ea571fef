---------------------------- MODULE CagentProofs -----------------------------
(***************************************************************************)
(* What Cagent keeps, for any number of threads, requests, sessions,       *)
(* callers, kills and failing writes, in three parts: IInv, an inductive   *)
(* invariant; that a request is in one place at a time, so that it is      *)
(* served at most once and always finished; and that the process keeps the *)
(* promise of TurnService.                                                 *)
(***************************************************************************)
EXTENDS Cagent, FiniteSetTheorems, SequenceTheorems, TLAPS

(* Callers told apart by owner_key come through the same door.             *)
LEMMA OwnerKeyFixesClass ==
  ASSUME NEW i \in Identity, NEW j \in Identity, OwnerKey(i) = OwnerKey(j)
  PROVE  i.class = j.class
BY DEF OwnerKey, Identity

(* An actor inside a locked block has the lock to itself, so its request   *)
(* and what it writes are nobody else's.                                   *)
LEMMA OneInside ==
  ASSUME LockDiscipline, NEW a \in Actor, NEW b \in Actor, pc[a] \in Locked, pc[b] \in Locked
  PROVE  a = b
BY DEF LockDiscipline

(* What an actor does to itself alone: to its place, its request, the      *)
(* arguments of the call it makes, its cancel flags and its history.       *)
Quiet(a, label) ==
  /\ UNCHANGED <<requests, sessions, lock, evidence, clock, faults, life, queue>>
  /\ ~AtRest(a) /\ pc[a] \notin Locked
  /\ Go(a, label) /\ label \notin Locked
  /\ label \in IF a \in Thread THEN HandlerLabel ELSE WorkerLabel
  /\ \/ rid' = rid
     \/ label \in {"idle", "get"} /\ rid' = [rid EXCEPT ![a] = None]
  /\ \/ label # "update" /\ upd' = upd
     \/ \E s \in VALID_STATES, x \in BOOLEAN :
          /\ a \in Thread => x = FALSE
          /\ upd' = [upd EXCEPT ![a] = [state |-> s, response |-> x]]
  /\ cancel_flags' \in [Door -> SUBSET RequestId]
  /\ catching' \in [Door -> BOOLEAN]
  /\ replayed' \in [Door -> SUBSET RequestId]

(* Such a step keeps IInv.                                                 *)
LEMMA QuietInv ==
  ASSUME IInv, NEW a \in Actor, NEW label, Quiet(a, label)
  PROVE  IInv'
<1> USE StoreAssumption DEF IInv, life
<1>1. /\ UNCHANGED <<requests, sessions, lock, evidence, clock, faults, life, queue>>
      /\ ~AtRest(a) /\ pc[a] \notin Locked
      /\ pc' = [pc EXCEPT ![a] = label] /\ label \notin Locked
      /\ \/ rid' = rid
         \/ label \in {"idle", "get"} /\ rid' = [rid EXCEPT ![a] = None]
  BY DEF Quiet, Go
<1>2. /\ upd' \in [Actor -> [state: VALID_STATES \cup {None}, response: BOOLEAN]]
      /\ UpdInv'
  <2>1. CASE label # "update" /\ upd' = upd
    BY <1>1, <2>1 DEF TypeOK, UpdInv, Actor
  <2>2. CASE upd' # upd \/ label = "update"
    <3>. PICK s \in VALID_STATES, x \in BOOLEAN :
           /\ a \in Thread => x = FALSE
           /\ upd' = [upd EXCEPT ![a] = [state |-> s, response |-> x]]
      BY <2>2 DEF Quiet
    <3>1. /\ upd'[a].state = s /\ upd'[a].response = x
          /\ \A b \in Actor \ {a} : upd'[b] = upd[b] /\ pc'[b] = pc[b]
      BY <1>1 DEF TypeOK
    <3>2. upd' \in [Actor -> [state: VALID_STATES \cup {None}, response: BOOLEAN]]
      BY DEF TypeOK
    <3>3. UpdInv'
      BY <3>1 DEF UpdInv, Actor
    <3>. QED
      BY <3>2, <3>3
  <2>. QED
    BY <2>1, <2>2
<1>3. TypeOK'
  <2>1. /\ pc' \in [Actor -> HandlerLabel \cup WorkerLabel]
        /\ \A t \in Thread : pc'[t] \in HandlerLabel
        /\ \A d \in Door : pc'[d] \in WorkerLabel
    BY <1>1 DEF TypeOK, Actor, Quiet
  <2>2. rid' \in [Actor -> RequestId \cup {None}]
    BY <1>1 DEF TypeOK
  <2>. QED
    BY <1>1, <1>2, <2>1, <2>2 DEF TypeOK, Quiet
<1>4. LockDiscipline'
  BY <1>1 DEF TypeOK, LockDiscipline
<1>5. WorkInv'
  BY <1>1 DEF TypeOK, WorkInv, AtRest, Recording, Locked
<1>6. MemoryInv' /\ OwnerInv'
  BY <1>1 DEF MemoryInv, OwnerInv
<1>7. DoorInv'
  BY <1>1 DEF TypeOK, DoorInv, AtRest, Actor
<1>8. DownInv'
  BY <1>1 DEF TypeOK, DownInv, AtRest
<1>. QED
  BY <1>2, <1>3, <1>4, <1>5, <1>6, <1>7, <1>8
-----------------------------------------------------------------------------
(* A handler of a cancel call, between the points where it changes the     *)
(* store.                                                                  *)
LEMMA HandlerQuiet ==
  ASSUME IInv, NEW t \in Thread,
         \/ CancelTerminal(t) \/ CancelQueued(t) \/ CancelFlag(t)
         \/ CancelLookup(t) \/ AsDict(t)
  PROVE  IInv'
<1> USE StoreAssumption DEF IInv, Quiet, AtRest, Locked, HandlerLabel, Go, workerVars, life
<1>1. t \in Actor
  BY DEF Actor
<1>2. CASE CancelTerminal(t)
  <2>1. Quiet(t, "as_dict") \/ Quiet(t, "cancel_again")
    BY <1>2 DEF CancelTerminal, TypeOK
  <2>. QED
    BY <1>1, <2>1, QuietInv
<1>3. CASE CancelQueued(t)
  <2>1. Quiet(t, "update") \/ Quiet(t, "flag")
    BY <1>3 DEF CancelQueued, CallUpdate, TypeOK, VALID_STATES
  <2>. QED
    BY <1>1, <2>1, QuietInv
<1>4. CASE CancelFlag(t)
  <2>1. rid[t] \in RequestId
    BY <1>1, <1>4 DEF CancelFlag, WorkInv
  <2>2. Quiet(t, "lookup")
    BY <1>4, <2>1 DEF CancelFlag, TypeOK
  <2>. QED
    BY <1>1, <2>2, QuietInv
<1>5. CASE CancelLookup(t)
  <2>1. Quiet(t, "as_dict")
    BY <1>5 DEF CancelLookup, GetRequest, TypeOK
  <2>. QED
    BY <1>1, <2>1, QuietInv
<1>6. CASE AsDict(t)
  <2>1. Quiet(t, "idle")
    BY <1>6 DEF AsDict, TypeOK
  <2>. QED
    BY <1>1, <2>1, QuietInv
<1>. QED
  BY <1>2, <1>3, <1>4, <1>5, <1>6

(* A worker with a turn, between the points where it changes the store.    *)
LEMMA WorkerQuiet ==
  ASSUME IInv, NEW d \in Door,
         \/ Lookup(d) \/ Check(d) \/ CheckFlag(d) \/ Compose(d)
         \/ RunEnds(d) \/ RunRaises(d) \/ Clear(d)
  PROVE  IInv'
<1> USE StoreAssumption DEF IInv, Quiet, AtRest, Locked, WorkerLabel, Go, workerVars, life
<1>1. d \in Actor /\ d \notin Thread
  BY DEF Actor
<1>2. CASE Lookup(d)
  <2>1. Quiet(d, "check")
    BY <1>1, <1>2 DEF Lookup, GetRequest, TypeOK
  <2>. QED
    BY <1>1, <2>1, QuietInv
<1>3. CASE Check(d)
  <2>1. Quiet(d, "clear") \/ Quiet(d, "check_flag")
    BY <1>1, <1>3 DEF Check, TypeOK
  <2>. QED
    BY <1>1, <2>1, QuietInv
<1>4. CASE CheckFlag(d)
  <2>1. Quiet(d, "update")
    BY <1>1, <1>4 DEF CheckFlag, CallUpdate, TypeOK, VALID_STATES
  <2>. QED
    BY <1>1, <2>1, QuietInv
<1>5. CASE Compose(d)
  <2>1. replayed' \in [Door -> SUBSET RequestId]
    BY <1>5 DEF Compose, TypeOK, RequestsOf
  <2>2. Quiet(d, "run")
    BY <1>1, <1>5, <2>1 DEF Compose, TypeOK
  <2>. QED
    BY <1>1, <2>2, QuietInv
<1>6. CASE RunEnds(d) \/ RunRaises(d)
  <2>1. Quiet(d, "update")
    BY <1>1, <1>6 DEF RunEnds, RunRaises, CallUpdate, TypeOK, VALID_STATES
  <2>. QED
    BY <1>1, <2>1, QuietInv
<1>7. CASE Clear(d)
  <2>1. Quiet(d, "get")
    BY <1>1, <1>7 DEF Clear, TypeOK
  <2>. QED
    BY <1>1, <2>1, QuietInv
<1>. QED
  BY <1>2, <1>3, <1>4, <1>5, <1>6, <1>7
-----------------------------------------------------------------------------
(* The agent starts in a consistent state.                                 *)
LEMMA InitInv == Init => IInv
<1> SUFFICES ASSUME Init PROVE IInv
  OBVIOUS
<1> USE StoreAssumption DEF Init
<1>1. TypeOK
  BY DEF TypeOK, HandlerLabel, WorkerLabel, Actor, NoUpdate
<1>2. LockDiscipline
  BY DEF LockDiscipline, Locked, Actor
<1>3. WorkInv
  BY DEF WorkInv, AtRest, Actor
<1>4. UpdInv
  BY DEF UpdInv, Actor, NoUpdate
<1>5. MemoryInv
  BY DEF MemoryInv
<1>6. OwnerInv
  BY DEF OwnerInv
<1>7. DoorInv
  BY DEF DoorInv, AtRest, Actor
<1>8. DownInv
  BY DEF DownInv
<1>. QED
  BY <1>1, <1>2, <1>3, <1>4, <1>5, <1>6, <1>7, <1>8 DEF IInv
-----------------------------------------------------------------------------
(* record_created writes request.json and then the first event.            *)
LEMMA WriteJsonInv ==
  ASSUME IInv, NEW t \in Thread, WriteJson(t), UNCHANGED workerVars
  PROVE  IInv'
<1> USE StoreAssumption DEF IInv, workerVars, life
<1> DEFINE old == evidence[rid[t]]
<1> DEFINE new == [old EXCEPT !.latest = "none"]
<1>1. /\ t \in Actor /\ rid[t] \in RequestId /\ requests[rid[t]] = None
      /\ old \in EvidenceDir
  BY DEF TypeOK, WorkInv, AtRest, Recording, Actor, WriteJson
<1>2. new \in EvidenceDir
  BY <1>1 DEF EvidenceDir, Latest
<1>3. /\ evidence' = [evidence EXCEPT ![rid[t]] = new]
      /\ pc[t] = "write_json" /\ pc' = [pc EXCEPT ![t] = "record_queued"]
      /\ UNCHANGED <<requests, sessions, lock, clock, faults, life, rid, upd>>
  BY DEF WriteJson, Go
<1>4. new.session_id = old.session_id /\ new.identity = old.identity
  BY <1>1 DEF EvidenceDir
<1> HIDE DEF new
<1>5. TypeOK'
  <2>1. evidence' \in [RequestId -> EvidenceDir \cup {None}]
    BY <1>2, <1>3 DEF TypeOK
  <2>2. /\ pc' \in [Actor -> HandlerLabel \cup WorkerLabel]
        /\ \A x \in Thread : pc'[x] \in HandlerLabel
        /\ \A d \in Door : pc'[d] \in WorkerLabel
    BY <1>1, <1>3 DEF TypeOK, HandlerLabel, Actor
  <2>. QED
    BY <1>3, <2>1, <2>2 DEF TypeOK
<1>6. LockDiscipline'
  BY <1>3 DEF TypeOK, LockDiscipline, Locked, Actor
<1>7. WorkInv'
  BY <1>1, <1>2, <1>3 DEF TypeOK, WorkInv, AtRest, Recording
<1>8. UpdInv'
  BY <1>3 DEF TypeOK, UpdInv, Actor
<1>9. MemoryInv'
  BY <1>1, <1>2, <1>3, <1>4 DEF TypeOK, MemoryInv
<1>10. OwnerInv'
  BY <1>1, <1>2, <1>3, <1>4 DEF TypeOK, OwnerInv
<1>11. DoorInv'
  BY <1>1, <1>2, <1>3, <1>4 DEF TypeOK, DoorInv, AtRest, Actor
<1>12. DownInv'
  BY <1>1, <1>3 DEF TypeOK, DownInv, AtRest, Actor
<1>. QED
  BY <1>5, <1>6, <1>7, <1>8, <1>9, <1>10, <1>11, <1>12

(* The request enters memory once it is on disk, and the lock is free.     *)
LEMMA RecordQueuedInv ==
  ASSUME IInv, NEW t \in Thread, RecordQueued(t), UNCHANGED workerVars
  PROVE  IInv'
<1> USE StoreAssumption DEF IInv, workerVars, life
<1> DEFINE old == evidence[rid[t]]
<1> DEFINE new == [old EXCEPT !.latest = "queued"]
<1> DEFINE req == [session_id |-> old.session_id, identity |-> old.identity,
                   created_at |-> old.created_at, state |-> "queued", response |-> FALSE]
<1>1. /\ t \in Actor /\ rid[t] \in RequestId /\ requests[rid[t]] = None
      /\ old \in EvidenceDir
  BY DEF TypeOK, WorkInv, AtRest, Recording, Actor, RecordQueued
<1>2. new \in EvidenceDir /\ req \in Request
  BY <1>1 DEF EvidenceDir, Request, Latest, VALID_STATES
<1>3. /\ evidence' = [evidence EXCEPT ![rid[t]] = new]
      /\ requests' = [requests EXCEPT ![rid[t]] = req]
      /\ pc[t] = "record_queued" /\ pc' = [pc EXCEPT ![t] = "enqueue"]
      /\ lock' = None
      /\ UNCHANGED <<sessions, clock, faults, life, rid, upd>>
  BY DEF RecordQueued, InsertRequest, Go
<1>4. /\ new.session_id = old.session_id /\ new.identity = old.identity
      /\ new.latest = "queued"
      /\ req.session_id = old.session_id /\ req.identity = old.identity
  BY <1>1 DEF EvidenceDir
<1>5. \A a \in Actor \ {t} : pc'[a] = pc[a] /\ pc[a] \notin Locked
  BY <1>1, <1>3, OneInside DEF TypeOK, Locked
<1> HIDE DEF new, req
<1>6. TypeOK'
  <2>1. /\ evidence' \in [RequestId -> EvidenceDir \cup {None}]
        /\ requests' \in [RequestId -> Request \cup {None}]
    BY <1>2, <1>3 DEF TypeOK
  <2>2. /\ pc' \in [Actor -> HandlerLabel \cup WorkerLabel]
        /\ \A x \in Thread : pc'[x] \in HandlerLabel
        /\ \A d \in Door : pc'[d] \in WorkerLabel
    BY <1>1, <1>3 DEF TypeOK, HandlerLabel, Actor
  <2>. QED
    BY <1>3, <2>1, <2>2 DEF TypeOK
<1>7. LockDiscipline'
  BY <1>1, <1>3, <1>5 DEF TypeOK, LockDiscipline, Locked
<1>8. WorkInv'
  BY <1>1, <1>2, <1>3, <1>5 DEF TypeOK, WorkInv, AtRest, Recording, Locked
<1>9. UpdInv'
  BY <1>3 DEF TypeOK, UpdInv, Actor
<1>10. MemoryInv'
  BY <1>1, <1>2, <1>3, <1>4 DEF TypeOK, MemoryInv
<1>11. OwnerInv'
  BY <1>1, <1>2, <1>3, <1>4 DEF TypeOK, OwnerInv
<1>12. DoorInv'
  BY <1>1, <1>2, <1>3, <1>4 DEF TypeOK, DoorInv, AtRest, Actor
<1>13. DownInv'
  BY <1>1, <1>3 DEF TypeOK, DownInv, AtRest, Actor
<1>. QED
  BY <1>6, <1>7, <1>8, <1>9, <1>10, <1>11, <1>12, <1>13

(* update_request sets the fields and appends the event, under the lock.   *)
LEMMA SetStateInv ==
  ASSUME IInv, NEW a \in Actor, SetState(a), UNCHANGED workerVars
  PROVE  IInv'
<1> USE StoreAssumption DEF IInv, workerVars, life
<1> DEFINE old == requests[rid[a]]
<1> DEFINE new == [old EXCEPT !.state = upd[a].state]
<1> DEFINE label == IF upd[a].response THEN "set_response" ELSE "append_event"
<1>1. /\ rid[a] \in RequestId /\ old \in Request /\ upd[a].state \in VALID_STATES
      /\ a \in Thread => label = "append_event"
  BY DEF TypeOK, WorkInv, UpdInv, AtRest, Recording, SetState
<1>2. new \in Request /\ label \in {"set_response", "append_event"}
  BY <1>1 DEF Request
<1>3. /\ requests' = [requests EXCEPT ![rid[a]] = new]
      /\ pc[a] = "update" /\ pc' = [pc EXCEPT ![a] = label]
      /\ lock = None /\ lock' = a
      /\ UNCHANGED <<sessions, evidence, clock, faults, life, rid, upd>>
  BY DEF SetState, Go
<1>4. new.session_id = old.session_id /\ new.identity = old.identity
  BY <1>1 DEF Request
<1> HIDE DEF new, label
<1>5. TypeOK'
  <2>1. requests' \in [RequestId -> Request \cup {None}]
    BY <1>2, <1>3 DEF TypeOK
  <2>2. /\ pc' \in [Actor -> HandlerLabel \cup WorkerLabel]
        /\ \A x \in Thread : pc'[x] \in HandlerLabel
        /\ \A d \in Door : pc'[d] \in WorkerLabel
    BY <1>1, <1>2, <1>3 DEF TypeOK, HandlerLabel, WorkerLabel, Actor
  <2>. QED
    BY <1>3, <2>1, <2>2 DEF TypeOK
<1>6. LockDiscipline'
  BY <1>2, <1>3 DEF TypeOK, LockDiscipline, Locked
<1>7. WorkInv'
  BY <1>1, <1>2, <1>3 DEF TypeOK, WorkInv, AtRest, Recording
<1>8. UpdInv'
  BY <1>2, <1>3 DEF TypeOK, UpdInv, Actor
<1>9. MemoryInv'
  BY <1>1, <1>2, <1>3, <1>4 DEF TypeOK, MemoryInv
<1>10. OwnerInv'
  BY <1>3 DEF OwnerInv
<1>11. DoorInv'
  BY <1>1, <1>2, <1>3 DEF TypeOK, DoorInv, AtRest, Actor
<1>12. DownInv'
  BY <1>3 DEF TypeOK, DownInv, AtRest
<1>. QED
  BY <1>5, <1>6, <1>7, <1>8, <1>9, <1>10, <1>11, <1>12

(* The answer becomes visible between the state and the event.             *)
LEMMA SetResponseInv ==
  ASSUME IInv, NEW a \in Actor, SetResponse(a), UNCHANGED workerVars
  PROVE  IInv'
<1> USE StoreAssumption DEF IInv, workerVars, life
<1> DEFINE old == requests[rid[a]]
<1> DEFINE new == [old EXCEPT !.response = TRUE]
<1>1. rid[a] \in RequestId /\ old \in Request /\ a \in Door
  BY DEF TypeOK, WorkInv, AtRest, Recording, SetResponse, Actor, HandlerLabel
<1>2. new \in Request
  BY <1>1 DEF Request
<1>3. /\ requests' = [requests EXCEPT ![rid[a]] = new]
      /\ pc[a] = "set_response" /\ pc' = [pc EXCEPT ![a] = "append_event"]
      /\ UNCHANGED <<sessions, lock, evidence, clock, faults, life, rid, upd>>
  BY DEF SetResponse, Go
<1>4. new.session_id = old.session_id /\ new.identity = old.identity
  BY <1>1 DEF Request
<1> HIDE DEF new
<1>5. TypeOK'
  <2>1. requests' \in [RequestId -> Request \cup {None}]
    BY <1>2, <1>3 DEF TypeOK
  <2>2. /\ pc' \in [Actor -> HandlerLabel \cup WorkerLabel]
        /\ \A x \in Thread : pc'[x] \in HandlerLabel
        /\ \A d \in Door : pc'[d] \in WorkerLabel
    BY <1>1, <1>3 DEF TypeOK, WorkerLabel, Actor
  <2>. QED
    BY <1>3, <2>1, <2>2 DEF TypeOK
<1>6. LockDiscipline'
  BY <1>3 DEF TypeOK, LockDiscipline, Locked
<1>7. WorkInv'
  BY <1>1, <1>2, <1>3 DEF TypeOK, WorkInv, AtRest, Recording
<1>8. UpdInv'
  BY <1>3 DEF TypeOK, UpdInv, Actor
<1>9. MemoryInv'
  BY <1>1, <1>2, <1>3, <1>4 DEF TypeOK, MemoryInv
<1>10. OwnerInv'
  BY <1>3 DEF OwnerInv
<1>11. DoorInv'
  BY <1>1, <1>2, <1>3 DEF TypeOK, DoorInv, AtRest, Actor
<1>12. DownInv'
  BY <1>3 DEF TypeOK, DownInv, AtRest
<1>. QED
  BY <1>5, <1>6, <1>7, <1>8, <1>9, <1>10, <1>11, <1>12

(* The event is written and the lock released.                             *)
LEMMA AppendEventInv ==
  ASSUME IInv, NEW a \in Actor, AppendEvent(a), UNCHANGED workerVars
  PROVE  IInv'
<1> USE StoreAssumption DEF IInv, workerVars, life
<1> DEFINE old == evidence[rid[a]]
<1> DEFINE new == [old EXCEPT !.latest = requests[rid[a]].state,
                              !.response = requests[rid[a]].response]
<1>1. /\ rid[a] \in RequestId /\ old \in EvidenceDir
      /\ requests[rid[a]].state \in VALID_STATES
      /\ requests[rid[a]].response \in BOOLEAN
  BY DEF TypeOK, WorkInv, AtRest, Recording, AppendEvent, Request
<1>2. /\ new \in EvidenceDir
      /\ AfterUpdate(a) \in IF a \in Thread THEN {"as_dict"} ELSE {"compose", "clear"}
  BY <1>1 DEF EvidenceDir, Latest, AfterUpdate
<1>3. /\ evidence' = [evidence EXCEPT ![rid[a]] = new]
      /\ pc[a] = "append_event" /\ pc' = [pc EXCEPT ![a] = AfterUpdate(a)]
      /\ lock' = None /\ upd' = [upd EXCEPT ![a] = NoUpdate]
      /\ UNCHANGED <<requests, sessions, clock, faults, life, rid>>
  BY DEF AppendEvent, Go
<1>4. /\ new.session_id = old.session_id /\ new.identity = old.identity
      /\ new.latest \notin {"none", "torn"}
  BY <1>1 DEF EvidenceDir, VALID_STATES
<1>5. \A b \in Actor \ {a} : pc'[b] = pc[b] /\ pc[b] \notin Locked
  BY <1>3, OneInside DEF TypeOK, Locked
<1> HIDE DEF new
<1>6. TypeOK'
  <2>1. /\ evidence' \in [RequestId -> EvidenceDir \cup {None}]
        /\ upd' \in [Actor -> [state: VALID_STATES \cup {None}, response: BOOLEAN]]
    BY <1>2, <1>3 DEF TypeOK, NoUpdate
  <2>2. /\ pc' \in [Actor -> HandlerLabel \cup WorkerLabel]
        /\ \A x \in Thread : pc'[x] \in HandlerLabel
        /\ \A d \in Door : pc'[d] \in WorkerLabel
    BY <1>2, <1>3 DEF TypeOK, HandlerLabel, WorkerLabel, Actor
  <2>. QED
    BY <1>3, <2>1, <2>2 DEF TypeOK
<1>7. LockDiscipline'
  BY <1>2, <1>3, <1>5 DEF TypeOK, LockDiscipline, Locked
<1>8. WorkInv'
  BY <1>1, <1>2, <1>3, <1>5 DEF TypeOK, WorkInv, AtRest, Recording, Locked
<1>9. UpdInv'
  BY <1>2, <1>3 DEF TypeOK, UpdInv, Actor, NoUpdate
<1>10. MemoryInv'
  BY <1>1, <1>2, <1>3, <1>4 DEF TypeOK, MemoryInv
<1>11. OwnerInv'
  BY <1>1, <1>2, <1>3, <1>4 DEF TypeOK, OwnerInv
<1>12. DoorInv'
  BY <1>1, <1>2, <1>3, <1>4 DEF TypeOK, DoorInv, AtRest, Actor
<1>13. DownInv'
  BY <1>3 DEF TypeOK, DownInv, AtRest
<1>. QED
  BY <1>6, <1>7, <1>8, <1>9, <1>10, <1>11, <1>12, <1>13
-----------------------------------------------------------------------------
(* A new request, given that its session's owner is i already, or that the *)
(* session is new to memory and to the evidence.                           *)
LEMMA NewRequestInv ==
  ASSUME IInv, up, UNCHANGED workerVars,
         NEW t \in Thread, NEW s \in SessionId, NEW i \in Identity, NEW r \in RequestId,
         pc[t] = "idle",
         NewRequest(t, s, i, r),
         \/ /\ sessions[s] # None /\ OwnerKey(sessions[s]) = OwnerKey(i)
            /\ UNCHANGED sessions
         \/ /\ sessions[s] = None
            /\ \A q \in RequestId : evidence[q] # None => evidence[q].session_id # s
            /\ sessions' = [sessions EXCEPT ![s] = i]
  PROVE  IInv'
<1> USE StoreAssumption DEF IInv, workerVars, life
<1> DEFINE new == [session_id |-> s, identity |-> i, created_at |-> clock,
                   latest |-> "torn", response |-> FALSE]
<1>1. new \in EvidenceDir /\ t \in Actor /\ i # None
  BY DEF TypeOK, EvidenceDir, Latest, Actor
<1>2. /\ requests[r] = None /\ evidence[r] = None
      /\ evidence' = [evidence EXCEPT ![r] = new]
      /\ pc' = [pc EXCEPT ![t] = "write_json"]
      /\ lock = None /\ lock' = t
      /\ clock' = clock + 1 /\ rid' = [rid EXCEPT ![t] = r]
      /\ UNCHANGED <<requests, faults, life, upd>>
  BY DEF NewRequest, Go
<1>3. new.session_id = s /\ new.identity = i
  OBVIOUS
<1> HIDE DEF new
<1>4. TypeOK'
  <2>1. /\ evidence' \in [RequestId -> EvidenceDir \cup {None}]
        /\ sessions' \in [SessionId -> Identity \cup {None}]
        /\ rid' \in [Actor -> RequestId \cup {None}]
        /\ clock' \in Nat
    BY <1>1, <1>2 DEF TypeOK
  <2>2. /\ pc' \in [Actor -> HandlerLabel \cup WorkerLabel]
        /\ \A x \in Thread : pc'[x] \in HandlerLabel
        /\ \A d \in Door : pc'[d] \in WorkerLabel
    BY <1>1, <1>2 DEF TypeOK, HandlerLabel, Actor
  <2>. QED
    BY <1>1, <1>2, <2>1, <2>2 DEF TypeOK
<1>5. LockDiscipline'
  BY <1>1, <1>2 DEF TypeOK, LockDiscipline, Locked
<1>6. WorkInv'
  BY <1>1, <1>2 DEF TypeOK, WorkInv, AtRest, Recording
<1>7. UpdInv'
  BY <1>2 DEF TypeOK, UpdInv, Actor
<1>8. MemoryInv'
  BY <1>2 DEF TypeOK, MemoryInv
<1>9. OwnerInv'
  <2>1. \A q \in RequestId :
          /\ q # r => evidence'[q] = evidence[q]
          /\ q # r /\ evidence[q] # None /\ evidence[q].session_id = s =>
               OwnerKey(evidence[q].identity) = OwnerKey(i)
    BY <1>2 DEF TypeOK, OwnerInv
  <2>2. evidence'[r].session_id = s /\ evidence'[r].identity = i
    BY <1>2, <1>3 DEF TypeOK
  <2>3. \A q \in RequestId : q # r /\ evidence[q] # None =>
          sessions'[evidence[q].session_id] = sessions[evidence[q].session_id]
    BY DEF TypeOK, EvidenceDir
  <2>4. sessions'[s] # None /\ OwnerKey(sessions'[s]) = OwnerKey(i)
    BY <1>1 DEF TypeOK
  <2>. QED
    BY <1>2, <2>1, <2>2, <2>3, <2>4 DEF OwnerInv
<1>10. DoorInv'
  <2>1. \A q \in RequestId : evidence[q] # None => evidence'[q] = evidence[q]
    BY <1>2 DEF TypeOK
  <2>2. \A d \in Door : \A k \in 1..Len(queue[d]) :
          queue[d][k] \in RequestId /\ evidence[queue[d][k]] # None
    BY DEF TypeOK, DoorInv, MemoryInv
  <2>3. \A d \in Door : d # t /\ d \in Actor
    BY DEF Actor
  <2>4. \A d \in Door : ~AtRest(d)' =>
          rid'[d] = rid[d] /\ evidence'[rid[d]].identity.class = d
    BY <1>2, <2>1, <2>3 DEF TypeOK, DoorInv, WorkInv, AtRest
  <2>. QED
    BY <1>2, <2>1, <2>2, <2>4 DEF DoorInv
<1>11. DownInv'
  BY <1>2 DEF DownInv
<1>. QED
  BY <1>4, <1>5, <1>6, <1>7, <1>8, <1>9, <1>10, <1>11

(* A call arrives: the owner check of continue_session is what keeps       *)
(* OwnerInv, and with it the doors apart.                                  *)
LEMMA HandlerStartInv ==
  ASSUME IInv, NEW t \in Thread, HandlerStart(t)
  PROVE  IInv'
<1> USE StoreAssumption, ServerAssumption
<1> PICK i \in Callers, r \in RequestId :
      \/ \E s \in SessionId : StartRequest(t, i, s, r) \/ ContinueRequest(t, i, s, r)
      \/ CancelRequest(t, i, r)
  BY DEF HandlerStart
<1>1. CASE \E s \in SessionId : StartRequest(t, i, s, r) \/ ContinueRequest(t, i, s, r)
  BY <1>1, NewRequestInv
     DEF StartRequest, ContinueRequest, CreateSessionAndRequest, ContinueSession, Accepts
<1>2. CASE CancelRequest(t, i, r)
  <2> USE DEF IInv, workerVars, life
  <2>1. /\ pc[t] = "idle" /\ requests[r] # None /\ up
        /\ pc' = [pc EXCEPT ![t] = "cancel"] /\ rid' = [rid EXCEPT ![t] = r]
        /\ UNCHANGED <<requests, sessions, lock, evidence, clock, faults, life, upd>>
        /\ UNCHANGED workerVars
    BY <1>2 DEF CancelRequest, Accepts, Go
  <2>2. TypeOK'
    <3>1. /\ pc' \in [Actor -> HandlerLabel \cup WorkerLabel]
          /\ \A x \in Thread : pc'[x] \in HandlerLabel
          /\ \A d \in Door : pc'[d] \in WorkerLabel
      BY <2>1 DEF TypeOK, HandlerLabel, Actor
    <3>2. rid' \in [Actor -> RequestId \cup {None}]
      BY <2>1 DEF TypeOK
    <3>. QED
      BY <2>1, <3>1, <3>2 DEF TypeOK
  <2>3. LockDiscipline'
    BY <2>1 DEF TypeOK, LockDiscipline, Locked
  <2>4. WorkInv'
    BY <2>1 DEF TypeOK, WorkInv, MemoryInv, AtRest, Recording
  <2>5. UpdInv' /\ MemoryInv' /\ OwnerInv' /\ DownInv'
    BY <2>1 DEF TypeOK, UpdInv, MemoryInv, OwnerInv, DownInv, Actor
  <2>6. DoorInv'
    BY <2>1 DEF TypeOK, DoorInv, AtRest, Actor
  <2>. QED
    BY <2>2, <2>3, <2>4, <2>5, <2>6
<1>. QED
  BY <1>1, <1>2

(* The handler hands the request to the worker of the owner's door.        *)
LEMMA EnqueueInv ==
  ASSUME IInv, NEW t \in Thread, Enqueue(t)
  PROVE  IInv'
<1> USE StoreAssumption DEF IInv, life
<1> DEFINE d == WorkerOf(t)
<1>1. /\ rid[t] \in RequestId /\ requests[rid[t]] \in Request /\ requests[rid[t]] # None
      /\ evidence[rid[t]].identity.class = d /\ d \in Door
  <2>1. rid[t] \in RequestId /\ requests[rid[t]] \in Request /\ requests[rid[t]] # None
    <3>1. pc[t] = "enqueue"
      BY DEF Enqueue, EnqueueAt
    <3>2. rid[t] \in RequestId /\ requests[rid[t]] # None
      BY <3>1 DEF TypeOK, WorkInv, AtRest, Recording, Actor
    <3>. QED
      BY <3>2 DEF TypeOK
  <2>. QED
    BY <2>1, SMTT(30) DEF TypeOK, MemoryInv, WorkerOf, Request, Identity
<1>2. /\ pc[t] = "enqueue" /\ pc' = [pc EXCEPT ![t] = "idle"]
      /\ rid' = [rid EXCEPT ![t] = None]
      /\ queue' = [queue EXCEPT ![d] = Append(@, rid[t])]
      /\ UNCHANGED <<requests, sessions, lock, evidence, clock, faults, life, upd,
                     cancel_flags, catching, replayed>>
  BY DEF Enqueue, EnqueueAt, Put, Go
<1> HIDE DEF d
<1>3. TypeOK'
  <2>1. queue' \in [Door -> Seq(RequestId)] /\ rid' \in [Actor -> RequestId \cup {None}]
    BY <1>1, <1>2, AppendProperties DEF TypeOK
  <2>2. /\ pc' \in [Actor -> HandlerLabel \cup WorkerLabel]
        /\ \A x \in Thread : pc'[x] \in HandlerLabel
        /\ \A e \in Door : pc'[e] \in WorkerLabel
    BY <1>2 DEF TypeOK, HandlerLabel, Actor
  <2>. QED
    BY <1>2, <2>1, <2>2 DEF TypeOK
<1>4. LockDiscipline'
  BY <1>2 DEF TypeOK, LockDiscipline, Locked
<1>5. WorkInv'
  BY <1>2 DEF TypeOK, WorkInv, AtRest, Recording
<1>6. UpdInv' /\ MemoryInv' /\ OwnerInv'
  BY <1>2 DEF TypeOK, UpdInv, MemoryInv, OwnerInv, Actor
<1>7. DoorInv'
  <2>1. queue[d] \in Seq(RequestId)
    BY <1>1 DEF TypeOK
  <2>2. \A k \in 1..Len(queue'[d]) :
          IF k = Len(queue[d]) + 1 THEN queue'[d][k] = rid[t]
          ELSE k \in 1..Len(queue[d]) /\ queue'[d][k] = queue[d][k]
    BY <1>1, <1>2, <2>1, AppendProperties DEF TypeOK
  <2>3. \A e \in Door \ {d} : queue'[e] = queue[e]
    BY <1>2 DEF TypeOK
  <2>4. \A e \in Door : \A k \in 1..Len(queue'[e]) :
          /\ requests'[queue'[e][k]] # None
          /\ evidence'[queue'[e][k]].identity.class = e
    BY <1>1, <1>2, <2>2, <2>3 DEF DoorInv
  <2>5. \A e \in Door : ~AtRest(e)' => evidence'[rid'[e]].identity.class = e
    BY <1>2 DEF TypeOK, DoorInv, AtRest, Actor
  <2>. QED
    BY <2>4, <2>5 DEF DoorInv
<1>8. DownInv'
  BY <1>1, <1>2 DEF DownInv
<1>. QED
  BY <1>3, <1>4, <1>5, <1>6, <1>7, <1>8

(* An evidence write fails under a handler: what it leaves behind is       *)
(* nobody else's.                                                          *)
LEMMA HandlerFailsInv ==
  ASSUME IInv, NEW t \in Thread, HandlerFails(t)
  PROVE  IInv'
<1> USE StoreAssumption DEF IInv, workerVars, life
<1>1. t \in Actor /\ t \notin Door
  BY DEF Actor
<1>2. CASE RecordCreatedFails(t)
  <2>1. /\ pc[t] \in Locked /\ Recording(t) /\ ~AtRest(t)
        /\ pc' = [pc EXCEPT ![t] = "idle"] /\ rid' = [rid EXCEPT ![t] = None]
        /\ lock' = None /\ faults' = faults + 1
        /\ evidence' = evidence \/ evidence' = [evidence EXCEPT ![rid[t]] = None]
        /\ UNCHANGED <<requests, sessions, clock, life, upd>>
        /\ UNCHANGED workerVars
    BY <1>2 DEF RecordCreatedFails, HandlerFails, Go, Locked, Recording, AtRest
  <2>2. rid[t] \in RequestId /\ requests[rid[t]] = None
    BY <1>1, <2>1 DEF WorkInv
  <2>3. \A b \in Actor \ {t} : pc'[b] = pc[b] /\ pc[b] \notin Locked /\ rid'[b] = rid[b]
    BY <1>1, <2>1, OneInside DEF TypeOK
  <2>4. \A q \in RequestId : q # rid[t] => evidence'[q] = evidence[q]
    BY <2>1, <2>2 DEF TypeOK
  <2>5. \A q \in RequestId : evidence'[q] # None => evidence'[q] = evidence[q]
    BY <2>1, <2>2 DEF TypeOK
  <2>6. TypeOK'
    <3>1. /\ pc' \in [Actor -> HandlerLabel \cup WorkerLabel]
          /\ \A x \in Thread : pc'[x] \in HandlerLabel
          /\ \A d \in Door : pc'[d] \in WorkerLabel
      BY <1>1, <2>1 DEF TypeOK, HandlerLabel, Actor
    <3>2. /\ evidence' \in [RequestId -> EvidenceDir \cup {None}]
          /\ rid' \in [Actor -> RequestId \cup {None}]
      BY <2>1 DEF TypeOK
    <3>. QED
      BY <2>1, <3>1, <3>2 DEF TypeOK
  <2>7. LockDiscipline'
    BY <2>1, <2>3 DEF TypeOK, LockDiscipline, Locked
  <2>8. WorkInv'
    <3>1. \A b \in Actor \ {t} : ~AtRest(b) => rid[b] # rid[t]
      BY <2>2, <2>3 DEF WorkInv, Recording, Locked
    <3>2. AtRest(t)'
      BY <1>1, <2>1 DEF TypeOK, AtRest
    <3>. QED
      BY <2>1, <2>3, <2>4, <3>1, <3>2 DEF WorkInv, AtRest, Recording
  <2>9. UpdInv'
    BY <2>1 DEF TypeOK, UpdInv, Actor
  <2>10. MemoryInv'
    BY <2>1, <2>2, <2>4 DEF MemoryInv
  <2>11. OwnerInv'
    BY <2>1, <2>5 DEF OwnerInv
  <2>12. DoorInv'
    <3>1. \A d \in Door : d # t /\ d \in Actor
      BY <1>1 DEF Actor
    <3>2. \A d \in Door : ~AtRest(d) => rid[d] \in RequestId /\ rid[d] # rid[t]
      BY <2>2, <2>3, <3>1 DEF WorkInv, Recording, Locked
    <3>3. \A d \in Door : \A k \in 1..Len(queue[d]) :
            queue[d][k] \in RequestId /\ queue[d][k] # rid[t]
      BY <2>2 DEF TypeOK, DoorInv
    <3>. QED
      BY <2>1, <2>3, <2>4, <3>1, <3>2, <3>3 DEF DoorInv, AtRest
  <2>13. DownInv'
    BY <1>1, <2>1 DEF DownInv
  <2>. QED
    BY <2>6, <2>7, <2>8, <2>9, <2>10, <2>11, <2>12, <2>13
<1>3. CASE ~RecordCreatedFails(t)
  <2>1. /\ pc[t] = "append_event" /\ pc' = [pc EXCEPT ![t] = "idle"]
        /\ rid' = [rid EXCEPT ![t] = None] /\ upd' = [upd EXCEPT ![t] = NoUpdate]
        /\ lock' = None /\ faults' = faults + 1
        /\ UNCHANGED <<requests, sessions, evidence, clock, life>>
        /\ UNCHANGED workerVars
    BY <1>3 DEF HandlerFails, AppendFails, Go
  <2>2. \A b \in Actor \ {t} : pc'[b] = pc[b] /\ pc[b] \notin Locked
    BY <1>1, <2>1, OneInside DEF TypeOK, Locked
  <2>3. TypeOK'
    <3>1. /\ pc' \in [Actor -> HandlerLabel \cup WorkerLabel]
          /\ \A x \in Thread : pc'[x] \in HandlerLabel
          /\ \A d \in Door : pc'[d] \in WorkerLabel
      BY <1>1, <2>1 DEF TypeOK, HandlerLabel, Actor
    <3>2. /\ rid' \in [Actor -> RequestId \cup {None}]
          /\ upd' \in [Actor -> [state: VALID_STATES \cup {None}, response: BOOLEAN]]
      BY <2>1 DEF TypeOK, NoUpdate
    <3>. QED
      BY <2>1, <3>1, <3>2 DEF TypeOK
  <2>4. LockDiscipline'
    BY <2>1, <2>2 DEF TypeOK, LockDiscipline, Locked
  <2>5. WorkInv'
    BY <2>1 DEF TypeOK, WorkInv, AtRest, Recording
  <2>6. UpdInv'
    BY <2>1 DEF TypeOK, UpdInv, Actor, NoUpdate
  <2>7. MemoryInv' /\ OwnerInv'
    BY <2>1 DEF MemoryInv, OwnerInv
  <2>8. DoorInv'
    BY <1>1, <2>1 DEF TypeOK, DoorInv, AtRest, Actor
  <2>9. DownInv'
    BY <1>1, <2>1 DEF DownInv, AtRest
  <2>. QED
    BY <2>3, <2>4, <2>5, <2>6, <2>7, <2>8, <2>9
<1>. QED
  BY <1>2, <1>3

(* A worker takes the oldest request of its queue.                         *)
LEMMA GetInv ==
  ASSUME IInv, NEW d \in Door, Get(d)
  PROVE  IInv'
<1> USE StoreAssumption DEF IInv, life
<1> DEFINE r == Head(queue[d])
<1>1. /\ pc[d] = "get" /\ queue[d] # <<>>
      /\ pc' = [pc EXCEPT ![d] = "lookup"]
      /\ rid' = [rid EXCEPT ![d] = r]
      /\ queue' = [queue EXCEPT ![d] = Tail(@)]
      /\ UNCHANGED <<requests, sessions, lock, evidence, clock, faults, life, upd,
                     cancel_flags, catching, replayed>>
  BY DEF Get, Go
<1>2. d \in Actor /\ d \notin Thread /\ queue[d] \in Seq(RequestId)
  BY DEF TypeOK, Actor
<1>3. /\ r \in RequestId /\ requests[r] # None /\ evidence[r] # None
      /\ evidence[r].identity.class = d
  <2>1. 1 \in 1..Len(queue[d]) /\ r = queue[d][1]
    BY <1>1, <1>2
  <2>2. r \in RequestId
    BY <1>1, <1>2
  <2> HIDE DEF r
  <2>. QED
    BY <2>1, <2>2 DEF DoorInv, MemoryInv
<1>4. /\ Tail(queue[d]) \in Seq(RequestId)
      /\ \A k \in 1..Len(Tail(queue[d])) :
           k + 1 \in 1..Len(queue[d]) /\ Tail(queue[d])[k] = queue[d][k + 1]
  BY <1>1, <1>2, HeadTailProperties
<1> HIDE DEF r
<1>5. TypeOK'
  <2>1. /\ pc' \in [Actor -> HandlerLabel \cup WorkerLabel]
        /\ \A x \in Thread : pc'[x] \in HandlerLabel
        /\ \A e \in Door : pc'[e] \in WorkerLabel
    BY <1>1, <1>2 DEF TypeOK, WorkerLabel, Actor
  <2>2. queue' \in [Door -> Seq(RequestId)] /\ rid' \in [Actor -> RequestId \cup {None}]
    BY <1>1, <1>3, <1>4 DEF TypeOK
  <2>. QED
    BY <1>1, <2>1, <2>2 DEF TypeOK
<1>6. LockDiscipline'
  BY <1>1 DEF TypeOK, LockDiscipline, Locked
<1>7. WorkInv'
  BY <1>1, <1>2, <1>3 DEF TypeOK, WorkInv, AtRest, Recording
<1>8. UpdInv' /\ MemoryInv' /\ OwnerInv'
  BY <1>1 DEF TypeOK, UpdInv, MemoryInv, OwnerInv, Actor
<1>9. DoorInv'
  <2>1. \A e \in Door : \A k \in 1..Len(queue'[e]) :
          /\ requests'[queue'[e][k]] # None
          /\ evidence'[queue'[e][k]].identity.class = e
    <3>1. \A e \in Door : queue'[e] = IF e = d THEN Tail(queue[d]) ELSE queue[e]
      BY <1>1 DEF TypeOK
    <3>2. ASSUME NEW k \in 1..Len(Tail(queue[d]))
          PROVE  /\ requests[Tail(queue[d])[k]] # None
                 /\ evidence[Tail(queue[d])[k]].identity.class = d
      <4>1. k + 1 \in 1..Len(queue[d]) /\ Tail(queue[d])[k] = queue[d][k + 1]
        BY <1>4
      <4>. QED
        BY <4>1 DEF DoorInv
    <3>. QED
      BY <1>1, <3>1, <3>2 DEF DoorInv
  <2>2. \A e \in Door : ~AtRest(e)' => evidence'[rid'[e]].identity.class = e
    BY <1>1, <1>2, <1>3 DEF TypeOK, DoorInv, AtRest, Actor
  <2>. QED
    BY <2>1, <2>2 DEF DoorInv
<1>10. DownInv'
  BY <1>1 DEF DownInv
<1>. QED
  BY <1>5, <1>6, <1>7, <1>8, <1>9, <1>10

(* An evidence write fails under a worker.                                 *)
LEMMA WorkerAppendFailsInv ==
  ASSUME IInv, NEW d \in Door, WorkerAppendFails(d)
  PROVE  IInv'
<1> USE StoreAssumption DEF IInv, life
<1> DEFINE label == IF catching[d] THEN "dead" ELSE "update"
<1> DEFINE fields == IF catching[d] THEN NoUpdate ELSE [state |-> "failed", response |-> FALSE]
<1>1. d \in Actor /\ d \notin Thread
  BY DEF Actor
<1>2. /\ pc[d] = "append_event" /\ pc' = [pc EXCEPT ![d] = label]
      /\ upd' = [upd EXCEPT ![d] = fields]
      /\ lock' = None /\ faults' = faults + 1
      /\ UNCHANGED <<requests, sessions, evidence, clock, life, rid, queue, replayed>>
  BY DEF WorkerAppendFails, AppendFails, CallUpdate, Go
<1>3. /\ cancel_flags' \in [Door -> SUBSET RequestId]
      /\ catching' \in [Door -> BOOLEAN]
  <2>1. \/ cancel_flags' = [cancel_flags EXCEPT ![d] = @ \ {rid[d]}] /\ catching' = catching
        \/ cancel_flags' = cancel_flags /\ catching' = [catching EXCEPT ![d] = TRUE]
    BY DEF WorkerAppendFails
  <2>2. cancel_flags' \in [Door -> SUBSET RequestId]
    <3>1. cancel_flags \in [Door -> SUBSET RequestId]
      BY DEF TypeOK
    <3>2. cancel_flags[d] \ {rid[d]} \in SUBSET RequestId
      BY <3>1
    <3>. QED
      BY <2>1, <3>1, <3>2
  <2>3. catching' \in [Door -> BOOLEAN]
    BY <2>1 DEF TypeOK
  <2>. QED
    BY <2>2, <2>3
<1>4. /\ fields \in [state: VALID_STATES \cup {None}, response: BOOLEAN]
      /\ label = "update" => fields.state \in VALID_STATES
      /\ label \in {"dead", "update"}
  BY DEF NoUpdate, VALID_STATES
<1>5. \A b \in Actor \ {d} : pc'[b] = pc[b] /\ pc[b] \notin Locked
  BY <1>1, <1>2, OneInside DEF TypeOK, Locked
<1> HIDE DEF label, fields
<1>6. TypeOK'
  <2>1. /\ pc' \in [Actor -> HandlerLabel \cup WorkerLabel]
        /\ \A x \in Thread : pc'[x] \in HandlerLabel
        /\ \A e \in Door : pc'[e] \in WorkerLabel
    BY <1>1, <1>2, <1>4 DEF TypeOK, WorkerLabel, Actor
  <2>2. upd' \in [Actor -> [state: VALID_STATES \cup {None}, response: BOOLEAN]]
    BY <1>2, <1>4 DEF TypeOK
  <2>. QED
    BY <1>2, <1>3, <2>1, <2>2 DEF TypeOK
<1>7. LockDiscipline'
  BY <1>1, <1>2, <1>4, <1>5 DEF TypeOK, LockDiscipline, Locked
<1>8. WorkInv'
  BY <1>2, <1>4 DEF TypeOK, WorkInv, AtRest, Recording
<1>9. UpdInv'
  BY <1>1, <1>2, <1>4 DEF TypeOK, UpdInv, Actor
<1>10. MemoryInv' /\ OwnerInv'
  BY <1>2 DEF MemoryInv, OwnerInv
<1>11. DoorInv'
  BY <1>2 DEF TypeOK, DoorInv, AtRest, Actor
<1>12. DownInv'
  BY <1>1, <1>2 DEF DownInv, AtRest
<1>. QED
  BY <1>6, <1>7, <1>8, <1>9, <1>10, <1>11, <1>12
-----------------------------------------------------------------------------
(* A kill, and a kill during the scan that follows one.                    *)
LEMMA CrashInv ==
  ASSUME IInv, Crash
  PROVE  IInv'
<1> USE StoreAssumption DEF IInv, Crash, FreshProcess, life
<1>1. TypeOK'
  <2>1. /\ pc' \in [Actor -> HandlerLabel \cup WorkerLabel]
        /\ \A t \in Thread : pc'[t] \in HandlerLabel
        /\ \A d \in Door : pc'[d] \in WorkerLabel
    BY DEF HandlerLabel, WorkerLabel, Actor
  <2>2. /\ requests' \in [RequestId -> Request \cup {None}]
        /\ sessions' \in [SessionId -> Identity \cup {None}]
        /\ rid' \in [Actor -> RequestId \cup {None}]
        /\ upd' \in [Actor -> [state: VALID_STATES \cup {None}, response: BOOLEAN]]
        /\ queue' \in [Door -> Seq(RequestId)]
        /\ cancel_flags' \in [Door -> SUBSET RequestId]
        /\ catching' \in [Door -> BOOLEAN]
        /\ replayed' \in [Door -> SUBSET RequestId]
    BY DEF NoUpdate
  <2>3. lock' \in Actor \cup {None} /\ crashes' \in Nat
    BY DEF TypeOK
  <2>4. up' \in BOOLEAN
    OBVIOUS
  <2>5. UNCHANGED <<evidence, clock, faults>>
    OBVIOUS
  <2> HIDE DEF Crash
  <2>. QED
    BY <2>1, <2>2, <2>3, <2>4, <2>5 DEF TypeOK
<1>2. LockDiscipline' /\ UpdInv'
  BY DEF LockDiscipline, Locked, UpdInv, Actor, NoUpdate
<1>3. WorkInv' /\ MemoryInv' /\ DoorInv' /\ DownInv'
  BY DEF WorkInv, MemoryInv, DoorInv, DownInv, AtRest, Actor
<1>4. OwnerInv'
  BY DEF OwnerInv
<1>. QED
  BY <1>1, <1>2, <1>3, <1>4

(* The scan's "interrupted" events change nothing but the state of a        *)
(* request.                                                                *)
LEMMA InterruptKeeps ==
  ASSUME TypeOK, NEW S \in SUBSET {r \in RequestId : Unfinished(r)}
  PROVE  /\ Interrupt(S) \in [RequestId -> EvidenceDir \cup {None}]
         /\ \A r \in RequestId :
              IF evidence[r] = None THEN Interrupt(S)[r] = None
              ELSE /\ Interrupt(S)[r] # None
                   /\ Interrupt(S)[r].session_id = evidence[r].session_id
                   /\ Interrupt(S)[r].identity = evidence[r].identity
                   /\ Interrupt(S)[r].latest =
                        IF r \in S THEN "interrupted" ELSE evidence[r].latest
<1> USE StoreAssumption DEF TypeOK
<1>1. ASSUME NEW r \in RequestId, r \in S
      PROVE  /\ evidence[r] # None
             /\ Interrupt(S)[r] \in EvidenceDir
             /\ Interrupt(S)[r].session_id = evidence[r].session_id
             /\ Interrupt(S)[r].identity = evidence[r].identity
             /\ Interrupt(S)[r].latest = "interrupted"
  <2>1. evidence[r] \in EvidenceDir /\ evidence[r] # None
    BY <1>1 DEF Unfinished
  <2>2. Interrupt(S)[r] =
          [evidence[r] EXCEPT !.latest = "interrupted", !.response = FALSE]
    BY <1>1 DEF Interrupt
  <2>. QED
    BY <2>1, <2>2 DEF EvidenceDir, Latest, VALID_STATES
<1>2. ASSUME NEW r \in RequestId, r \notin S
      PROVE  Interrupt(S)[r] = evidence[r]
  BY <1>2 DEF Interrupt
<1>3. Interrupt(S) \in [RequestId -> EvidenceDir \cup {None}]
  <2>1. \A r \in RequestId : Interrupt(S)[r] \in EvidenceDir \cup {None}
    BY <1>1, <1>2
  <2>2. Interrupt(S) = [r \in RequestId |-> Interrupt(S)[r]]
    BY DEF Interrupt
  <2>. QED
    BY <2>1, <2>2
<1>. QED
  BY <1>1, <1>2, <1>3

(* Some of those events are written, then the process is killed again.     *)
LEMMA CrashDuringScanInv ==
  ASSUME IInv, CrashDuringScan
  PROVE  IInv'
<1> USE StoreAssumption DEF IInv, workerVars, life
<1>1. PICK S \in SUBSET {r \in RequestId : Unfinished(r)} : evidence' = Interrupt(S)
  BY DEF CrashDuringScan
<1>2. /\ ~up /\ crashes' = crashes + 1
      /\ UNCHANGED <<requests, sessions, lock, clock, faults, pc, rid, upd, up>>
      /\ UNCHANGED workerVars
  BY DEF CrashDuringScan
<1>3. /\ \A a \in Actor : AtRest(a)
      /\ \A d \in Door : queue[d] = <<>>
      /\ \A r \in RequestId : requests[r] = None
  BY <1>2 DEF DownInv
<1>4. TypeOK'
  BY <1>1, <1>2, InterruptKeeps DEF TypeOK
<1>5. LockDiscipline' /\ UpdInv' /\ DownInv'
  BY <1>2 DEF LockDiscipline, UpdInv, DownInv, AtRest
<1>6. WorkInv' /\ MemoryInv' /\ DoorInv'
  BY <1>2, <1>3 DEF WorkInv, MemoryInv, DoorInv, AtRest, Actor
<1>7. OwnerInv'
  BY <1>1, <1>2, InterruptKeeps DEF OwnerInv
<1>. QED
  BY <1>4, <1>5, <1>6, <1>7

(* A set of times has an earliest one.                                     *)
LEMMA NatHasLeast ==
  ASSUME NEW T, T \subseteq Nat, T # {}
  PROVE  \E x \in T : \A y \in T : x <= y
<1> DEFINE Below == {0..x : x \in T}
<1>1. Below \subseteq FiniteSubsetsOf(Nat)
  <2>1. \A x \in T : IsFiniteSet(0..x)
    BY FS_Interval
  <2>. QED
    BY <2>1 DEF FiniteSubsetsOf
<1>2. PICK S \in Below : \A R \in Below : ~ (<<R, S>> \in StrictSubsetOrdering(Nat))
  <2>1. Below # {}
    OBVIOUS
  <2> HIDE DEF Below
  <2>. QED
    BY <1>1, <2>1, FS_StrictSubsetOrderingWellFounded, WFMin
<1>3. PICK x \in T : S = 0..x
  OBVIOUS
<1>4. ASSUME NEW y \in T, y < x
      PROVE  FALSE
  <2>1. 0..y \subseteq 0..x /\ x \in 0..x /\ x \notin 0..y
    BY <1>4
  <2>2. <<0..y, 0..x>> \in StrictSubsetOrdering(Nat)
    BY <2>1 DEF StrictSubsetOrdering
  <2>. QED
    BY <1>2, <1>3, <2>2
<1>. QED
  BY <1>4

(* by_session[s][0] is one of the recorded requests of the session.        *)
LEMMA FirstOfRecorded ==
  ASSUME TypeOK, NEW s \in SessionId, Recorded(s) # {}
  PROVE  FirstOf(s) \in Recorded(s)
<1> DEFINE T == {evidence[r].created_at : r \in Recorded(s)}
<1>1. T \subseteq Nat /\ T # {}
  <2>1. \A r \in Recorded(s) : evidence[r].created_at \in Nat
    BY DEF TypeOK, Recorded, EvidenceDir
  <2>. QED
    BY <2>1
<1>2. PICK x \in T : \A y \in T : x <= y
  <2> HIDE DEF T
  <2>. QED
    BY <1>1, NatHasLeast
<1>3. \E r \in Recorded(s) :
        \A q \in Recorded(s) : evidence[r].created_at <= evidence[q].created_at
  BY <1>2
<1>. QED
  BY <1>3 DEF FirstOf

(* The store rebuilt from the evidence is consistent with it.              *)
LEMMA RestartInv ==
  ASSUME IInv, Restart
  PROVE  IInv'
<1> USE StoreAssumption DEF IInv, workerVars, life
<1> DEFINE S == {r \in RequestId : Unfinished(r)}
<1>1. /\ ~up /\ up' = TRUE /\ Scannable
      /\ evidence' = Interrupt(S) /\ Recover(evidence')
      /\ UNCHANGED <<lock, clock, faults, pc, rid, upd, crashes>>
      /\ UNCHANGED workerVars
  BY DEF Restart, ScanAndLoad
<1>2. /\ \A a \in Actor : AtRest(a)
      /\ \A d \in Door : queue[d] = <<>>
  BY <1>1 DEF DownInv
<1>3. \A r \in RequestId :
        IF evidence[r] = None THEN evidence'[r] = None
        ELSE /\ evidence'[r] # None
             /\ evidence'[r].session_id = evidence[r].session_id
             /\ evidence'[r].identity = evidence[r].identity
             /\ evidence'[r].latest \in TERMINAL_STATES
  BY <1>1, InterruptKeeps DEF Unfinished, TERMINAL_STATES
<1>4. evidence' \in [RequestId -> EvidenceDir \cup {None}]
  BY <1>1, InterruptKeeps
<1> HIDE DEF S
<1>5. \A r \in RequestId :
        IF evidence[r] = None THEN requests'[r] = None
        ELSE /\ requests'[r] \in Request /\ requests'[r] # None
             /\ requests'[r].session_id = evidence[r].session_id
             /\ requests'[r].identity = evidence[r].identity
  BY <1>1, <1>3 DEF Recover, TypeOK, Request, EvidenceDir, TERMINAL_STATES, VALID_STATES
<1>6. \A s \in SessionId :
        IF Recorded(s) = {} THEN sessions'[s] = None
        ELSE /\ FirstOf(s) \in RequestId /\ evidence[FirstOf(s)] # None
             /\ evidence[FirstOf(s)].session_id = s
             /\ sessions'[s] = evidence[FirstOf(s)].identity
             /\ sessions'[s] \in Identity
  BY <1>1, FirstOfRecorded DEF Recover, Recorded, TypeOK, EvidenceDir
<1>7. TypeOK'
  <2>1. requests' \in [RequestId -> Request \cup {None}]
    BY <1>1, <1>5 DEF Recover
  <2>2. sessions' \in [SessionId -> Identity \cup {None}]
    BY <1>1, <1>6 DEF Recover
  <2>. QED
    BY <1>1, <1>4, <2>1, <2>2 DEF TypeOK
<1>8. LockDiscipline' /\ UpdInv' /\ DownInv'
  BY <1>1 DEF LockDiscipline, UpdInv, DownInv
<1>9. WorkInv' /\ DoorInv'
  BY <1>1, <1>2 DEF WorkInv, DoorInv, AtRest, Actor
<1>10. MemoryInv'
  BY <1>3, <1>5 DEF MemoryInv, TERMINAL_STATES
<1>11. OwnerInv'
  <2>1. \A q, r \in RequestId :
          /\ evidence'[q] # None /\ evidence'[r] # None
          /\ evidence'[q].session_id = evidence'[r].session_id
          => OwnerKey(evidence'[q].identity) = OwnerKey(evidence'[r].identity)
    BY <1>3 DEF OwnerInv
  <2>2. ASSUME NEW r \in RequestId, evidence'[r] # None
        PROVE  /\ sessions'[evidence'[r].session_id] # None
               /\ OwnerKey(sessions'[evidence'[r].session_id]) = OwnerKey(evidence'[r].identity)
    <3> DEFINE s == evidence[r].session_id
    <3>1. evidence[r] # None /\ s \in SessionId /\ r \in Recorded(s)
      BY <1>3, <2>2 DEF TypeOK, EvidenceDir, Recorded
    <3>2. evidence'[r].session_id = s /\ evidence'[r].identity = evidence[r].identity
      BY <1>3, <2>2
    <3> HIDE DEF s
    <3>3. /\ FirstOf(s) \in RequestId /\ evidence[FirstOf(s)] # None
          /\ evidence[FirstOf(s)].session_id = s
          /\ sessions'[s] = evidence[FirstOf(s)].identity /\ sessions'[s] \in Identity
      BY <1>6, <3>1
    <3>4. OwnerKey(evidence[FirstOf(s)].identity) = OwnerKey(evidence[r].identity)
      BY <3>1, <3>3 DEF OwnerInv, s
    <3>. QED
      BY <3>2, <3>3, <3>4
  <2>. QED
    BY <2>1, <2>2 DEF OwnerInv
<1>. QED
  BY <1>7, <1>8, <1>9, <1>10, <1>11
-----------------------------------------------------------------------------
(* A step that changes nothing.                                            *)
LEMMA StutterInv ==
  ASSUME IInv, UNCHANGED vars
  PROVE  IInv'
<1> USE DEF vars, storeVars, workerVars, life
<1>1. TypeOK'
  BY DEF IInv, TypeOK
<1>2. LockDiscipline' /\ WorkInv' /\ UpdInv'
  BY DEF IInv, LockDiscipline, WorkInv, UpdInv, AtRest, Recording
<1>3. MemoryInv' /\ OwnerInv' /\ DoorInv' /\ DownInv'
  BY DEF IInv, MemoryInv, OwnerInv, DoorInv, DownInv, AtRest
<1>. QED
  BY <1>1, <1>2, <1>3 DEF IInv

(* Every step of the agent keeps IInv.                                     *)
LEMMA NextInv == IInv /\ [Next]_vars => IInv'
<1> SUFFICES ASSUME IInv, [Next]_vars PROVE IInv'
  OBVIOUS
<1>1. ASSUME NEW t \in Thread, HandlerStart(t) PROVE IInv'
  BY <1>1, HandlerStartInv
<1>2. ASSUME NEW t \in Thread, HandlerStep(t) PROVE IInv'
  <2>1. t \in Actor
    BY DEF Actor
  <2>2. CASE HandlerRecord(t)
    BY <2>2, WriteJsonInv, RecordQueuedInv DEF HandlerRecord
  <2>3. CASE Enqueue(t)
    BY <2>3, EnqueueInv
  <2>4. CASE HandlerUpdate(t)
    BY <2>1, <2>4, SetStateInv, AppendEventInv DEF HandlerUpdate
  <2>. QED
    BY <1>2, <2>2, <2>3, <2>4, HandlerQuiet DEF HandlerStep
<1>3. ASSUME NEW t \in Thread, HandlerFails(t) PROVE IInv'
  BY <1>3, HandlerFailsInv
<1>4. ASSUME NEW d \in Door, WorkerStep(d) PROVE IInv'
  <2>1. d \in Actor
    BY DEF Actor
  <2>2. CASE Get(d)
    BY <2>2, GetInv
  <2>3. CASE WorkerUpdate(d)
    BY <2>1, <2>3, SetStateInv, SetResponseInv, AppendEventInv DEF WorkerUpdate
  <2>. QED
    BY <1>4, <2>2, <2>3, WorkerQuiet DEF WorkerStep
<1>5. ASSUME NEW d \in Door, WorkerAppendFails(d) PROVE IInv'
  BY <1>5, WorkerAppendFailsInv
<1>6. CASE Crash \/ CrashDuringScan \/ Restart
  BY <1>6, CrashInv, CrashDuringScanInv, RestartInv
<1>7. CASE UNCHANGED vars
  BY <1>7, StutterInv
<1>. QED
  BY <1>1, <1>2, <1>3, <1>4, <1>5, <1>6, <1>7 DEF Next

(* In every reachable state the agent's bookkeeping is consistent: who     *)
(* works on what, who holds the lock, and what memory has beside disk.     *)
THEOREM Invariance == Spec => []IInv
<1>. QED
  BY InitInv, NextInv, PTL DEF Spec
-----------------------------------------------------------------------------
(* Every variable of the agent keeps its type.                             *)
THEOREM TypeCorrect == Spec => []TypeOK
<1>1. IInv => TypeOK
  BY DEF IInv
<1>. QED
  BY <1>1, Invariance, PTL

(* `with self._lock:` - the lock is held exactly by the actor inside a     *)
(* locked block of the store, whichever way such a block is left.          *)
THEOREM LockCorrect == Spec => []LockDiscipline
<1>1. IInv => LockDiscipline
  BY DEF IInv
<1>. QED
  BY <1>1, Invariance, PTL

(* create_session_and_request and continue_session return only what is on  *)
(* disk with its first event: a request in memory is durable.              *)
THEOREM AcceptedDurable == Spec => []AcceptedIsDurable
<1>1. IInv => AcceptedIsDurable
  BY DEF IInv, MemoryInv, AcceptedIsDurable
<1>. QED
  BY <1>1, Invariance, PTL

(* continue_session's owner check, and scan_and_load's owner of a session, *)
(* agree: no history of calls and restarts gives a session a second owner. *)
THEOREM OneOwner == Spec => []SessionHasOneOwner
<1>1. IInv => SessionHasOneOwner
  <2> SUFFICES ASSUME IInv, up, NEW r \in RequestId, requests[r] # None
               PROVE  /\ sessions[requests[r].session_id] # None
                      /\ OwnerKey(sessions[requests[r].session_id]) =
                            OwnerKey(requests[r].identity)
    BY DEF SessionHasOneOwner
  <2>. QED
    BY DEF IInv, MemoryInv, OwnerInv
<1>. QED
  BY <1>1, Invariance, PTL

(* A request that a door's worker may run is in a session of that door.    *)
LEMMA SessionOfDoor ==
  ASSUME IInv, up, NEW d \in Door, NEW r \in RequestId, requests[r] # None,
         evidence[r].identity.class = d
  PROVE  sessions[requests[r].session_id].class = d
<1>1. /\ requests[r].session_id = evidence[r].session_id /\ evidence[r] # None
      /\ requests[r].session_id \in SessionId
  BY StoreAssumption DEF IInv, MemoryInv, TypeOK, Request
<1>2. /\ sessions[requests[r].session_id] \in Identity
      /\ evidence[r].identity \in Identity
      /\ OwnerKey(sessions[requests[r].session_id]) = OwnerKey(evidence[r].identity)
  BY <1>1, StoreAssumption DEF IInv, OwnerInv, TypeOK, EvidenceDir
<1>. QED
  BY <1>2, OwnerKeyFixesClass

(* main.py gives each listener its own worker, and with it its own runner  *)
(* and tools; continue_session's check is what keeps a session at its door.*)
THEOREM DoorsApart == Spec => []OwnDoor
<1>1. IInv => OwnDoor
  <2> SUFFICES ASSUME IInv, up, NEW d \in Door, NEW r \in RequestId,
                      InQueue(d, r) \/ Taken(d, r)
               PROVE  sessions[requests[r].session_id].class = d
    BY DEF OwnDoor
  <2>1. requests[r] # None /\ evidence[r].identity.class = d
    <3>1. CASE InQueue(d, r)
      BY <3>1 DEF InQueue, IInv, DoorInv
    <3>2. CASE Taken(d, r)
      BY <3>2 DEF Taken, AtRest, Recording, WorkerLabel, Actor, IInv, TypeOK, DoorInv, WorkInv
    <3>. QED
      BY <3>1, <3>2
  <2>. QED
    BY <2>1, SessionOfDoor
<1>. QED
  BY <1>1, Invariance, PTL

(* "Turns within a session are serialized": though each door has a worker  *)
(* of its own, two of them never run turns of one session together.        *)
THEOREM Serialized == Spec => []TurnsSerialized
<1>1. IInv => TurnsSerialized
  <2> SUFFICES ASSUME IInv, NEW d \in Door, NEW e \in Door, Running(d), Running(e), d # e
               PROVE  requests[rid[d]].session_id # requests[rid[e]].session_id
    BY DEF TurnsSerialized
  <2>1. up
    BY DEF IInv, DownInv, AtRest, Running, Actor
  <2>2. \A x \in {d, e} : /\ rid[x] \in RequestId /\ requests[rid[x]] # None
                          /\ evidence[rid[x]].identity.class = x
    BY DEF IInv, WorkInv, DoorInv, AtRest, Recording, Running, Actor
  <2>3. \A x \in {d, e} : sessions[requests[rid[x]].session_id].class = x
    BY <2>1, <2>2, SessionOfDoor
  <2>. QED
    BY <2>3
<1>. QED
  BY <1>1, Invariance, PTL
-----------------------------------------------------------------------------
(***************************************************************************)
(* A request is in one place at a time, so it is served at most once and   *)
(* always finished: for any number of threads, requests, sessions, kills   *)
(* and failing writes.                                                     *)
(***************************************************************************)

CreatedBy(t, r) == rid[t] = r /\ pc[t] \in {"write_json", "record_queued", "enqueue"}

(* A request is in a queue once, or with one worker, or being created.     *)
Hold ==
  /\ \A d \in Door : \A k, l \in 1..Len(queue[d]) : queue[d][k] = queue[d][l] => k = l
  /\ \A d \in Door, r \in RequestId : Taken(d, r) => ~InQueue(d, r)
  /\ \A t \in Thread, r \in RequestId : CreatedBy(t, r) =>
       /\ \A d \in Door : ~InQueue(d, r) /\ ~Taken(d, r)
       /\ \A u \in Thread : CreatedBy(u, r) => u = t

(* What is queued or taken is of that door, and in memory.                 *)
LEMMA OfOneDoor ==
  ASSUME IInv, NEW d \in Door, NEW e \in Door, NEW r,
         InQueue(d, r) \/ Taken(d, r), InQueue(e, r) \/ Taken(e, r)
  PROVE  d = e
<1>1. ASSUME NEW x \in Door, InQueue(x, r) \/ Taken(x, r) PROVE evidence[r].identity.class = x
  <2>1. CASE InQueue(x, r)
    BY <2>1 DEF IInv, DoorInv, InQueue
  <2>2. CASE Taken(x, r)
    <3>1. ~ AtRest(x) /\ rid[x] = r
      BY <2>2 DEF IInv, TypeOK, Taken, AtRest, WorkerLabel
    <3> QED
      BY <3>1 DEF IInv, DoorInv
  <2> QED
    BY <1>1, <2>1, <2>2
<1> QED
  BY <1>1

LEMMA HeldIsInMemory ==
  ASSUME IInv, NEW d \in Door, NEW r, InQueue(d, r) \/ Taken(d, r)
  PROVE  r \in RequestId /\ requests[r] # None
<1>1. CASE InQueue(d, r)
  <2>1. queue[d] \in Seq(RequestId)
    BY DEF IInv, TypeOK
  <2> QED
    BY <1>1, <2>1 DEF IInv, DoorInv, InQueue
<1>2. CASE Taken(d, r)
  <2>1. d \in Actor /\ ~AtRest(d) /\ ~Recording(d) /\ rid[d] = r
    BY <1>2 DEF IInv, TypeOK, Taken, AtRest, Recording, WorkerLabel, Actor
  <2> QED
    BY <2>1 DEF IInv, WorkInv
<1> QED
  BY <1>1, <1>2

LEMMA CreatedIsOnDisk ==
  ASSUME IInv, NEW t \in Thread, NEW r, CreatedBy(t, r)
  PROVE  r \in RequestId /\ evidence[r] # None
BY DEF IInv, WorkInv, CreatedBy, AtRest, Actor

(* A step after which nobody has anything new.                             *)
LEMMA HoldKeeps ==
  ASSUME Hold, queue' = queue,
         \A d \in Door, r \in RequestId : Taken(d, r)' => Taken(d, r),
         \A t \in Thread, r \in RequestId : CreatedBy(t, r)' => CreatedBy(t, r)
  PROVE  Hold'
<1>1. \A d \in Door, r \in RequestId : InQueue(d, r)' <=> InQueue(d, r)
  BY DEF InQueue
<1> QED
  BY <1>1 DEF Hold

(* Where one actor's step may take it: on, or to rest; and not to a        *)
(* request it did not have.                                                *)
Onward(a) ==
  /\ pc' = [pc EXCEPT ![a] = pc'[a]]
  /\ rid' = rid \/ rid' = [rid EXCEPT ![a] = None]
  /\ a \in Door => pc[a] \notin {"get", "dead"}
  /\ pc'[a] \in {"write_json", "record_queued", "enqueue"} =>
       pc[a] \in {"write_json", "record_queued", "enqueue"}

LEMMA OnwardTakesNothing ==
  ASSUME IInv, NEW a \in Actor, Onward(a)
  PROVE  /\ \A d \in Door, r \in RequestId : Taken(d, r)' => Taken(d, r)
         /\ \A t \in Thread, r \in RequestId : CreatedBy(t, r)' => CreatedBy(t, r)
<1>1. /\ \A b \in Actor \ {a} : pc'[b] = pc[b] /\ rid'[b] = rid[b]
      /\ rid'[a] \in {rid[a], None} /\ None \notin RequestId
  BY StoreAssumption DEF Onward, IInv, TypeOK
<1> QED
  BY <1>1 DEF Onward, Taken, CreatedBy, Actor

(* The steps that take or make nothing.                                    *)
LEMMA HandlerIsOnward ==
  ASSUME IInv, NEW t \in Thread, HandlerStep(t) \/ HandlerFails(t), ~ Enqueue(t)
  PROVE  Onward(t) /\ queue' = queue
<1> USE DEF IInv, TypeOK, Onward, Go, workerVars, Actor
<1>0. t \notin Door
  BY StoreAssumption
<1>1. CASE HandlerRecord(t)
  BY <1>0, <1>1 DEF HandlerRecord, WriteJson, RecordQueued, InsertRequest
<1>2. CASE CancelTerminal(t) \/ CancelQueued(t) \/ CancelFlag(t) \/ CancelLookup(t) \/ AsDict(t)
  BY <1>0, <1>2 DEF CancelTerminal, CancelQueued, CancelFlag, CancelLookup, AsDict, CallUpdate, GetRequest
<1>3. CASE HandlerUpdate(t)
  BY <1>0, <1>3 DEF HandlerUpdate, SetState, AppendEvent, AfterUpdate
<1>4. CASE HandlerFails(t)
  BY <1>0, <1>4 DEF HandlerFails, RecordCreatedFails, AppendFails
<1> QED
  BY <1>1, <1>2, <1>3, <1>4 DEF HandlerStep

LEMMA WorkerIsOnward ==
  ASSUME IInv, NEW d \in Door, WorkerStep(d) \/ WorkerAppendFails(d), ~ Get(d)
  PROVE  Onward(d) /\ queue' = queue
<1> USE DEF IInv, TypeOK, Onward, Go, workerVars, Actor
<1>0. d \notin Thread
  BY StoreAssumption
<1>1. CASE Lookup(d) \/ Check(d) \/ CheckFlag(d) \/ Compose(d)
  BY <1>1 DEF Lookup, Check, CheckFlag, Compose, CallUpdate, GetRequest
<1>2. CASE RunEnds(d) \/ RunRaises(d) \/ Clear(d)
  BY <1>2 DEF RunEnds, RunRaises, Clear, CallUpdate
<1>3. CASE WorkerUpdate(d)
  BY <1>0, <1>3 DEF WorkerUpdate, SetState, SetResponse, AppendEvent, AfterUpdate
<1>4. CASE WorkerAppendFails(d)
  BY <1>4 DEF WorkerAppendFails, AppendFails, CallUpdate
<1> QED
  BY <1>1, <1>2, <1>3, <1>4 DEF WorkerStep
-----------------------------------------------------------------------------
(* A new request is nobody's yet.                                          *)
LEMMA NewIsNew ==
  ASSUME IInv, NEW r \in RequestId, evidence[r] = None
  PROVE  /\ \A d \in Door : ~ InQueue(d, r) /\ ~ Taken(d, r)
         /\ \A t \in Thread : ~ CreatedBy(t, r)
<1>1. requests[r] = None
  BY DEF IInv, MemoryInv
<1> QED
  BY <1>1, HeldIsInMemory, CreatedIsOnDisk

LEMMA NewRequestHold ==
  ASSUME IInv, Hold, NEW t \in Thread, NEW s, NEW i, NEW r \in RequestId,
         NewRequest(t, s, i, r), UNCHANGED workerVars, pc[t] = "idle"
  PROVE  Hold'
<1>1. /\ pc'[t] = "write_json" /\ rid'[t] = r /\ evidence[r] = None
      /\ \A a \in Actor \ {t} : pc'[a] = pc[a] /\ rid'[a] = rid[a]
      /\ UNCHANGED queue /\ t \in Actor /\ t \notin Door
  BY StoreAssumption DEF NewRequest, Go, IInv, TypeOK, workerVars, Actor
<1>2. /\ \A d \in Door, q \in RequestId : (InQueue(d, q)' <=> InQueue(d, q)) /\ (Taken(d, q)' <=> Taken(d, q))
      /\ \A u \in Thread \ {t}, q \in RequestId : CreatedBy(u, q)' <=> CreatedBy(u, q)
      /\ \A q \in RequestId : CreatedBy(t, q)' <=> q = r
  BY <1>1 DEF InQueue, Taken, CreatedBy, Actor
<1> QED
  BY <1>1, <1>2, NewIsNew DEF Hold

LEMMA EnqueueHold ==
  ASSUME IInv, Hold, NEW t \in Thread, Enqueue(t)
  PROVE  /\ Hold'
         /\ \A d \in Door, q \in RequestId :
              InQueue(d, q)' <=> InQueue(d, q) \/ (d = WorkerOf(t) /\ q = rid[t])
         /\ WorkerOf(t) \in Door /\ rid[t] \in RequestId /\ CreatedBy(t, rid[t])
         /\ \A a \in Actor \ {t} : pc'[a] = pc[a] /\ rid'[a] = rid[a]
         /\ pc'[t] = "idle"
<1>1. pc[t] = "enqueue" /\ CreatedBy(t, rid[t]) /\ t \in Actor /\ t \notin Door
  BY StoreAssumption DEF Enqueue, EnqueueAt, CreatedBy, Actor
<1> PICK r : r = rid[t]
  OBVIOUS
<1>2. r \in RequestId /\ requests[r] # None /\ r # None
  BY <1>1, CreatedIsOnDisk, StoreAssumption DEF IInv, WorkInv, AtRest, Recording
<1>3. WorkerOf(t) \in Door
  BY <1>2, StoreAssumption DEF IInv, TypeOK, WorkerOf, Request, Identity
<1> PICK e \in Door : e = WorkerOf(t)
  BY <1>3
<1>4. /\ pc'[t] = "idle" /\ rid'[t] = None
      /\ \A a \in Actor \ {t} : pc'[a] = pc[a] /\ rid'[a] = rid[a]
      /\ queue' = [queue EXCEPT ![e] = Append(queue[e], r)]
  BY <1>1 DEF Enqueue, EnqueueAt, Put, Go, IInv, TypeOK
<1>5. queue \in [Door -> Seq(RequestId)]
  BY DEF IInv, TypeOK
<1>6. /\ \A d \in Door \ {e} : queue'[d] = queue[d]
      /\ queue'[e] = Append(queue[e], r) /\ Len(queue'[e]) = Len(queue[e]) + 1
      /\ \A k \in 1..Len(queue[e]) : queue'[e][k] = queue[e][k]
      /\ queue'[e][Len(queue[e]) + 1] = r /\ Len(queue[e]) \in Nat
  BY <1>2, <1>3, <1>4, <1>5
<1>7. \A d \in Door, q \in RequestId : InQueue(d, q)' <=> InQueue(d, q) \/ (d = e /\ q = r)
  <2>1. \A q \in RequestId : InQueue(e, q)' <=> InQueue(e, q) \/ q = r
    <3>1. ASSUME NEW q \in RequestId, InQueue(e, q)' PROVE InQueue(e, q) \/ q = r
      <4>1. PICK k \in 1..Len(queue'[e]) : queue'[e][k] = q
        BY <3>1 DEF InQueue
      <4>2. k \in 1..Len(queue[e]) \/ k = Len(queue[e]) + 1
        BY <1>6
      <4> QED
        BY <1>6, <4>1, <4>2 DEF InQueue
    <3>2. ASSUME NEW q \in RequestId, InQueue(e, q) PROVE InQueue(e, q)'
      <4>1. PICK k \in 1..Len(queue[e]) : queue[e][k] = q
        BY <3>2 DEF InQueue
      <4>2. k \in 1..Len(queue'[e]) /\ queue'[e][k] = q
        BY <1>6, <4>1
      <4> QED
        BY <4>2 DEF InQueue
    <3>3. InQueue(e, r)'
      <4>1. Len(queue[e]) + 1 \in 1..Len(queue'[e])
        BY <1>6
      <4> QED
        BY <1>6, <4>1 DEF InQueue
    <3> QED
      BY <3>1, <3>2, <3>3
  <2>2. \A d \in Door \ {e} : \A q \in RequestId : InQueue(d, q)' <=> InQueue(d, q)
    BY <1>6 DEF InQueue
  <2> QED
    BY <2>1, <2>2
<1>8. /\ \A d \in Door, q \in RequestId : Taken(d, q)' <=> Taken(d, q)
      /\ \A u \in Thread, q \in RequestId : CreatedBy(u, q)' <=> u # t /\ CreatedBy(u, q)
  BY <1>1, <1>4 DEF Taken, CreatedBy, Actor
<1>9. /\ \A d \in Door : ~ InQueue(d, r) /\ ~ Taken(d, r)
      /\ \A u \in Thread : CreatedBy(u, r) => u = t
  BY <1>1, <1>2 DEF Hold
<1>10. \A d \in Door : \A k, l \in 1..Len(queue'[d]) : queue'[d][k] = queue'[d][l] => k = l
  <2>1. \A k \in 1..Len(queue[e]) : queue[e][k] # r
    BY <1>3, <1>9 DEF InQueue
  <2>2. \A k, l \in 1..Len(queue'[e]) : queue'[e][k] = queue'[e][l] => k = l
    <3> SUFFICES ASSUME NEW k \in 1..Len(queue[e]) + 1, NEW l \in 1..Len(queue[e]) + 1, queue'[e][k] = queue'[e][l]
                 PROVE  k = l
      BY <1>6
    <3>1. CASE k \in 1..Len(queue[e]) /\ l \in 1..Len(queue[e])
      BY <1>3, <1>6, <3>1 DEF Hold
    <3>2. CASE k = Len(queue[e]) + 1 \/ l = Len(queue[e]) + 1
      BY <1>6, <2>1, <3>2
    <3> QED
      BY <1>6, <3>1, <3>2
  <2>3. ASSUME NEW d \in Door, d # e
        PROVE  \A k, l \in 1..Len(queue'[d]) : queue'[d][k] = queue'[d][l] => k = l
    <3>1. queue'[d] = queue[d]
      BY <1>6, <2>3
    <3> QED
      BY <3>1 DEF Hold
  <2> QED
    BY <2>2, <2>3
<1>11. Hold'
  BY <1>7, <1>8, <1>9, <1>10 DEF Hold
<1> QED
  BY <1>1, <1>2, <1>3, <1>4, <1>7, <1>11

LEMMA GetHold ==
  ASSUME IInv, Hold, NEW d \in Door, Get(d)
  PROVE  /\ Hold'
         /\ \A e \in Door, q \in RequestId :
              /\ InQueue(e, q)' <=> InQueue(e, q) /\ ~ (e = d /\ q = rid'[d])
              /\ Taken(e, q)' <=> Taken(e, q) \/ (e = d /\ q = rid'[d])
         /\ InQueue(d, rid'[d]) /\ rid'[d] \in RequestId
<1> DEFINE r == Head(queue[d])
<1>1. /\ queue[d] \in Seq(RequestId) /\ queue[d] # <<>> /\ queue \in [Door -> Seq(RequestId)]
      /\ pc[d] = "get" /\ pc'[d] = "lookup" /\ rid'[d] = r
      /\ \A a \in Actor \ {d} : pc'[a] = pc[a] /\ rid'[a] = rid[a]
      /\ queue' = [queue EXCEPT ![d] = Tail(queue[d])] /\ d \notin Thread
  BY StoreAssumption DEF Get, Go, IInv, TypeOK, Actor
<1>2. /\ Len(queue[d]) \in Nat \ {0} /\ r = queue[d][1] /\ r \in RequestId
      /\ queue'[d] = Tail(queue[d]) /\ \A e \in Door \ {d} : queue'[e] = queue[e]
      /\ Len(queue'[d]) = Len(queue[d]) - 1
      /\ \A k \in 1..Len(queue'[d]) : queue'[d][k] = queue[d][k + 1]
  BY <1>1
<1> HIDE DEF r
<1>3. InQueue(d, r)
  BY <1>2 DEF InQueue
<1>4. \A k, l \in 1..Len(queue[d]) : queue[d][k] = queue[d][l] => k = l
  BY DEF Hold
<1>5. \A q \in RequestId : InQueue(d, q)' <=> InQueue(d, q) /\ q # r
  <2>1. ASSUME NEW q \in RequestId, InQueue(d, q)' PROVE InQueue(d, q) /\ q # r
    <3>1. PICK k \in 1..Len(queue'[d]) : queue'[d][k] = q
      BY <2>1 DEF InQueue
    <3>2. k + 1 \in 1..Len(queue[d]) /\ queue[d][k + 1] = q /\ k + 1 # 1 /\ 1 \in 1..Len(queue[d])
      BY <1>2, <3>1
    <3> QED
      BY <1>2, <1>4, <3>2 DEF InQueue
  <2>2. ASSUME NEW q \in RequestId, InQueue(d, q), q # r PROVE InQueue(d, q)'
    <3>1. PICK k \in 1..Len(queue[d]) : queue[d][k] = q
      BY <2>2 DEF InQueue
    <3>2. k # 1 /\ k - 1 \in 1..Len(queue'[d]) /\ queue'[d][k - 1] = q
      BY <1>2, <2>2, <3>1
    <3> QED
      BY <3>2 DEF InQueue
  <2> QED
    BY <2>1, <2>2
<1>6. \A e \in Door, q \in RequestId : e # d => (InQueue(e, q)' <=> InQueue(e, q))
  BY <1>2 DEF InQueue
<1>7. \A e \in Door, q \in RequestId : Taken(e, q)' <=> Taken(e, q) \/ (e = d /\ q = r)
  BY <1>1 DEF Taken, Actor
<1>8. \A u \in Thread, q \in RequestId : CreatedBy(u, q)' <=> CreatedBy(u, q)
  BY <1>1 DEF CreatedBy, Actor
<1>9. \A e \in Door : e # d => ~ InQueue(e, r)
  BY <1>3, OfOneDoor
<1>10. \A e \in Door : \A k, l \in 1..Len(queue'[e]) : queue'[e][k] = queue'[e][l] => k = l
  <2>1. \A k, l \in 1..Len(queue'[d]) : queue'[d][k] = queue'[d][l] => k = l
    <3> SUFFICES ASSUME NEW k \in 1..Len(queue'[d]), NEW l \in 1..Len(queue'[d]), queue'[d][k] = queue'[d][l]
                 PROVE  k = l
      OBVIOUS
    <3>1. k + 1 \in 1..Len(queue[d]) /\ l + 1 \in 1..Len(queue[d]) /\ queue[d][k + 1] = queue[d][l + 1]
      BY <1>2
    <3> QED
      BY <1>2, <1>4, <3>1
  <2> QED
    BY <1>2, <2>1 DEF Hold
<1>11. \A u \in Thread : ~ CreatedBy(u, r)
  BY <1>2, <1>3 DEF Hold
<1>12. Hold'
  BY <1>5, <1>6, <1>7, <1>8, <1>9, <1>10, <1>11 DEF Hold
<1> QED
  BY <1>1, <1>2, <1>3, <1>5, <1>6, <1>7, <1>12

(* A process that was just killed, or just started, holds nothing.         *)
LEMMA RestHolds ==
  ASSUME \A d \in Door : queue[d] = <<>>, \A a \in Actor : AtRest(a)
  PROVE  /\ Hold
         /\ \A d \in Door, r \in RequestId : ~ InQueue(d, r)
         /\ \A a \in Actor : pc[a] \in {"idle", "get"}
BY DEF Hold, InQueue, Taken, CreatedBy, AtRest, Actor

LEMMA LifeRests ==
  ASSUME IInv, Crash \/ CrashDuringScan \/ Restart
  PROVE  (\A d \in Door : queue'[d] = <<>>) /\ \A a \in Actor : AtRest(a)'
<1>1. CASE Crash
  BY <1>1, StoreAssumption DEF Crash, FreshProcess, AtRest, Actor
<1>2. CASE CrashDuringScan \/ Restart
  BY <1>2 DEF CrashDuringScan, Restart, workerVars, IInv, DownInv, AtRest
<1> QED
  BY <1>1, <1>2

LEMMA NextHold ==
  ASSUME IInv, Hold, [Next]_vars
  PROVE  Hold'
<1>1. ASSUME NEW t \in Thread, HandlerStart(t) PROVE Hold'
  <2> PICK i \in Callers, r \in RequestId :
        \/ \E s \in SessionId : StartRequest(t, i, s, r) \/ ContinueRequest(t, i, s, r)
        \/ CancelRequest(t, i, r)
    BY <1>1 DEF HandlerStart
  <2>1. CASE \E s \in SessionId : StartRequest(t, i, s, r) \/ ContinueRequest(t, i, s, r)
    BY <2>1, NewRequestHold
       DEF StartRequest, ContinueRequest, CreateSessionAndRequest, ContinueSession, Accepts
  <2>2. CASE CancelRequest(t, i, r)
    <3>1. /\ queue' = queue /\ pc'[t] = "cancel"
          /\ \A a \in Actor \ {t} : pc'[a] = pc[a] /\ rid'[a] = rid[a]
          /\ t \notin Door
      BY <2>2, StoreAssumption DEF CancelRequest, Go, workerVars, IInv, TypeOK, Actor
    <3>2. /\ \A d \in Door, q \in RequestId : Taken(d, q)' => Taken(d, q)
          /\ \A u \in Thread, q \in RequestId : CreatedBy(u, q)' => CreatedBy(u, q)
      BY <3>1 DEF Taken, CreatedBy, Actor
    <3> QED
      BY <3>1, <3>2, HoldKeeps
  <2> QED
    BY <2>1, <2>2
<1>2. ASSUME NEW t \in Thread, HandlerStep(t) \/ HandlerFails(t) PROVE Hold'
  BY <1>2, EnqueueHold, HandlerIsOnward, OnwardTakesNothing, HoldKeeps DEF Actor
<1>3. ASSUME NEW d \in Door, WorkerStep(d) \/ WorkerAppendFails(d) PROVE Hold'
  BY <1>3, GetHold, WorkerIsOnward, OnwardTakesNothing, HoldKeeps DEF Actor
<1>4. CASE Crash \/ CrashDuringScan \/ Restart
  <2>1. /\ \A d \in Door : queue'[d] = <<>>
        /\ \A a \in Actor : AtRest(a)'
    BY <1>4, LifeRests
  <2> QED
    BY <2>1 DEF Hold, InQueue, Taken, CreatedBy, AtRest, Actor
<1>5. CASE UNCHANGED vars
  BY <1>5 DEF vars, storeVars, workerVars, Hold, InQueue, Taken, CreatedBy
<1> QED
  BY <1>1, <1>2, <1>3, <1>4, <1>5 DEF Next
-----------------------------------------------------------------------------
(* How far a request has come by where it is.  Only its worker makes it    *)
(* running, once; a worker that is done with it leaves it over.            *)
Progress ==
  /\ \A d \in Door, r \in RequestId : InQueue(d, r) => requests[r].state # "running"
  /\ \A t \in Thread : pc[t] = "enqueue" => requests[rid[t]].state # "running"
  /\ \A d \in Door :
       /\ pc[d] \in {"lookup", "check", "check_flag"} => requests[rid[d]].state # "running"
       /\ pc[d] \in {"update", "set_response", "append_event"} => upd[d].state # "queued"
       /\ pc[d] \in {"set_response", "append_event"} => requests[rid[d]].state = upd[d].state
       /\ pc[d] = "clear" => Terminal(rid[d])
  /\ \A t \in Thread : pc[t] = "update" => upd[t].state = "cancelled"

(* Somebody has every request that is not over.                            *)
Kept ==
  up /\ (\A d \in Door : pc[d] # "dead") =>
    \A r \in RequestId : requests[r] # None => InHand(r) \/ Terminal(r)

(* A step of a that leaves the requests, and everybody else, as they are.  *)
Still(a) ==
  /\ UNCHANGED <<requests, queue>>
  /\ \A b \in Actor \ {a} : pc'[b] = pc[b] /\ rid'[b] = rid[b] /\ upd'[b] = upd[b]

ProgressOf(d) ==
  /\ pc[d] \in {"lookup", "check", "check_flag"} => requests[rid[d]].state # "running"
  /\ pc[d] \in {"update", "set_response", "append_event"} => upd[d].state # "queued"
  /\ pc[d] \in {"set_response", "append_event"} => requests[rid[d]].state = upd[d].state
  /\ pc[d] = "clear" => Terminal(rid[d])

LEMMA WorkerStill ==
  ASSUME Progress, NEW d \in Door, Still(d), ProgressOf(d)'
  PROVE  Progress'
<1>1. \A t \in Thread : pc'[t] = pc[t] /\ rid'[t] = rid[t] /\ upd'[t] = upd[t]
  BY StoreAssumption DEF Still, Actor
<1>2. \A e \in Door \ {d} : pc'[e] = pc[e] /\ rid'[e] = rid[e] /\ upd'[e] = upd[e]
  BY DEF Still, Actor
<1>3. \A e \in Door : \A r : InQueue(e, r)' <=> InQueue(e, r)
  BY DEF Still, InQueue
<1> QED
  BY <1>1, <1>2, <1>3 DEF Progress, ProgressOf, Still, Terminal

LEMMA ThreadStill ==
  ASSUME Progress, NEW t \in Thread, Still(t),
         pc'[t] = "enqueue" => requests'[rid'[t]].state # "running",
         pc'[t] = "update" => upd'[t].state = "cancelled"
  PROVE  Progress'
<1>1. \A d \in Door : pc'[d] = pc[d] /\ rid'[d] = rid[d] /\ upd'[d] = upd[d]
  BY StoreAssumption DEF Still, Actor
<1>2. \A u \in Thread \ {t} : pc'[u] = pc[u] /\ rid'[u] = rid[u] /\ upd'[u] = upd[u]
  BY DEF Still, Actor
<1>3. \A e \in Door : \A r : InQueue(e, r)' <=> InQueue(e, r)
  BY DEF Still, InQueue
<1> QED
  BY <1>1, <1>2, <1>3 DEF Progress, Still, Terminal

(* Who has a request in hand has it still, unless it is the one that moves.*)
LEMMA KeptStill ==
  ASSUME IInv, Kept, NEW a \in Actor, Still(a), up' = up,
         \/ pc'[a] = "dead" /\ a \in Door
         \/ pc[a] # "dead" /\ pc'[a] # "dead"
            /\ \A r \in RequestId :
                 requests[r] # None /\ rid[a] = r /\ ~ Terminal(r) =>
                   \/ a \in Thread /\ ~ CreatedBy(a, r)
                   \/ a \in Thread /\ CreatedBy(a, r)'
                   \/ a \in Door /\ ~ Taken(a, r)
                   \/ a \in Door /\ Taken(a, r)'
  PROVE  Kept'
<1>1. \A b \in Actor \ {a} : pc'[b] = pc[b] /\ rid'[b] = rid[b]
  BY DEF Still
<1>2. \A d \in Door : \A r : InQueue(d, r)' <=> InQueue(d, r)
  BY DEF Still, InQueue
<1>3. CASE pc'[a] = "dead" /\ a \in Door
  BY <1>3 DEF Kept
<1>4. ASSUME pc[a] # "dead", pc'[a] # "dead",
             NEW r \in RequestId, requests[r] # None, InHand(r), ~ Terminal(r),
             \/ a \in Thread /\ ~ CreatedBy(a, r)
             \/ a \in Thread /\ CreatedBy(a, r)'
             \/ a \in Door /\ ~ Taken(a, r)
             \/ a \in Door /\ Taken(a, r)'
      PROVE  InHand(r)'
  <2>1. CASE \E d \in Door : InQueue(d, r)
    BY <1>2, <2>1 DEF InHand
  <2>2. ASSUME NEW d \in Door, Taken(d, r) PROVE InHand(r)'
    <3>1. Taken(d, r)'
      BY <1>1, <1>4, <2>2, StoreAssumption DEF Taken, Actor
    <3> QED
      BY <3>1 DEF InHand
  <2>3. ASSUME NEW t \in Thread, CreatedBy(t, r) PROVE InHand(r)'
    <3>1. CreatedBy(t, r)'
      BY <1>1, <1>4, <2>3, StoreAssumption DEF CreatedBy, Actor
    <3> QED
      BY <3>1 DEF InHand, Creating, CreatedBy
  <2> QED
    BY <1>4, <2>1, <2>2, <2>3 DEF InHand, Creating, CreatedBy
<1>5. CASE pc[a] # "dead" /\ pc'[a] # "dead"
  <2>1. (\A d \in Door : pc'[d] # "dead") => \A d \in Door : pc[d] # "dead"
    BY <1>1, <1>5 DEF Actor
  <2>2. \A r \in RequestId : requests'[r] = requests[r] /\ (Terminal(r)' <=> Terminal(r))
    BY DEF Still, Terminal
  <2> SUFFICES ASSUME up, \A d \in Door : pc[d] # "dead", NEW r \in RequestId, requests[r] # None, ~ Terminal(r)
               PROVE  InHand(r)'
    BY <2>1, <2>2 DEF Kept
  <2>3. InHand(r)
    BY DEF Kept
  <2>4. CASE rid[a] # r
    BY <1>4, <1>5, <2>3, <2>4 DEF Taken, CreatedBy, Actor
  <2> QED
    BY <1>4, <1>5, <2>3, <2>4 DEF Actor
<1> QED
  BY <1>3, <1>5
LEMMA WorkerStillServes ==
  ASSUME IInv, Progress, Kept, NEW d \in Door,
         \/ Lookup(d) \/ Check(d) \/ CheckFlag(d) \/ Compose(d) \/ RunEnds(d) \/ RunRaises(d) \/ Clear(d)
         \/ AppendEvent(d) /\ UNCHANGED workerVars
         \/ WorkerAppendFails(d)
  PROVE  Progress' /\ Kept'
<1>0. d \in Actor /\ d \notin Thread /\ up' = up
  BY StoreAssumption DEF Actor, Lookup, Check, CheckFlag, Compose, RunEnds, RunRaises, Clear, AppendEvent,
                         WorkerAppendFails, AppendFails, GetRequest, life
<1>1. Still(d)
  BY <1>0 DEF Still, Lookup, Check, CheckFlag, Compose, RunEnds, RunRaises, Clear, AppendEvent, WorkerAppendFails,
              AppendFails, GetRequest, CallUpdate, Go, workerVars, IInv, TypeOK
<1>2. pc[d] \notin {"get", "dead"} /\ (pc'[d] \in {"get", "dead"} \/ rid'[d] = rid[d])
  BY <1>0 DEF Lookup, Check, CheckFlag, Compose, RunEnds, RunRaises, Clear, AppendEvent, WorkerAppendFails,
              AppendFails, GetRequest, CallUpdate, Go, IInv, TypeOK, AfterUpdate
<1>3. rid[d] \in RequestId /\ requests[rid[d]] \in Request
  <2>1. ~ AtRest(d) /\ ~ Recording(d)
    BY <1>2 DEF AtRest, Recording, IInv, TypeOK, WorkerLabel
  <2> QED
    BY <1>0, <2>1 DEF IInv, WorkInv, TypeOK
<1>4. requests' = requests /\ requests[rid[d]].state \in VALID_STATES
  BY <1>1, <1>3 DEF Still, Request
<1>5. ProgressOf(d)' /\ (pc'[d] = "get" => Terminal(rid[d]))
  <2>1. CASE Lookup(d) \/ Check(d) \/ Compose(d) \/ Clear(d)
    BY <1>0, <1>4, <2>1 DEF Progress, ProgressOf, Terminal, Lookup, Check, Compose, Clear, GetRequest, Go,
                            IInv, TypeOK, VALID_STATES, TERMINAL_STATES
  <2>2. CASE CheckFlag(d) \/ RunEnds(d) \/ RunRaises(d) \/ WorkerAppendFails(d)
    BY <1>0, <1>4, <2>2 DEF ProgressOf, CheckFlag, RunEnds, RunRaises, WorkerAppendFails, CallUpdate, Go, IInv, TypeOK
  <2>3. CASE AppendEvent(d)
    BY <1>0, <1>4, <2>3 DEF Progress, ProgressOf, Terminal, AppendEvent, AfterUpdate, Go,
                            IInv, TypeOK, VALID_STATES, TERMINAL_STATES
  <2> QED
    BY <2>1, <2>2, <2>3
<1>6. Progress'
  BY <1>1, <1>5, WorkerStill
<1>7. ASSUME NEW r \in RequestId, rid[d] = r, ~ Terminal(r), pc'[d] # "dead"
      PROVE  Taken(d, r)'
  BY <1>2, <1>5, <1>7 DEF Taken
<1>8. Kept'
  <2>1. CASE pc'[d] = "dead"
    BY <1>0, <1>1, <2>1, KeptStill
  <2>2. CASE pc'[d] # "dead"
    BY <1>0, <1>1, <1>2, <1>7, <2>2, KeptStill
  <2> QED
    BY <2>1, <2>2
<1> QED
  BY <1>6, <1>8

LEMMA ThreadStillServes ==
  ASSUME IInv, Progress, Kept, NEW t \in Thread,
         \/ HandlerStart(t)
         \/ WriteJson(t) /\ UNCHANGED workerVars
         \/ CancelTerminal(t) \/ CancelQueued(t) \/ CancelFlag(t) \/ CancelLookup(t) \/ AsDict(t)
         \/ AppendEvent(t) /\ UNCHANGED workerVars
         \/ HandlerFails(t)
  PROVE  Progress' /\ Kept'
<1>0. t \in Actor /\ t \notin Door /\ pc[t] \in HandlerLabel /\ pc[t] # "dead"
  BY StoreAssumption DEF Actor, IInv, TypeOK, HandlerLabel
<1>1. ASSUME NEW i, NEW s, NEW r, NewRequest(t, s, i, r), UNCHANGED workerVars, pc[t] = "idle"
      PROVE  Progress' /\ Kept'
  <2>1. Still(t) /\ up' = up /\ pc'[t] = "write_json" /\ ~ \E q : CreatedBy(t, q)
    BY <1>0, <1>1 DEF Still, NewRequest, Go, workerVars, IInv, TypeOK, life, CreatedBy
  <2> QED
    BY <1>0, <2>1, KeptStill, ThreadStill
<1>2. ASSUME NEW i, NEW r, CancelRequest(t, i, r)
      PROVE  Progress' /\ Kept'
  <2>1. Still(t) /\ up' = up /\ pc'[t] = "cancel" /\ ~ \E q : CreatedBy(t, q)
    BY <1>0, <1>2 DEF Still, CancelRequest, Accepts, Go, workerVars, IInv, TypeOK, life, CreatedBy
  <2> QED
    BY <1>0, <2>1, KeptStill, ThreadStill
<1>3. CASE HandlerStart(t)
  BY <1>1, <1>2, <1>3 DEF HandlerStart, StartRequest, ContinueRequest, CreateSessionAndRequest, ContinueSession, Accepts
<1>4. CASE WriteJson(t) /\ UNCHANGED workerVars
  <2>1. Still(t) /\ up' = up /\ pc'[t] = "record_queued" /\ rid' = rid
    BY <1>0, <1>4 DEF Still, WriteJson, Go, workerVars, IInv, TypeOK, life
  <2>2. \A r \in RequestId : rid[t] = r => CreatedBy(t, r)'
    BY <2>1 DEF CreatedBy
  <2> QED
    BY <1>0, <2>1, <2>2, KeptStill, ThreadStill
<1>5. CASE \/ CancelTerminal(t) \/ CancelQueued(t) \/ CancelFlag(t) \/ CancelLookup(t) \/ AsDict(t)
           \/ AppendEvent(t) /\ UNCHANGED workerVars
  <2>1. Still(t) /\ up' = up
    BY <1>0, <1>5 DEF Still, CancelTerminal, CancelQueued, CancelFlag, CancelLookup, AsDict, AppendEvent,
                      GetRequest, CallUpdate, Go, workerVars, IInv, TypeOK, life
  <2>2. /\ pc'[t] \notin {"enqueue", "dead"}
        /\ pc'[t] = "update" => upd'[t].state = "cancelled"
        /\ ~ \E q : CreatedBy(t, q)
    BY <1>0, <1>5 DEF CancelTerminal, CancelQueued, CancelFlag, CancelLookup, AsDict, AppendEvent, AfterUpdate,
                      GetRequest, CallUpdate, Go, IInv, TypeOK, CreatedBy
  <2> QED
    BY <1>0, <2>1, <2>2, KeptStill, ThreadStill
<1>6. CASE HandlerFails(t)
  <2>1. Still(t) /\ up' = up /\ pc'[t] = "idle"
    BY <1>0, <1>6 DEF Still, HandlerFails, RecordCreatedFails, AppendFails, Go, workerVars, IInv, TypeOK, life
  <2>2. \A r \in RequestId : requests[r] # None /\ rid[t] = r => ~ CreatedBy(t, r)
    BY <1>0, <1>6 DEF HandlerFails, RecordCreatedFails, AppendFails, CreatedBy, IInv, WorkInv, AtRest, Recording
  <2> QED
    BY <1>0, <2>1, <2>2, KeptStill, ThreadStill
<1> QED
  BY <1>3, <1>4, <1>5, <1>6

(* update_request's first field: the one step that changes a state.        *)
LEMMA SetStateServes ==
  ASSUME IInv, Hold, Progress, Kept, NEW a \in Actor, SetState(a), UNCHANGED workerVars
  PROVE  Progress' /\ Kept'
<1> PICK r : r = rid[a]
  OBVIOUS
<1>1. /\ pc[a] = "update" /\ r \in RequestId /\ requests[r] \in Request /\ requests[r] # None
      /\ upd[a].state \in VALID_STATES
  BY DEF SetState, IInv, WorkInv, TypeOK, UpdInv, AtRest, Recording
<1>2. /\ \A q \in RequestId \ {r} : requests'[q] = requests[q]
      /\ requests'[r].state = upd[a].state /\ requests'[r] # None
  <2>1. requests' = [requests EXCEPT ![r].state = upd[a].state]
    BY DEF SetState
  <2>2. requests'[r] = [requests[r] EXCEPT !.state = upd[a].state]
    BY <1>1, <2>1 DEF IInv, TypeOK
  <2>3. requests'[r] \in Request /\ requests'[r].state = upd[a].state
    BY <1>1, <2>2 DEF Request
  <2>4. requests'[r] # None
    BY <2>3, StoreAssumption
  <2>5. \A q \in RequestId \ {r} : requests'[q] = requests[q]
    BY <2>1 DEF IInv, TypeOK
  <2> QED
    BY <2>3, <2>4, <2>5
<1>3. /\ pc'[a] \in {"set_response", "append_event"} /\ pc' = [pc EXCEPT ![a] = pc'[a]]
      /\ UNCHANGED <<rid, upd, queue, up>> /\ lock = None
  BY DEF SetState, Go, workerVars, life, IInv, TypeOK
<1>4. \A b \in Actor \ {a} : pc'[b] = pc[b] /\ pc[b] \notin {"set_response", "append_event"}
  <2>1. \A b \in Actor : pc[b] \notin Locked
    BY <1>3, StoreAssumption DEF IInv, LockDiscipline
  <2> QED
    BY <1>3, <2>1 DEF Locked, IInv, TypeOK
<1>5. \A d \in Door : \A q : InQueue(d, q)' <=> InQueue(d, q)
  BY <1>3 DEF InQueue
<1>6. Kept'
  <2>1. \A d \in Door : \A q : Taken(d, q)' <=> Taken(d, q)
    BY <1>1, <1>3, <1>4 DEF Taken, Actor
  <2>2. \A t \in Thread : \A q : CreatedBy(t, q)' <=> CreatedBy(t, q)
    BY <1>1, <1>3, <1>4 DEF CreatedBy, Actor
  <2>3. \A q : InHand(q)' <=> InHand(q)
    BY <1>5, <2>1, <2>2 DEF InHand, Creating, CreatedBy
  <2>4. (\A d \in Door : pc'[d] # "dead") => \A d \in Door : pc[d] # "dead"
    BY <1>1, <1>3, <1>4 DEF Actor
  <2>5. InHand(r) \/ Terminal(r)'
    <3>1. CASE a \in Door
      BY <1>1, <3>1 DEF InHand, Taken
    <3>2. CASE a \in Thread
      BY <1>1, <1>2, <3>2 DEF Progress, Terminal, TERMINAL_STATES
    <3> QED
      BY <3>1, <3>2 DEF Actor
  <2>6. \A q \in RequestId \ {r} : Terminal(q)' <=> Terminal(q)
    BY <1>2 DEF Terminal
  <2> QED
    BY <1>2, <1>3, <2>3, <2>4, <2>5, <2>6 DEF Kept
<1>7. Progress'
  <2>1. CASE a \in Thread
    <3>1. requests'[r].state = "cancelled"
      BY <1>1, <1>2, <2>1 DEF Progress
    <3>2. \A d \in Door : pc'[d] = pc[d] /\ pc[d] \notin {"set_response", "append_event"}
      BY <1>4, <2>1, StoreAssumption DEF Actor
    <3>3. \A q \in RequestId : requests'[q].state # requests[q].state => requests'[q].state = "cancelled"
      BY <1>2, <3>1
    <3>4. \A d \in Door : pc[d] \in {"lookup", "check", "check_flag", "clear"} => rid[d] \in RequestId
      BY DEF IInv, WorkInv, AtRest, Actor
    <3>5. \A t \in Thread : pc[t] = "enqueue" => rid[t] \in RequestId
      BY DEF IInv, WorkInv, AtRest, Actor
    <3>6. \A t \in Thread \ {a} : pc'[t] = pc[t]
      BY <1>4 DEF Actor
    <3> QED
      BY <1>3, <1>5, <2>1, <3>2, <3>3, <3>4, <3>5, <3>6 DEF Progress, Terminal, TERMINAL_STATES
  <2>2. CASE a \in Door
    <3>1. Taken(a, r)
      BY <1>1 DEF Taken
    <3>2. /\ \A d \in Door : ~ InQueue(d, r)
          /\ \A d \in Door \ {a} : ~ Taken(d, r)
          /\ \A t \in Thread : ~ CreatedBy(t, r)
      BY <1>1, <2>2, <3>1, OfOneDoor DEF Hold
    <3>3. \A d \in Door, q \in RequestId : InQueue(d, q)' => requests'[q].state # "running"
      BY <1>2, <1>5, <3>2 DEF Progress
    <3>4. \A t \in Thread : /\ pc'[t] = pc[t]
                            /\ pc[t] = "enqueue" => rid[t] \in RequestId /\ rid[t] # r
      BY <1>4, <2>2, <3>2, StoreAssumption DEF CreatedBy, IInv, WorkInv, AtRest, Actor
    <3>5. ASSUME NEW d \in Door, d # a PROVE ProgressOf(d)'
      <4>1. pc'[d] = pc[d] /\ pc[d] \notin {"set_response", "append_event"} /\ rid'[d] = rid[d] /\ upd'[d] = upd[d]
        BY <1>3, <1>4, <3>5 DEF Actor
      <4>2. pc[d] \in {"lookup", "check", "check_flag", "clear"} => rid[d] \in RequestId /\ rid[d] # r
        BY <3>2, <3>5 DEF Taken, IInv, WorkInv, AtRest, Actor
      <4> QED
        BY <1>2, <4>1, <4>2 DEF Progress, ProgressOf, Terminal
    <3>6. ProgressOf(a)'
      BY <1>1, <1>2, <1>3, <2>2 DEF Progress, ProgressOf
    <3> QED
      BY <1>2, <1>3, <3>3, <3>4, <3>5, <3>6 DEF Progress, ProgressOf
  <2> QED
    BY <2>1, <2>2 DEF Actor
<1> QED
  BY <1>6, <1>7

LEMMA SetResponseServes ==
  ASSUME IInv, Progress, Kept, NEW d \in Door, SetResponse(d), UNCHANGED workerVars
  PROVE  Progress' /\ Kept'
<1> PICK r : r = rid[d]
  OBVIOUS
<1>1. /\ pc[d] = "set_response" /\ r \in RequestId /\ requests[r] \in Request /\ d \in Actor
      /\ d \notin Thread
  BY StoreAssumption DEF SetResponse, IInv, WorkInv, TypeOK, AtRest, Recording, Actor
<1>2. \A q \in RequestId : requests'[q].state = requests[q].state /\ (requests'[q] = None <=> requests[q] = None)
  <2>1. requests' = [requests EXCEPT ![r].response = TRUE]
    BY DEF SetResponse
  <2>2. requests'[r] = [requests[r] EXCEPT !.response = TRUE]
    BY <1>1, <2>1 DEF IInv, TypeOK
  <2>3. requests'[r] \in Request /\ requests'[r].state = requests[r].state
    BY <1>1, <2>2 DEF Request
  <2>4. requests'[r] # None /\ requests[r] # None
    BY <1>1, <2>3, StoreAssumption
  <2>5. \A q \in RequestId \ {r} : requests'[q] = requests[q]
    BY <2>1 DEF IInv, TypeOK
  <2> QED
    BY <2>3, <2>4, <2>5
<1>3. /\ pc'[d] = "append_event" /\ UNCHANGED <<rid, upd, queue, up>>
      /\ \A a \in Actor \ {d} : pc'[a] = pc[a]
  BY <1>1 DEF SetResponse, Go, workerVars, life, IInv, TypeOK
<1>4. \A e \in Door : \A q : InQueue(e, q)' <=> InQueue(e, q)
  BY <1>3 DEF InQueue
<1>5. \A q : InHand(q)' <=> InHand(q)
  BY <1>1, <1>3, <1>4 DEF InHand, Taken, Creating, Actor
<1>6. \A q \in RequestId : Terminal(q)' <=> Terminal(q)
  BY <1>2 DEF Terminal
<1>7. Kept'
  BY <1>1, <1>2, <1>3, <1>5, <1>6 DEF Kept, Actor
<1>8. \A a \in Actor : pc[a] \in {"lookup", "check", "check_flag", "clear", "set_response", "enqueue", "append_event"} =>
        rid[a] \in RequestId
  BY DEF IInv, WorkInv, AtRest
<1>9. ASSUME NEW e \in Door PROVE ProgressOf(e)'
  BY <1>1, <1>2, <1>3, <1>6, <1>8 DEF Progress, ProgressOf, Actor
<1>10. \A t \in Thread : pc'[t] = pc[t] /\ rid'[t] = rid[t] /\ upd'[t] = upd[t]
  BY <1>1, <1>3 DEF Actor
<1>11. Progress'
  BY <1>2, <1>4, <1>8, <1>9, <1>10 DEF Progress, ProgressOf, Actor
<1> QED
  BY <1>7, <1>11

(* The request enters memory, in the hands of the handler that made it.    *)
LEMMA RecordQueuedServes ==
  ASSUME IInv, Progress, Kept, NEW t \in Thread, RecordQueued(t), UNCHANGED workerVars
  PROVE  Progress' /\ Kept'
<1> PICK r : r = rid[t]
  OBVIOUS
<1>1. /\ pc[t] = "record_queued" /\ r \in RequestId /\ requests[r] = None /\ t \in Actor /\ t \notin Door
  BY StoreAssumption DEF RecordQueued, IInv, WorkInv, AtRest, Recording, Actor
<1>2. /\ requests'[r].state = "queued"
      /\ \A q \in RequestId \ {r} : requests'[q] = requests[q]
  BY <1>1 DEF RecordQueued, InsertRequest, IInv, TypeOK
<1>3. /\ pc'[t] = "enqueue" /\ UNCHANGED <<rid, upd, queue, up>>
      /\ \A a \in Actor \ {t} : pc'[a] = pc[a]
  BY <1>1 DEF RecordQueued, InsertRequest, Go, workerVars, life, IInv, TypeOK
<1>4. \A d \in Door : \A q : InQueue(d, q)' <=> InQueue(d, q)
  BY <1>3 DEF InQueue
<1>5. \A d \in Door : ~ InQueue(d, r) /\ ~ Taken(d, r)
  BY <1>1, HeldIsInMemory
<1>6. \A u \in Thread \ {t} : pc[u] = "enqueue" => rid[u] \in RequestId /\ rid[u] # r
  BY <1>1 DEF IInv, WorkInv, AtRest, Recording, Actor
<1>7. \A d \in Door : pc[d] \in {"lookup", "check", "check_flag", "clear", "set_response", "append_event"} =>
        rid[d] \in RequestId /\ rid[d] # r
  BY <1>5 DEF Taken, IInv, WorkInv, AtRest, Actor
<1>8. \A q \in RequestId : InHand(q) => InHand(q)'
  <2>1. ASSUME NEW q \in RequestId, InHand(q) PROVE InHand(q)'
    <3>1. CASE \E u \in Thread : CreatedBy(u, q)
      <4>1. \E u \in Thread : CreatedBy(u, q)'
        BY <1>1, <1>3, <3>1 DEF CreatedBy, Actor
      <4> QED
        BY <4>1 DEF CreatedBy, InHand, Creating
    <3>2. CASE \E d \in Door : InQueue(d, q) \/ Taken(d, q)
      BY <1>1, <1>3, <1>4, <3>2 DEF InHand, Taken, Actor
    <3> QED
      BY <2>1, <3>1, <3>2 DEF InHand, Creating, CreatedBy
  <2> QED
    BY <2>1
<1>9. InHand(r)'
  BY <1>3 DEF InHand, Creating
<1>10. \A q \in RequestId \ {r} : Terminal(q)' <=> Terminal(q)
  BY <1>2 DEF Terminal
<1>11. \A d \in Door : pc'[d] = pc[d]
  BY <1>1, <1>3 DEF Actor
<1>12. Kept'
  BY <1>2, <1>3, <1>8, <1>9, <1>10, <1>11 DEF Kept
<1>13. ASSUME NEW d \in Door PROVE ProgressOf(d)'
  BY <1>2, <1>3, <1>7, <1>10, <1>11 DEF Progress, ProgressOf
<1>14. \A u \in Thread : /\ pc'[u] = "enqueue" => requests'[rid'[u]].state # "running"
                         /\ pc'[u] = "update" => upd'[u].state = "cancelled"
  BY <1>1, <1>2, <1>3, <1>6 DEF Progress, Actor
<1>15. \A d \in Door, q \in RequestId : InQueue(d, q)' => requests'[q].state # "running"
  BY <1>2, <1>4, <1>5 DEF Progress
<1> QED
  BY <1>12, <1>13, <1>14, <1>15 DEF Progress, ProgressOf

(* From the handler to the queue, and from the queue to the worker.        *)
LEMMA EnqueueServes ==
  ASSUME IInv, Hold, Progress, Kept, NEW t \in Thread, Enqueue(t)
  PROVE  Progress' /\ Kept'
<1> PICK r : r = rid[t]
  OBVIOUS
<1> PICK e : e = WorkerOf(t)
  OBVIOUS
<1>1. /\ e \in Door /\ r \in RequestId /\ pc'[t] = "idle" /\ pc[t] = "enqueue" /\ t \notin Door /\ t \in Actor
      /\ \A a \in Actor \ {t} : pc'[a] = pc[a] /\ rid'[a] = rid[a]
      /\ \A d \in Door, q \in RequestId : InQueue(d, q)' <=> InQueue(d, q) \/ (d = e /\ q = r)
  BY EnqueueHold, StoreAssumption DEF Enqueue, EnqueueAt, Actor
<1>2. UNCHANGED <<requests, upd, up>>
  BY DEF Enqueue, EnqueueAt, life
<1>3. \A d \in Door : pc'[d] = pc[d] /\ rid'[d] = rid[d]
  BY <1>1 DEF Actor
<1>4. requests[r].state # "running"
  BY <1>1 DEF Progress
<1>5. \A u \in Thread \ {t} : pc'[u] = pc[u] /\ rid'[u] = rid[u]
  BY <1>1 DEF Actor
<1>6. Progress'
  BY <1>1, <1>2, <1>3, <1>4, <1>5 DEF Progress, Terminal
<1>7. ASSUME NEW q \in RequestId, InHand(q) PROVE InHand(q)'
  <2>1. CASE \E d \in Door : InQueue(d, q) \/ Taken(d, q)
    BY <1>1, <1>3, <2>1 DEF InHand, Taken
  <2>2. CASE q = r
    BY <1>1, <2>2 DEF InHand
  <2>3. CASE \E u \in Thread \ {t} : CreatedBy(u, q)
    BY <1>5, <2>3 DEF InHand, Creating, CreatedBy
  <2> QED
    BY <1>7, <2>1, <2>2, <2>3 DEF InHand, Creating, CreatedBy
<1>8. Kept'
  BY <1>2, <1>3, <1>7 DEF Kept, Terminal
<1> QED
  BY <1>6, <1>8

LEMMA GetServes ==
  ASSUME IInv, Hold, Progress, Kept, NEW d \in Door, Get(d)
  PROVE  Progress' /\ Kept'
<1> PICK r : r = rid'[d]
  OBVIOUS
<1>1. /\ r \in RequestId /\ InQueue(d, r) /\ d \in Actor /\ d \notin Thread
      /\ pc'[d] = "lookup" /\ pc[d] = "get"
      /\ \A a \in Actor \ {d} : pc'[a] = pc[a] /\ rid'[a] = rid[a]
  BY GetHold, StoreAssumption DEF Get, Go, IInv, TypeOK, Actor
<1>2. \A e \in Door, q \in RequestId :
        /\ InQueue(e, q)' <=> InQueue(e, q) /\ ~ (e = d /\ q = r)
        /\ Taken(e, q)' <=> Taken(e, q) \/ (e = d /\ q = r)
  BY GetHold
<1>3. UNCHANGED <<requests, upd, up>>
  BY DEF Get, life
<1>4. requests[r].state # "running"
  BY <1>1 DEF Progress
<1>5. \A e \in Door \ {d} : pc'[e] = pc[e] /\ rid'[e] = rid[e]
  BY <1>1 DEF Actor
<1>6. \A u \in Thread : pc'[u] = pc[u] /\ rid'[u] = rid[u]
  BY <1>1 DEF Actor
<1>7. Progress'
  BY <1>1, <1>2, <1>3, <1>4, <1>5, <1>6 DEF Progress, Terminal
<1>8. ASSUME NEW q \in RequestId, InHand(q) PROVE InHand(q)'
  <2>1. CASE \E e \in Door : InQueue(e, q) \/ Taken(e, q)
    BY <1>2, <2>1 DEF InHand
  <2>2. CASE Creating(q)
    BY <1>6, <2>2 DEF InHand, Creating
  <2> QED
    BY <1>8, <2>1, <2>2 DEF InHand
<1>9. Kept'
  BY <1>1, <1>3, <1>5, <1>8 DEF Kept, Terminal
<1> QED
  BY <1>7, <1>9

(* After a restart everything in memory is over.                           *)
LEMMA LifeServes ==
  ASSUME IInv, Crash \/ CrashDuringScan \/ Restart
  PROVE  Progress' /\ Kept'
<1>1. (\A d \in Door : queue'[d] = <<>>) /\ \A a \in Actor : AtRest(a)'
  BY LifeRests
<1>2. Progress'
  <2>1. \A d \in Door, r \in RequestId : ~ InQueue(d, r)'
    BY <1>1 DEF InQueue
  <2>2. \A a \in Actor : pc'[a] \in {"idle", "get"}
    BY <1>1 DEF AtRest
  <2> QED
    BY <2>1, <2>2 DEF Progress, Actor
<1>3. CASE Crash \/ CrashDuringScan
  <2>1. up' = FALSE
    BY <1>3 DEF Crash, CrashDuringScan, IInv, TypeOK
  <2>2. ~ up'
    BY <2>1
  <2> QED
    BY <1>2, <2>2 DEF Kept
<1>4. CASE Restart
  <2>1. ASSUME NEW r \in RequestId, requests'[r] # None PROVE Terminal(r)'
    <3> DEFINE S == {q \in RequestId : Unfinished(q)}
    <3>1. evidence' = Interrupt(S) /\ Recover(evidence')
      BY <1>4 DEF Restart, ScanAndLoad
    <3>2. evidence[r] # None /\ evidence'[r].latest \in TERMINAL_STATES
      <4>1. evidence[r] # None
        BY <2>1, <3>1 DEF Recover
      <4>2. evidence'[r].latest = IF r \in S THEN "interrupted" ELSE evidence[r].latest
        BY <3>1, <4>1, InterruptKeeps DEF IInv
      <4> QED
        BY <4>1, <4>2 DEF Unfinished, TERMINAL_STATES
    <3>3. requests'[r].state = evidence'[r].latest
      BY <3>1, <3>2 DEF Recover
    <3> QED
      BY <3>2, <3>3 DEF Terminal
  <2> QED
    BY <1>2, <2>1 DEF Kept
<1> QED
  BY <1>3, <1>4

LEMMA NextServes ==
  ASSUME IInv, Hold, Progress, Kept, [Next]_vars
  PROVE  Progress' /\ Kept'
<1>1. ASSUME NEW t \in Thread, HandlerStart(t) \/ HandlerStep(t) \/ HandlerFails(t)
      PROVE  Progress' /\ Kept'
  <2>1. CASE RecordQueued(t) /\ UNCHANGED workerVars
    BY <2>1, RecordQueuedServes
  <2>2. CASE SetState(t) /\ UNCHANGED workerVars
    BY <2>2, SetStateServes DEF Actor
  <2>3. CASE Enqueue(t)
    BY <2>3, EnqueueServes
  <2>4. CASE HandlerRecord(t) \/ HandlerUpdate(t)
    BY <2>1, <2>2, <2>4, ThreadStillServes DEF HandlerRecord, HandlerUpdate
  <2>5. CASE \/ HandlerStart(t) \/ HandlerFails(t)
             \/ CancelTerminal(t) \/ CancelQueued(t) \/ CancelFlag(t) \/ CancelLookup(t) \/ AsDict(t)
    BY <2>5, ThreadStillServes
  <2> QED
    BY <1>1, <2>3, <2>4, <2>5 DEF HandlerStep
<1>2. ASSUME NEW d \in Door, WorkerStep(d) \/ WorkerAppendFails(d)
      PROVE  Progress' /\ Kept'
  <2>1. CASE SetState(d) /\ UNCHANGED workerVars
    BY <2>1, SetStateServes DEF Actor
  <2>2. CASE SetResponse(d) /\ UNCHANGED workerVars
    BY <2>2, SetResponseServes
  <2>3. CASE Get(d)
    BY <2>3, GetServes
  <2>4. CASE WorkerUpdate(d)
    BY <2>1, <2>2, <2>4, WorkerStillServes DEF WorkerUpdate
  <2>5. CASE \/ Lookup(d) \/ Check(d) \/ CheckFlag(d) \/ Compose(d) \/ RunEnds(d) \/ RunRaises(d) \/ Clear(d)
             \/ WorkerAppendFails(d)
    BY <2>5, WorkerStillServes
  <2> QED
    BY <1>2, <2>3, <2>4, <2>5 DEF WorkerStep
<1>3. CASE UNCHANGED vars
  BY <1>3 DEF vars, storeVars, workerVars, life, Progress, Kept, InHand, InQueue, Taken, Creating, Terminal
<1> QED
  BY <1>1, <1>2, <1>3, LifeServes DEF Next

Serving == IInv /\ Hold /\ Progress /\ Kept

LEMMA InitServes == Init => Hold /\ Progress /\ Kept
<1> SUFFICES ASSUME Init PROVE Hold /\ Progress /\ Kept
  OBVIOUS
<1>1. /\ \A a \in Actor : pc[a] \in {"idle", "get"} /\ AtRest(a)
      /\ \A d \in Door : queue[d] = <<>>
      /\ \A r \in RequestId : requests[r] = None
  BY DEF Init, AtRest
<1>2. Hold /\ \A d \in Door, r \in RequestId : ~ InQueue(d, r)
  BY <1>1, RestHolds
<1> QED
  BY <1>1, <1>2 DEF Progress, Kept, Actor

LEMMA ServingInvariance == Spec => []Serving
<1>1. Init => Serving
  BY InitInv, InitServes DEF Serving
<1>2. Serving /\ [Next]_vars => Serving'
  BY NextInv, NextHold, NextServes DEF Serving
<1> QED
  BY <1>1, <1>2, PTL DEF Spec

(* NoStrandedRequest of update_request, _process and the three handlers,   *)
(* for any number of threads: a request that is not over is always in      *)
(* somebody's hands, however cancel calls, workers and kills interleave.   *)
THEOREM NothingIsStranded == Spec => []NoStrandedRequest
<1>1. Serving => NoStrandedRequest
  BY DEF Serving, Kept, NoStrandedRequest, Terminal, TERMINAL_STATES
<1> QED
  BY <1>1, ServingInvariance, PTL
-----------------------------------------------------------------------------
(* What record_created has on disk while it is at it, and what a worker    *)
(* takes a turn up with.                                                   *)
Draft ==
  /\ \A t \in Thread : /\ pc[t] = "write_json" => evidence[rid[t]].latest = "torn"
                       /\ pc[t] = "record_queued" => evidence[rid[t]].latest = "none"
  /\ \A d \in Door : pc[d] \in {"update", "set_response", "append_event"} /\ upd[d].state = "running" =>
       pc[d] # "set_response" /\ upd[d].response = FALSE

(* Nobody else writes evidence while a handler is inside record_created.   *)
LEMMA DraftKeeps ==
  ASSUME IInv, Draft, NEW a \in Actor,
         \A b \in Actor \ {a} : pc'[b] = pc[b] /\ rid'[b] = rid[b] /\ upd'[b] = upd[b],
         evidence' = evidence \/ lock \in {None, a},
         pc'[a] \in {"write_json", "record_queued"} =>
           evidence'[rid'[a]].latest = (IF pc'[a] = "write_json" THEN "torn" ELSE "none"),
         a \in Door /\ pc'[a] \in {"update", "set_response", "append_event"} /\ upd'[a].state = "running" =>
           pc'[a] # "set_response" /\ upd'[a].response = FALSE
  PROVE  Draft'
<1>1. ASSUME NEW t \in Thread, t # a, pc[t] \in {"write_json", "record_queued"}
      PROVE  evidence' = evidence
  <2>1. lock = t /\ t \in Actor
    BY <1>1 DEF IInv, LockDiscipline, Locked, Actor
  <2> QED
    BY <1>1, <2>1, StoreAssumption
<1>2. \A t \in Thread : /\ pc'[t] = "write_json" => evidence'[rid'[t]].latest = "torn"
                        /\ pc'[t] = "record_queued" => evidence'[rid'[t]].latest = "none"
  <2> SUFFICES ASSUME NEW t \in Thread, pc'[t] \in {"write_json", "record_queued"}
               PROVE  /\ pc'[t] = "write_json" => evidence'[rid'[t]].latest = "torn"
                      /\ pc'[t] = "record_queued" => evidence'[rid'[t]].latest = "none"
    OBVIOUS
  <2>1. CASE t # a
    <3>1. pc'[t] = pc[t] /\ rid'[t] = rid[t]
      BY <2>1 DEF Actor
    <3>2. evidence' = evidence
      BY <1>1, <2>1, <3>1
    <3>3. /\ pc[t] = "write_json" => evidence[rid[t]].latest = "torn"
          /\ pc[t] = "record_queued" => evidence[rid[t]].latest = "none"
      BY DEF Draft
    <3> QED
      BY <3>1, <3>2, <3>3
  <2>2. CASE t = a
    BY <2>2
  <2> QED
    BY <2>1, <2>2
<1>3. \A d \in Door : pc'[d] \in {"update", "set_response", "append_event"} /\ upd'[d].state = "running" =>
         pc'[d] # "set_response" /\ upd'[d].response = FALSE
  BY DEF Draft, Actor
<1> QED
  BY <1>2, <1>3 DEF Draft

LEMMA HandlerDraft ==
  ASSUME IInv, Draft, NEW t \in Thread, HandlerStart(t) \/ HandlerStep(t) \/ HandlerFails(t)
  PROVE  Draft'
<1> USE DEF IInv, TypeOK, Go, Actor
<1>0. t \in Actor /\ t \notin Door
  BY StoreAssumption
<1>1. ASSUME NEW i, NEW s, NEW r \in RequestId, NewRequest(t, s, i, r)
      PROVE  Draft'
  BY <1>0, <1>1, DraftKeeps DEF NewRequest
<1>2. CASE HandlerStart(t)
  <2>1. ASSUME NEW i, NEW r, CancelRequest(t, i, r) PROVE Draft'
    BY <1>0, <2>1, DraftKeeps DEF CancelRequest
  <2> QED
    BY <1>1, <1>2, <2>1 DEF HandlerStart, StartRequest, ContinueRequest, CreateSessionAndRequest, ContinueSession
<1>3. CASE WriteJson(t)
  <2>1. lock = t /\ rid[t] \in RequestId /\ evidence[rid[t]] \in EvidenceDir
    BY <1>0, <1>3 DEF WriteJson, LockDiscipline, Locked, WorkInv, AtRest
  <2>2. evidence'[rid[t]].latest = "none"
    BY <1>3, <2>1 DEF WriteJson, EvidenceDir
  <2> QED
    BY <1>0, <1>3, <2>1, <2>2, DraftKeeps DEF WriteJson
<1>4. CASE RecordQueued(t) \/ AppendEvent(t) \/ HandlerFails(t)
  <2>1. lock = t
    BY <1>0, <1>4 DEF RecordQueued, AppendEvent, HandlerFails, RecordCreatedFails, AppendFails, LockDiscipline, Locked
  <2>2. pc'[t] \in {"enqueue", "as_dict", "idle"}
    BY <1>0, <1>4 DEF RecordQueued, InsertRequest, AppendEvent, AfterUpdate, HandlerFails, RecordCreatedFails, AppendFails
  <2>3. \A b \in Actor \ {t} : pc'[b] = pc[b] /\ rid'[b] = rid[b] /\ upd'[b] = upd[b]
    BY <1>0, <1>4 DEF RecordQueued, InsertRequest, AppendEvent, HandlerFails, RecordCreatedFails, AppendFails
  <2> QED
    BY <1>0, <2>1, <2>2, <2>3, DraftKeeps
<1>5. CASE CancelTerminal(t) \/ CancelQueued(t) \/ CancelFlag(t) \/ CancelLookup(t) \/ AsDict(t) \/ SetState(t) \/ Enqueue(t)
  <2>1. /\ evidence' = evidence /\ pc'[t] \notin {"write_json", "record_queued"}
        /\ \A b \in Actor \ {t} : pc'[b] = pc[b] /\ rid'[b] = rid[b] /\ upd'[b] = upd[b]
    BY <1>0, <1>5 DEF CancelTerminal, CancelQueued, CancelFlag, CancelLookup, AsDict, SetState, Enqueue, EnqueueAt,
                      GetRequest, CallUpdate
  <2> QED
    BY <1>0, <2>1, DraftKeeps
<1> QED
  BY <1>2, <1>3, <1>4, <1>5 DEF HandlerStep, HandlerRecord, HandlerUpdate, HandlerStart

LEMMA WorkerDraft ==
  ASSUME IInv, Draft, NEW d \in Door, WorkerStep(d) \/ WorkerAppendFails(d)
  PROVE  Draft'
<1> USE DEF IInv, TypeOK, Go, Actor
<1>0. d \in Actor /\ d \notin Thread
  BY StoreAssumption
<1>1. /\ \A b \in Actor \ {d} : pc'[b] = pc[b] /\ rid'[b] = rid[b] /\ upd'[b] = upd[b]
      /\ evidence' = evidence \/ AppendEvent(d)
      /\ pc'[d] \notin {"write_json", "record_queued"}
  <2>1. CASE WorkerUpdate(d)
    BY <1>0, <2>1 DEF WorkerUpdate, SetState, SetResponse, AppendEvent, AfterUpdate
  <2>2. CASE WorkerAppendFails(d)
    BY <1>0, <2>2 DEF WorkerAppendFails, AppendFails, CallUpdate
  <2>3. CASE Get(d) \/ Lookup(d) \/ Check(d) \/ CheckFlag(d)
    BY <1>0, <2>3 DEF Get, Lookup, Check, CheckFlag, GetRequest, CallUpdate
  <2>4. CASE Compose(d) \/ RunEnds(d) \/ RunRaises(d) \/ Clear(d)
    BY <1>0, <2>4 DEF Compose, RunEnds, RunRaises, Clear, CallUpdate
  <2> QED
    BY <2>1, <2>2, <2>3, <2>4 DEF WorkerStep
<1>2. AppendEvent(d) => lock = d
  BY <1>0 DEF AppendEvent, LockDiscipline, Locked
<1>3. pc'[d] \in {"update", "set_response", "append_event"} /\ upd'[d].state = "running" =>
        pc'[d] # "set_response" /\ upd'[d].response = FALSE
  <2>1. CASE WorkerUpdate(d)
    BY <1>0, <2>1 DEF WorkerUpdate, SetState, SetResponse, AppendEvent, AfterUpdate, Draft
  <2>2. CASE WorkerAppendFails(d)
    BY <1>0, <2>2 DEF WorkerAppendFails, AppendFails, CallUpdate
  <2>3. CASE Get(d) \/ Lookup(d) \/ Check(d) \/ CheckFlag(d)
    BY <1>0, <2>3 DEF Get, Lookup, Check, CheckFlag, GetRequest, CallUpdate
  <2>4. CASE Compose(d) \/ RunEnds(d) \/ RunRaises(d) \/ Clear(d)
    BY <1>0, <2>4 DEF Compose, RunEnds, RunRaises, Clear, CallUpdate
  <2> QED
    BY <2>1, <2>2, <2>3, <2>4 DEF WorkerStep
<1> QED
  BY <1>0, <1>1, <1>2, <1>3, DraftKeeps

LEMMA NextDraft == IInv /\ Draft /\ [Next]_vars => Draft'
<1> SUFFICES ASSUME IInv, Draft, [Next]_vars PROVE Draft'
  OBVIOUS
<1>1. CASE Crash \/ CrashDuringScan \/ Restart
  <2>1. \A a \in Actor : pc'[a] \in {"idle", "get"}
    BY <1>1, LifeRests DEF AtRest
  <2> QED
    BY <2>1 DEF Draft, Actor
<1>2. CASE UNCHANGED vars
  BY <1>2 DEF vars, storeVars, Draft
<1> QED
  BY <1>1, <1>2, HandlerDraft, WorkerDraft DEF Next
-----------------------------------------------------------------------------
(***************************************************************************)
(* The process keeps the promise of TurnService: every step of a thread, a *)
(* worker, a kill or a restart is a step of the promise, or none.          *)
(***************************************************************************)

(* What an actor makes of a request's phase.                               *)
Absent(r) == evidence[r] = None \/ evidence[r].latest = "torn"
With(a, r) == a \in Door /\ rid[a] = r /\ Running(a)
Awaits(a, r) ==
  /\ rid[a] = r
  /\ \/ a \in Thread /\ pc[a] \in {"write_json", "record_queued", "enqueue"}
     \/ a \in Door /\ Undispatched(a)

LEMMA PhaseIs ==
  ASSUME NEW r
  PROVE  Phase(r) = IF Absent(r) THEN "absent"
                    ELSE IF \E a \in Actor : With(a, r) THEN "running"
                    ELSE IF (\E a \in Actor : Awaits(a, r)) \/ \E d \in Door : InQueue(d, r) THEN "waiting"
                    ELSE "over"
BY StoreAssumption DEF Phase, Absent, With, Awaits, Creating, Actor

LEMMA PhaseKeeps ==
  ASSUME NEW r, Absent(r)' <=> Absent(r),
         \/ Absent(r)
         \/ /\ \A a \in Actor : With(a, r)' <=> With(a, r)
            /\ \/ \E a \in Actor : With(a, r)
               \/ (\E a \in Actor : Awaits(a, r)')  \/ (\E d \in Door : InQueue(d, r)')
                    <=> (\E a \in Actor : Awaits(a, r)) \/ (\E d \in Door : InQueue(d, r))
  PROVE  Phase(r)' = Phase(r)
<1> DEFINE waits == (\E a \in Actor : Awaits(a, r)) \/ \E d \in Door : InQueue(d, r)
           runs == \E a \in Actor : With(a, r)
<1>1. Phase(r) = IF Absent(r) THEN "absent" ELSE IF runs THEN "running" ELSE IF waits THEN "waiting" ELSE "over"
  BY PhaseIs
<1>2. Phase(r)' = IF Absent(r)' THEN "absent" ELSE IF runs' THEN "running" ELSE IF waits' THEN "waiting" ELSE "over"
  BY StoreAssumption DEF Phase, Absent, With, Awaits, Creating, Actor
<1> QED
  BY <1>1, <1>2
-----------------------------------------------------------------------------
(* Whose a request is, is settled by one actor or one queue.               *)
LEMMA OneHolder ==
  ASSUME IInv, Hold, NEW a \in Actor, NEW r \in RequestId, With(a, r) \/ Awaits(a, r)
  PROVE  /\ \A b \in Actor \ {a} : ~ With(b, r) /\ ~ Awaits(b, r)
         /\ \A d \in Door : ~ InQueue(d, r)
<1>1. \A b \in Actor : With(b, r) \/ Awaits(b, r) => IF b \in Door THEN Taken(b, r) ELSE b \in Thread /\ CreatedBy(b, r)
  BY StoreAssumption DEF With, Awaits, Running, Undispatched, Taken, CreatedBy, Actor
<1>2. CASE a \in Door
  BY <1>1, <1>2, OfOneDoor DEF Hold, Actor
<1>3. CASE a \notin Door
  BY <1>1, <1>3 DEF Hold, Actor
<1> QED
  BY <1>2, <1>3

LEMMA QueuedIsNobodys ==
  ASSUME IInv, Hold, NEW d \in Door, NEW r \in RequestId, InQueue(d, r)
  PROVE  \A b \in Actor : ~ With(b, r) /\ ~ Awaits(b, r)
BY OneHolder

(* The state of the promise, and the steps of one actor in it.             *)
Phases == [r \in RequestId |-> Phase(r)]
Owners == [r \in RequestId |-> IF Phase(r) = "absent" THEN None ELSE evidence[r].session_id]

Alone(a) ==
  /\ \A b \in Actor \ {a} : pc'[b] = pc[b] /\ rid'[b] = rid[b] /\ upd'[b] = upd[b]
  /\ queue' = queue

Kin(r) ==
  /\ Absent(r)' <=> Absent(r)
  /\ ~ Absent(r) => evidence'[r].session_id = evidence[r].session_id

Alike(a, r) == (With(a, r)' <=> With(a, r)) /\ (Awaits(a, r)' <=> Awaits(a, r))

LEMMA Bystanders ==
  ASSUME NEW a \in Actor, Alone(a)
  PROVE  /\ \A b \in Actor \ {a} : \A r : Alike(b, r)
         /\ \A d \in Door : \A r : InQueue(d, r)' <=> InQueue(d, r)
BY DEF Alone, Alike, With, Awaits, Running, Undispatched, InQueue, Actor

LEMMA Unmoved ==
  ASSUME NEW a \in Actor, Alone(a), NEW r, Kin(r), Absent(r) \/ Alike(a, r)
  PROVE  Phase(r)' = Phase(r)
<1>1. ~ Absent(r) => \A b \in Actor : Alike(b, r)
  BY Bystanders
<1> QED
  BY <1>1, Bystanders, PhaseKeeps DEF Kin, Alike

LEMMA Moves ==
  ASSUME NEW a \in Actor, Alone(a), NEW r \in RequestId,
         \A q \in RequestId \ {r} : Kin(q) /\ (Absent(q) \/ Alike(a, q))
  PROVE  /\ Phases' = [Phases EXCEPT ![r] = Phase(r)']
         /\ Owners' = [Owners EXCEPT ![r] = IF Phase(r)' = "absent" THEN None ELSE evidence'[r].session_id]
<1>1. \A q \in RequestId \ {r} : Phase(q)' = Phase(q)
  BY Unmoved
<1>2. \A q \in RequestId : Absent(q) <=> Phase(q) = "absent"
  BY PhaseIs
<1> QED
  BY <1>1, <1>2 DEF Phases, Owners, Kin

LEMMA Silent ==
  ASSUME NEW a \in Actor, Alone(a), \A q \in RequestId : Kin(q) /\ (Absent(q) \/ Alike(a, q))
  PROVE  UNCHANGED Promise!vars
<1>1. \A q \in RequestId : Phase(q)' = Phase(q)
  BY Unmoved
<1>2. \A q \in RequestId : Absent(q) <=> Phase(q) = "absent"
  BY PhaseIs
<1> QED
  BY <1>1, <1>2 DEF Promise!vars, Kin

(* A step of the one actor that has a request, and of that request only.   *)
LEMMA Steps ==
  ASSUME IInv, Hold, NEW a \in Actor, Alone(a), NEW r \in RequestId, rid[a] = r, rid'[a] \in {r, None},
         \A q \in RequestId : Kin(q), ~ Absent(r), With(a, r) \/ Awaits(a, r)
  PROVE  /\ Phase(r) = IF With(a, r) THEN "running" ELSE "waiting"
         /\ Phase(r)' = IF With(a, r)' THEN "running" ELSE IF Awaits(a, r)' THEN "waiting" ELSE "over"
         /\ Phases' = [Phases EXCEPT ![r] = Phase(r)'] /\ Owners' = Owners
<1>1. /\ \A b \in Actor \ {a} : ~ With(b, r) /\ ~ Awaits(b, r) /\ ~ With(b, r)' /\ ~ Awaits(b, r)'
      /\ \A d \in Door : ~ InQueue(d, r) /\ ~ InQueue(d, r)'
  BY OneHolder, Bystanders DEF Alike
<1>2. Phase(r) = IF With(a, r) THEN "running" ELSE "waiting"
  BY <1>1, PhaseIs
<1>3. ~ Absent(r)'
  BY DEF Kin
<1>4. Phase(r)' = IF With(a, r)' THEN "running" ELSE IF Awaits(a, r)' THEN "waiting" ELSE "over"
  BY <1>1, <1>3, StoreAssumption DEF Phase, Absent, With, Awaits, Creating, Actor
<1>5. \A q \in RequestId \ {r} : Alike(a, q)
  BY StoreAssumption DEF Alike, With, Awaits
<1>6. /\ Phases' = [Phases EXCEPT ![r] = Phase(r)']
      /\ Owners' = [Owners EXCEPT ![r] = evidence[r].session_id]
  BY <1>4, <1>5, Moves DEF Kin
<1>7. Owners[r] = evidence[r].session_id /\ Owners = [q \in RequestId |-> Owners[q]]
  BY <1>2 DEF Owners
<1>8. Owners' = Owners
  BY <1>6, <1>7
<1> QED
  BY <1>2, <1>4, <1>6, <1>8

LEMMA Finishes ==
  ASSUME IInv, Hold, NEW a \in Actor, Alone(a), NEW r \in RequestId, rid[a] = r, rid'[a] \in {r, None},
         \A q \in RequestId : Kin(q), ~ Absent(r), With(a, r) \/ Awaits(a, r), ~ With(a, r)', ~ Awaits(a, r)'
  PROVE  Promise!Next
<1>1. Phases[r] \in {"waiting", "running"} /\ Phases' = [Phases EXCEPT ![r] = "over"] /\ Owners' = Owners
  BY Steps DEF Phases
<1>2. Promise!Finish(r)
  BY <1>1 DEF Promise!Finish, Phases, Owners
<1> QED
  BY <1>2 DEF Promise!Next
-----------------------------------------------------------------------------
(* What a step does to the evidence, as far as the promise sees it.        *)
LEMMA AppendingIsUnseen ==
  ASSUME IInv, NEW a \in Actor, AppendEvent(a)
  PROVE  \A q \in RequestId : Kin(q)
<1> PICK r : r = rid[a]
  OBVIOUS
<1>1. /\ r \in RequestId /\ requests[r] # None /\ requests[r] \in Request /\ evidence[r] \in EvidenceDir
      /\ evidence[r].latest # "torn" /\ evidence[r] # None
  BY StoreAssumption DEF AppendEvent, IInv, WorkInv, MemoryInv, TypeOK, AtRest, Recording
<1>2. /\ evidence'[r] = [evidence[r] EXCEPT !.latest = requests[r].state, !.response = requests[r].response]
      /\ \A q \in RequestId \ {r} : evidence'[q] = evidence[q]
  BY <1>1 DEF AppendEvent, IInv, TypeOK
<1>3. /\ evidence'[r].session_id = evidence[r].session_id /\ evidence'[r].latest = requests[r].state
      /\ evidence'[r] \in EvidenceDir
  BY <1>1, <1>2 DEF EvidenceDir, Request, Latest
<1>4. evidence'[r] # None /\ evidence'[r].latest # "torn"
  BY <1>1, <1>3, StoreAssumption DEF Request, VALID_STATES
<1> QED
  BY <1>1, <1>2, <1>3, <1>4 DEF Kin, Absent

LEMMA WritingIsSeen ==
  ASSUME IInv, Draft, NEW t \in Thread, WriteJson(t) \/ RecordQueued(t), NEW r, r = rid[t]
  PROVE  /\ r \in RequestId
         /\ \A q \in RequestId : q # r \/ RecordQueued(t) => Kin(q)
         /\ WriteJson(t) => Absent(r) /\ ~ Absent(r)' /\ evidence'[r].session_id \in SessionId
<1> DEFINE latest == IF WriteJson(t) THEN "none" ELSE "queued"
<1>1. /\ r \in RequestId /\ evidence[r] \in EvidenceDir /\ evidence[r] # None /\ t \in Actor
      /\ WriteJson(t) => pc[t] = "write_json" /\ evidence[r].latest = "torn"
      /\ ~ WriteJson(t) => pc[t] = "record_queued" /\ evidence[r].latest = "none"
  BY StoreAssumption DEF WriteJson, RecordQueued, IInv, WorkInv, TypeOK, AtRest, Actor, Draft
<1>2. evidence' = [evidence EXCEPT ![r].latest = latest]
  BY DEF WriteJson, RecordQueued
<1>3. /\ evidence'[r] = [evidence[r] EXCEPT !.latest = latest]
      /\ \A q \in RequestId \ {r} : evidence'[q] = evidence[q]
  BY <1>1, <1>2 DEF IInv, TypeOK
<1>4. evidence'[r].session_id = evidence[r].session_id /\ evidence'[r].latest = latest /\ evidence'[r] \in EvidenceDir
  BY <1>1, <1>3 DEF EvidenceDir, Latest, VALID_STATES
<1>5. evidence'[r] # None /\ evidence'[r].latest # "torn" /\ evidence'[r].session_id \in SessionId
  BY <1>4, StoreAssumption DEF EvidenceDir
<1>6. \A q \in RequestId \ {r} : Kin(q)
  BY <1>3 DEF Kin, Absent
<1>7. CASE WriteJson(t)
  <2>1. Absent(r) /\ ~ Absent(r)'
    BY <1>1, <1>5, <1>7 DEF Absent
  <2>2. ~ RecordQueued(t)
    BY <1>1, <1>7 DEF RecordQueued
  <2> QED
    BY <1>1, <1>5, <1>6, <2>1, <2>2
<1>8. CASE ~ WriteJson(t)
  <2>1. Kin(r)
    BY <1>1, <1>4, <1>5, <1>8 DEF Kin, Absent
  <2> QED
    BY <1>1, <1>6, <1>8, <2>1
<1> QED
  BY <1>7, <1>8

(* record_created makes the request a waiting one.                         *)
LEMMA WriteJsonIsAccept ==
  ASSUME IInv, Hold, Draft, NEW t \in Thread, WriteJson(t), UNCHANGED workerVars
  PROVE  Promise!Next
<1> PICK r : r = rid[t]
  OBVIOUS
<1>1. /\ r \in RequestId /\ Absent(r) /\ ~ Absent(r)' /\ evidence'[r].session_id \in SessionId
      /\ \A q \in RequestId \ {r} : Kin(q)
  <2>1. ~ RecordQueued(t)
    BY DEF WriteJson, RecordQueued
  <2> QED
    BY WritingIsSeen
<1>2. /\ Alone(t) /\ t \in Actor /\ t \notin Door
      /\ pc[t] = "write_json" /\ pc'[t] = "record_queued" /\ rid' = rid
  BY StoreAssumption DEF WriteJson, Go, Alone, IInv, TypeOK, Actor, workerVars
<1>3. \A q \in RequestId \ {r} : Alike(t, q)
  BY <1>2 DEF Alike, With, Awaits
<1>4. /\ Phases' = [Phases EXCEPT ![r] = Phase(r)']
      /\ Owners' = [Owners EXCEPT ![r] = IF Phase(r)' = "absent" THEN None ELSE evidence'[r].session_id]
  BY <1>1, <1>2, <1>3, Moves
<1>5. Awaits(t, r) /\ Awaits(t, r)' /\ ~ With(t, r)'
  BY <1>2 DEF Awaits, With
<1>6. Phase(r)' = "waiting"
  <2>1. \A b \in Actor : ~ With(b, r)'
    BY <1>1, <1>2, <1>5, OneHolder, Bystanders DEF Alike
  <2> QED
    BY <1>1, <1>2, <1>5, <2>1, StoreAssumption DEF Phase, Absent, With, Awaits, Creating, Actor
<1>7. Phases[r] = "absent"
  BY <1>1, PhaseIs DEF Phases
<1> PICK s \in SessionId : s = evidence'[r].session_id
  BY <1>1
<1>8. Phases' = [Phases EXCEPT ![r] = "waiting"] /\ Owners' = [Owners EXCEPT ![r] = s]
  BY <1>4, <1>6
<1>9. Promise!Accept(r, s)
  BY <1>7, <1>8 DEF Promise!Accept, Phases, Owners
<1> QED
  BY <1>1, <1>9 DEF Promise!Next
(* From hand to queue to worker: who waits goes on waiting.                *)
LEMMA QueueingIsSilent ==
  ASSUME IInv, Hold, NEW a \in Actor, (a \in Thread /\ Enqueue(a)) \/ (a \in Door /\ Get(a))
  PROVE  UNCHANGED Promise!vars
<1>1. /\ evidence' = evidence
      /\ \A b \in Actor \ {a} : pc'[b] = pc[b] /\ rid'[b] = rid[b] /\ upd'[b] = upd[b]
  BY DEF Enqueue, EnqueueAt, Get, Go, IInv, TypeOK
<1>2. \A b \in Actor \ {a} : \A q : Alike(b, q)
  BY <1>1 DEF Alike, With, Awaits, Running, Undispatched
<1>3. \A q \in RequestId : ~ With(a, q) /\ ~ With(a, q)'
  BY StoreAssumption DEF Enqueue, EnqueueAt, Get, Go, IInv, TypeOK, With, Running
<1>4. ASSUME NEW q \in RequestId
      PROVE  (\E b \in Actor : Awaits(b, q)') \/ (\E d \in Door : InQueue(d, q)')
               <=> (\E b \in Actor : Awaits(b, q)) \/ (\E d \in Door : InQueue(d, q))
  <2>1. CASE a \in Thread /\ Enqueue(a)
    <3>1. /\ \A d \in Door : InQueue(d, q)' <=> InQueue(d, q) \/ (d = WorkerOf(a) /\ q = rid[a])
          /\ WorkerOf(a) \in Door /\ pc'[a] = "idle" /\ CreatedBy(a, rid[a])
      BY <2>1, EnqueueHold
    <3>2. Awaits(a, q) <=> q = rid[a]
      BY <2>1, <3>1, StoreAssumption DEF Awaits, CreatedBy
    <3>3. ~ Awaits(a, q)'
      BY <2>1, <3>1, StoreAssumption DEF Awaits
    <3> QED
      BY <1>2, <3>1, <3>2, <3>3 DEF Alike
  <2>2. CASE a \in Door /\ Get(a)
    <3>1. /\ \A e \in Door : InQueue(e, q)' <=> InQueue(e, q) /\ ~ (e = a /\ q = rid'[a])
          /\ InQueue(a, rid'[a]) /\ pc'[a] = "lookup" /\ pc[a] = "get"
      BY <2>2, GetHold DEF Get, Go, IInv, TypeOK
    <3>2. Awaits(a, q)' <=> q = rid'[a]
      BY <2>2, <3>1, StoreAssumption DEF Awaits, Undispatched
    <3>3. ~ Awaits(a, q)
      BY <2>2, <3>1, StoreAssumption DEF Awaits, Undispatched
    <3> QED
      BY <1>2, <2>2, <3>1, <3>2, <3>3 DEF Alike
  <2> QED
    BY <2>1, <2>2
<1>5. \A q \in RequestId : Phase(q)' = Phase(q)
  <2> TAKE q \in RequestId
  <2>1. Absent(q)' <=> Absent(q)
    BY <1>1 DEF Absent
  <2>2. \A b \in Actor : With(b, q)' <=> With(b, q)
    BY <1>2, <1>3 DEF Alike
  <2> QED
    BY <1>4, <2>1, <2>2, PhaseKeeps
<1> QED
  BY <1>1, <1>5 DEF Promise!vars

LEMMA HandlerIsPromised ==
  ASSUME IInv, Hold, Draft, NEW t \in Thread, HandlerStart(t) \/ HandlerStep(t) \/ HandlerFails(t)
  PROVE  [Promise!Next]_(Promise!vars)
<1> USE DEF Actor
<1>0. t \in Actor /\ t \notin Door /\ \A q : ~ With(t, q) /\ ~ With(t, q)'
  BY StoreAssumption DEF With
<1>1. ASSUME Alone(t), \A q \in RequestId : Kin(q),
             \A q \in RequestId : Absent(q) \/ (Awaits(t, q)' <=> Awaits(t, q))
      PROVE  UNCHANGED Promise!vars
  BY <1>0, <1>1, Silent DEF Alike
<1>2. evidence' = evidence => \A q \in RequestId : Kin(q)
  BY DEF Kin, Absent
<1>3. ASSUME NEW i, NEW s, NEW r \in RequestId, NewRequest(t, s, i, r), UNCHANGED workerVars, pc[t] = "idle"
      PROVE  UNCHANGED Promise!vars
  <2>1. Alone(t) /\ rid'[t] = r /\ evidence[r] = None
    BY <1>0, <1>3 DEF NewRequest, Go, Alone, IInv, TypeOK, workerVars
  <2>2. \A q \in RequestId \ {r} : ~ Awaits(t, q) /\ ~ Awaits(t, q)' /\ evidence'[q] = evidence[q]
    BY <1>0, <1>3, <2>1 DEF Awaits, NewRequest, IInv, TypeOK
  <2>3. evidence'[r].latest = "torn"
    BY <1>3 DEF NewRequest, IInv, TypeOK
  <2>4. \A q \in RequestId : Kin(q)
    BY <2>1, <2>2, <2>3 DEF Kin, Absent
  <2> QED
    BY <1>1, <2>1, <2>2, <2>4 DEF Absent
<1>4. CASE HandlerStart(t)
  <2>1. ASSUME NEW i, NEW r, CancelRequest(t, i, r)
        PROVE  UNCHANGED Promise!vars
    <3>1. Alone(t) /\ evidence' = evidence /\ pc[t] = "idle" /\ pc'[t] = "cancel"
      BY <1>0, <2>1 DEF CancelRequest, Accepts, Go, Alone, IInv, TypeOK, workerVars
    <3> QED
      BY <1>0, <1>1, <1>2, <3>1 DEF Awaits
  <2> QED
    BY <1>3, <1>4, <2>1 DEF HandlerStart, StartRequest, ContinueRequest, CreateSessionAndRequest, ContinueSession, Accepts
<1>5. CASE HandlerRecord(t)
  <2>1. CASE RecordQueued(t) /\ UNCHANGED workerVars
    <3>1. \A q \in RequestId : Kin(q)
      BY <2>1, WritingIsSeen
    <3>2. Alone(t) /\ pc[t] = "record_queued" /\ pc'[t] = "enqueue" /\ rid' = rid
      BY <1>0, <2>1 DEF RecordQueued, InsertRequest, Go, Alone, IInv, TypeOK, workerVars
    <3> QED
      BY <1>0, <1>1, <3>1, <3>2 DEF Awaits
  <2> QED
    BY <1>5, <2>1, WriteJsonIsAccept DEF HandlerRecord
<1>6. CASE Enqueue(t)
  BY <1>0, <1>6, QueueingIsSilent
<1>7. CASE CancelTerminal(t) \/ CancelQueued(t) \/ CancelFlag(t) \/ CancelLookup(t) \/ AsDict(t) \/ HandlerUpdate(t)
  <2>1. /\ Alone(t) /\ pc[t] \notin {"write_json", "record_queued", "enqueue"}
        /\ pc'[t] \notin {"write_json", "record_queued", "enqueue"}
        /\ evidence' = evidence \/ AppendEvent(t)
    <3>1. CASE CancelTerminal(t) \/ CancelQueued(t) \/ CancelFlag(t)
      BY <1>0, <3>1 DEF CancelTerminal, CancelQueued, CancelFlag, CallUpdate, Go, Alone, IInv, TypeOK, workerVars
    <3>2. CASE CancelLookup(t) \/ AsDict(t) \/ HandlerUpdate(t)
      BY <1>0, <3>2 DEF CancelLookup, GetRequest, AsDict, HandlerUpdate, SetState, AppendEvent, AfterUpdate,
                        Go, Alone, IInv, TypeOK, workerVars
    <3> QED
      BY <1>7, <3>1, <3>2
  <2>2. \A q \in RequestId : Kin(q)
    BY <1>0, <1>2, <2>1, AppendingIsUnseen
  <2> QED
    BY <1>0, <1>1, <2>1, <2>2 DEF Awaits
<1>8. CASE HandlerFails(t)
  <2> PICK r : r = rid[t]
    OBVIOUS
  <2>1. /\ Alone(t) /\ pc'[t] = "idle" /\ rid'[t] = None /\ pc[t] \in {"write_json", "record_queued", "append_event"}
    BY <1>0, <1>8 DEF HandlerFails, RecordCreatedFails, AppendFails, Go, Alone, IInv, TypeOK, workerVars
  <2>2. r \in RequestId /\ evidence[r] # None
    BY <1>0, <2>1 DEF IInv, WorkInv, AtRest
  <2>3. CASE pc[t] = "record_queued"
    <3>1. evidence' = evidence /\ ~ Absent(r)
      BY <1>8, <2>2, <2>3 DEF HandlerFails, RecordCreatedFails, AppendFails, Draft, Absent
    <3>2. Awaits(t, r) /\ ~ Awaits(t, r)'
      BY <1>0, <2>1, <2>3 DEF Awaits
    <3> QED
      BY <1>0, <1>2, <2>1, <2>2, <3>1, <3>2, Finishes
  <2>4. CASE pc[t] = "append_event"
    <3>1. evidence' = evidence
      BY <1>8, <2>4 DEF HandlerFails, RecordCreatedFails, AppendFails
    <3> QED
      BY <1>0, <1>1, <1>2, <2>1, <2>4, <3>1 DEF Awaits
  <2>5. CASE pc[t] = "write_json"
    <3>1. Absent(r) /\ Absent(r)' /\ \A q \in RequestId \ {r} : evidence'[q] = evidence[q]
      BY <1>0, <1>8, <2>2, <2>5 DEF HandlerFails, RecordCreatedFails, AppendFails, Draft, Absent, IInv, TypeOK
    <3>2. \A q \in RequestId : Kin(q)
      BY <3>1 DEF Kin, Absent
    <3>3. \A q \in RequestId \ {r} : ~ Awaits(t, q) /\ ~ Awaits(t, q)'
      BY <1>0, <2>1 DEF Awaits
    <3> QED
      BY <1>1, <2>1, <3>1, <3>2, <3>3
  <2> QED
    BY <2>1, <2>3, <2>4, <2>5
<1> QED
  BY <1>4, <1>5, <1>6, <1>7, <1>8 DEF HandlerStep
-----------------------------------------------------------------------------
(* A worker's steps, by what becomes of its turn.                          *)
LEMMA WorkerMoves ==
  ASSUME IInv, Draft, NEW d \in Door, WorkerStep(d) \/ WorkerAppendFails(d), ~ Get(d)
  PROVE  /\ d \in Actor /\ d \notin Thread /\ Alone(d)
         /\ \A q \in RequestId : Kin(q)
         /\ rid[d] \in RequestId /\ requests[rid[d]] # None /\ ~ Absent(rid[d])
         /\ rid'[d] \in {rid[d], None}
<1> USE DEF IInv, TypeOK, Go, Alone, Actor
<1>0. d \in Actor /\ d \notin Thread
  BY StoreAssumption
<1>1. /\ Alone(d) /\ rid'[d] \in {rid[d], None} /\ (evidence' = evidence \/ AppendEvent(d))
      /\ pc[d] \notin {"get", "dead"}
  <2>1. CASE WorkerUpdate(d)
    BY <1>0, <2>1 DEF WorkerUpdate, SetState, SetResponse, AppendEvent, AfterUpdate, workerVars
  <2>2. CASE WorkerAppendFails(d)
    BY <1>0, <2>2 DEF WorkerAppendFails, AppendFails, CallUpdate, workerVars
  <2>3. CASE Lookup(d) \/ Check(d) \/ CheckFlag(d)
    BY <1>0, <2>3 DEF Lookup, Check, CheckFlag, GetRequest, CallUpdate, workerVars
  <2>4. CASE Compose(d) \/ RunEnds(d) \/ RunRaises(d) \/ Clear(d)
    BY <1>0, <2>4 DEF Compose, RunEnds, RunRaises, Clear, CallUpdate, workerVars
  <2> QED
    BY <2>1, <2>2, <2>3, <2>4 DEF WorkerStep
<1>2. rid[d] \in RequestId /\ requests[rid[d]] # None
  BY <1>0, <1>1 DEF WorkInv, AtRest, Recording, WorkerLabel
<1>3. ~ Absent(rid[d])
  BY <1>2 DEF MemoryInv, Absent
<1>4. \A q \in RequestId : Kin(q)
  BY <1>0, <1>1, AppendingIsUnseen DEF Kin, Absent
<1> QED
  BY <1>0, <1>1, <1>2, <1>3, <1>4

(* Its turn starts when "running" is written.                              *)
LEMMA AppendIsStart ==
  ASSUME IInv, Hold, Draft, NEW d \in Door, AppendEvent(d), UNCHANGED workerVars, upd[d].state = "running"
  PROVE  Promise!Next
<1> PICK r : r = rid[d]
  OBVIOUS
<1>1. /\ d \in Actor /\ d \notin Thread /\ Alone(d) /\ r \in RequestId /\ requests[r] # None /\ ~ Absent(r)
      /\ \A q \in RequestId : Kin(q)
  BY WorkerMoves DEF WorkerStep, WorkerUpdate, AppendEvent, Get
<1>2. pc[d] = "append_event" /\ pc'[d] = "compose" /\ rid' = rid
  BY <1>1 DEF AppendEvent, AfterUpdate, Go, IInv, TypeOK
<1>3. Awaits(d, r) /\ ~ With(d, r) /\ With(d, r)'
  BY <1>1, <1>2 DEF Awaits, With, Undispatched, Running
<1>4. Phases[r] = "waiting" /\ Phases' = [Phases EXCEPT ![r] = "running"] /\ Owners' = Owners
  BY <1>1, <1>2, <1>3, Steps DEF Phases
<1>5. \A q \in RequestId : Phases[q] = "running" => Owners[q] # Owners[r]
  <2> SUFFICES ASSUME NEW q \in RequestId, Phases[q] = "running" PROVE Owners[q] # Owners[r]
    OBVIOUS
  <2>1. PICK e \in Door : rid[e] = q /\ Running(e)
    BY PhaseIs DEF Phases, With
  <2>2. e # d /\ up
    BY <1>2, <2>1 DEF Running, IInv, DownInv, AtRest, Actor
  <2>3. /\ requests[q] # None /\ evidence[q].identity.class = e
        /\ requests[q].session_id = evidence[q].session_id
    BY <2>1 DEF IInv, WorkInv, DoorInv, MemoryInv, AtRest, Recording, Running, Actor
  <2>4. /\ evidence[r].identity.class = d /\ requests[r].session_id = evidence[r].session_id
    BY <1>1, <1>2 DEF IInv, DoorInv, MemoryInv, AtRest
  <2>5. evidence[q].session_id # evidence[r].session_id
    BY <1>1, <2>2, <2>3, <2>4, SessionOfDoor
  <2>6. Owners[q] = evidence[q].session_id /\ Owners[r] = evidence[r].session_id
    BY <1>1, <1>4 DEF Phases, Owners
  <2> QED
    BY <2>5, <2>6
<1>6. Promise!Start(r)
  BY <1>4, <1>5 DEF Promise!Start, Phases, Owners
<1> QED
  BY <1>1, <1>6 DEF Promise!Next

LEMMA WorkerIsPromised ==
  ASSUME IInv, Hold, Draft, NEW d \in Door, WorkerStep(d) \/ WorkerAppendFails(d)
  PROVE  [Promise!Next]_(Promise!vars)
<1>1. CASE Get(d)
  BY <1>1, QueueingIsSilent DEF Actor
<1>2. CASE AppendEvent(d) /\ UNCHANGED workerVars /\ upd[d].state = "running"
  BY <1>2, AppendIsStart
<1> SUFFICES ASSUME ~ Get(d), ~ (AppendEvent(d) /\ UNCHANGED workerVars /\ upd[d].state = "running")
             PROVE  [Promise!Next]_(Promise!vars)
  BY <1>1, <1>2
<1> PICK r : r = rid[d]
  OBVIOUS
<1>3. /\ d \in Actor /\ d \notin Thread /\ Alone(d) /\ \A q \in RequestId : Kin(q)
      /\ r \in RequestId /\ ~ Absent(r) /\ rid'[d] \in {r, None}
  BY WorkerMoves
<1>4. \A q \in RequestId \ {r} : Alike(d, q)
  BY <1>3, StoreAssumption DEF Alike, With, Awaits
<1>5. /\ With(d, r) <=> Running(d)
      /\ Awaits(d, r) <=> Undispatched(d)
      /\ With(d, r)' <=> rid'[d] = r /\ Running(d)'
      /\ Awaits(d, r)' <=> rid'[d] = r /\ Undispatched(d)'
  BY <1>3 DEF With, Awaits
<1>6. \/ (With(d, r)' <=> With(d, r)) /\ (Awaits(d, r)' <=> Awaits(d, r))
      \/ (With(d, r) \/ Awaits(d, r)) /\ ~ With(d, r)' /\ ~ Awaits(d, r)'
  <2> USE DEF Running, Undispatched, IInv, TypeOK, Go, CallUpdate
  <2>1. CASE Lookup(d) \/ Check(d) \/ CheckFlag(d)
    BY <1>3, <1>5, <2>1 DEF Lookup, Check, CheckFlag, GetRequest
  <2>2. CASE Compose(d) \/ RunEnds(d) \/ RunRaises(d) \/ Clear(d)
    BY <1>3, <1>5, <2>2 DEF Compose, RunEnds, RunRaises, Clear
  <2>3. CASE SetState(d) \/ SetResponse(d)
    BY <1>3, <1>5, <2>3 DEF SetState, SetResponse, Draft
  <2>4. CASE AppendEvent(d) /\ UNCHANGED workerVars
    BY <1>3, <1>5, <2>4 DEF AppendEvent, AfterUpdate
  <2>5. CASE WorkerAppendFails(d)
    BY <1>3, <1>5, <2>5 DEF WorkerAppendFails, AppendFails
  <2> QED
    BY <2>1, <2>2, <2>3, <2>4, <2>5 DEF WorkerStep, WorkerUpdate
<1>7. CASE (With(d, r)' <=> With(d, r)) /\ (Awaits(d, r)' <=> Awaits(d, r))
  BY <1>3, <1>4, <1>7, Silent DEF Alike
<1>8. CASE (With(d, r) \/ Awaits(d, r)) /\ ~ With(d, r)' /\ ~ Awaits(d, r)'
  BY <1>3, <1>8, Finishes
<1> QED
  BY <1>6, <1>7, <1>8

(* A kill ends what the process held; the scan of the next one only says so. *)
LEMMA LifeIsPromised ==
  ASSUME IInv, Crash \/ CrashDuringScan \/ Restart
  PROVE  [Promise!Next]_(Promise!vars)
<1>1. /\ \A d \in Door, r \in RequestId : ~ InQueue(d, r)'
      /\ \A a \in Actor : \A r : ~ With(a, r)' /\ ~ Awaits(a, r)'
  BY LifeRests, StoreAssumption DEF InQueue, AtRest, With, Awaits, Running, Undispatched
<1>2. \A r \in RequestId : Phase(r)' = IF Absent(r)' THEN "absent" ELSE "over"
  BY <1>1, StoreAssumption DEF Phase, Absent, With, Awaits, Creating, Actor
<1>3. CASE Crash
  <2>1. evidence' = evidence
    BY <1>3 DEF Crash
  <2>2. \A r \in RequestId : Phase(r)' = IF Phase(r) = "absent" THEN "absent" ELSE "over"
    BY <1>2, <2>1, PhaseIs DEF Absent
  <2>3. /\ Phases' = [r \in RequestId |-> IF Phases[r] = "absent" THEN "absent" ELSE "over"]
        /\ Owners' = Owners
    BY <2>1, <2>2 DEF Phases, Owners
  <2>4. Promise!Crash
    BY <2>3 DEF Promise!Crash, Phases, Owners
  <2> QED
    BY <2>4 DEF Promise!Next
<1>4. CASE CrashDuringScan \/ Restart
  <2>1. ~ up /\ Scannable /\ \E S \in SUBSET {r \in RequestId : Unfinished(r)} : evidence' = Interrupt(S)
    BY <1>4 DEF CrashDuringScan, Restart, ScanAndLoad
  <2>2. ASSUME NEW r \in RequestId PROVE Kin(r)
    <3>1. evidence[r] # None => evidence[r].latest # "torn"
      BY <2>1 DEF Scannable
    <3> QED
      BY <2>1, <3>1, InterruptKeeps DEF Kin, Absent, IInv
  <2>3. \A r \in RequestId : Phase(r) = IF Absent(r) THEN "absent" ELSE "over"
    <3>1. /\ \A d \in Door, r \in RequestId : ~ InQueue(d, r)
          /\ \A a \in Actor : \A r : ~ With(a, r) /\ ~ Awaits(a, r)
      BY <2>1, StoreAssumption DEF IInv, DownInv, InQueue, AtRest, With, Awaits, Running, Undispatched
    <3> QED
      BY <3>1, PhaseIs
  <2>4. \A r \in RequestId : Phase(r)' = Phase(r)
    BY <1>2, <2>2, <2>3 DEF Kin
  <2>5. \A r \in RequestId : Phase(r) # "absent" => evidence'[r].session_id = evidence[r].session_id
    BY <2>2, <2>3 DEF Kin
  <2> QED
    BY <2>4, <2>5 DEF Promise!vars
<1> QED
  BY <1>3, <1>4

LEMMA NextIsPromised == IInv /\ Hold /\ Draft /\ [Next]_vars => [Promise!Next]_(Promise!vars)
<1> SUFFICES ASSUME IInv, Hold, Draft, [Next]_vars PROVE [Promise!Next]_(Promise!vars)
  OBVIOUS
<1>1. CASE UNCHANGED vars
  <2>1. \A r \in RequestId : Phase(r)' = Phase(r)
    BY <1>1 DEF vars, storeVars, workerVars, Phase, Running, Creating, InQueue, Undispatched
  <2> QED
    BY <1>1, <2>1 DEF vars, storeVars, Promise!vars
<1> QED
  BY <1>1, HandlerIsPromised, WorkerIsPromised, LifeIsPromised DEF Next

(* "Run each turn to completion, one at a time": whatever the threads of   *)
(* the process do, whichever writes fail and however often it is killed,   *)
(* a request is taken up once, its turn is started at most once and never  *)
(* beside another of its session, and what a kill found unfinished stays   *)
(* over.  The detailed specification implements TurnService.               *)
THEOREM ServesAtMostOnce == Spec => ServedAtMostOnce
<1>1. Init => Draft
  BY DEF Init, Draft, Actor
<1>2. Init => Promise!Init
  BY DEF Init, Promise!Init, Phase
<1>3. Serving => IInv /\ Hold
  BY DEF Serving
<1> QED
  BY <1>1, <1>2, <1>3, ServingInvariance, NextDraft, NextIsPromised, PTL DEF Spec, ServedAtMostOnce, Promise!Spec
-----------------------------------------------------------------------------
(* Memory is evidence.  An answer belongs to a turn that is over, in       *)
(* memory and on disk; what differs between the two is being written.      *)
AnswersAreFinal ==
  /\ \A r \in RequestId : requests[r] # None /\ requests[r].response => Terminal(r)
  /\ \A r \in RequestId : evidence[r] # None /\ evidence[r].response => evidence[r].latest \in TERMINAL_STATES
  /\ \A d \in Door : /\ pc[d] = "update" /\ upd[d].response => upd[d].state = "completed"
                     /\ pc[d] = "set_response" => upd[d].state = "completed"
  /\ \A t \in Thread : Recording(t) => evidence[rid[t]].response = FALSE

WaitsUnanswered ==
  \A r \in RequestId : requests[r] # None /\ requests[r].response => Phase(r) # "waiting"

Writing(r) == \E a \in Actor : rid[a] = r /\ pc[a] \in Locked

Agree(r) ==
  IF requests[r] = None THEN evidence[r] = None
  ELSE requests[r].state = evidence[r].latest /\ requests[r].response = evidence[r].response

Synced == up /\ faults = 0 => \A r \in RequestId : Writing(r) \/ Agree(r)

Answers == AnswersAreFinal /\ Synced

(* A step outside the store's locked blocks.                               *)
LEMMA OutsideKeeps ==
  ASSUME IInv, Answers, NEW a \in Actor, Alone(a), UNCHANGED <<requests, evidence, faults, up>>,
         pc[a] \notin Locked, pc'[a] \notin Locked,
         pc'[a] = "update" /\ a \in Door /\ upd'[a].response => upd'[a].state = "completed"
  PROVE  Answers'
<1>1. \A b \in Actor \ {a} : pc'[b] = pc[b] /\ rid'[b] = rid[b] /\ upd'[b] = upd[b]
  BY DEF Alone
<1>2. \A r : Writing(r) => Writing(r)'
  BY <1>1 DEF Writing, Locked
<1>3. Synced'
  BY <1>2 DEF Answers, Synced, Agree
<1>4. \A d \in Door : /\ pc'[d] = "update" /\ upd'[d].response => upd'[d].state = "completed"
                      /\ pc'[d] = "set_response" => upd'[d].state = "completed"
  BY <1>1 DEF Answers, AnswersAreFinal, Locked, Actor
<1>5. \A t \in Thread : Recording(t)' => evidence'[rid'[t]].response = FALSE
  <2> SUFFICES ASSUME NEW t \in Thread, Recording(t)' PROVE evidence'[rid'[t]].response = FALSE
    OBVIOUS
  <2>1. t # a /\ pc'[t] = pc[t] /\ rid'[t] = rid[t]
    BY <1>1 DEF Recording, Locked, Actor
  <2> QED
    BY <2>1 DEF Answers, AnswersAreFinal, Recording
<1> QED
  BY <1>3, <1>4, <1>5 DEF Answers, AnswersAreFinal, Terminal

(* A step of the actor inside: its own request only.                       *)
LEMMA InsideKeeps ==
  ASSUME IInv, Answers, NEW a \in Actor, NEW r \in RequestId, Alone(a), up' = up, lock \in {None, a},
         rid'[a] = r \/ pc'[a] \notin Locked,
         pc[a] \in Locked => rid[a] = r,
         \A q \in RequestId \ {r} : requests'[q] = requests[q] /\ evidence'[q] = evidence[q],
         faults' # 0 \/ (faults' = faults /\ (pc'[a] \in Locked \/ Agree(r)')),
         requests'[r] # None /\ requests'[r].response => requests'[r].state \in TERMINAL_STATES,
         evidence'[r] # None /\ evidence'[r].response => evidence'[r].latest \in TERMINAL_STATES,
         a \in Door => /\ pc'[a] = "update" /\ upd'[a].response => upd'[a].state = "completed"
                       /\ pc'[a] = "set_response" => upd'[a].state = "completed",
         Recording(a)' => evidence'[r].response = FALSE
  PROVE  Answers'
<1>1. \A b \in Actor \ {a} : pc'[b] = pc[b] /\ rid'[b] = rid[b] /\ upd'[b] = upd[b] /\ pc[b] \notin Locked
  BY StoreAssumption DEF Alone, IInv, LockDiscipline, Actor
<1>2. \A q \in RequestId \ {r} : Writing(q) => Writing(q)'
  BY <1>1 DEF Writing
<1>3. Synced'
  <2> SUFFICES ASSUME up', faults' = 0, NEW q \in RequestId PROVE Writing(q)' \/ Agree(q)'
    BY DEF Synced
  <2>1. CASE q = r
    BY <2>1 DEF Writing
  <2>2. CASE q # r
    BY <1>2, <2>2 DEF Answers, Synced, Agree
  <2> QED
    BY <2>1, <2>2
<1>4. \A d \in Door : /\ pc'[d] = "update" /\ upd'[d].response => upd'[d].state = "completed"
                      /\ pc'[d] = "set_response" => upd'[d].state = "completed"
  BY <1>1 DEF Answers, AnswersAreFinal, Actor
<1>5. \A t \in Thread : Recording(t)' => evidence'[rid'[t]].response = FALSE
  BY <1>1 DEF Recording, Locked, Actor
<1>6. \A q \in RequestId : requests'[q] # None /\ requests'[q].response => Terminal(q)'
  BY DEF Answers, AnswersAreFinal, Terminal
<1>7. \A q \in RequestId : evidence'[q] # None /\ evidence'[q].response => evidence'[q].latest \in TERMINAL_STATES
  BY DEF Answers, AnswersAreFinal
<1> QED
  BY <1>3, <1>4, <1>5, <1>6, <1>7 DEF Answers, AnswersAreFinal

LEMMA RecordingAnswers ==
  ASSUME IInv, Draft, Answers, NEW t \in Thread, WriteJson(t) \/ RecordQueued(t), UNCHANGED workerVars
  PROVE  Answers'
<1> PICK r : r = rid[t]
  OBVIOUS
<1>1. /\ t \in Actor /\ t \notin Door /\ r \in RequestId /\ evidence[r] \in EvidenceDir /\ evidence[r] # None
      /\ requests[r] = None /\ evidence[r].response = FALSE /\ lock = t /\ pc[t] \in Locked
  BY StoreAssumption DEF WriteJson, RecordQueued, IInv, WorkInv, TypeOK, AtRest, Recording, LockDiscipline, Locked, Actor,
                         Answers, AnswersAreFinal
<1>2. Alone(t) /\ rid' = rid /\ UNCHANGED <<up, faults>>
  BY <1>1 DEF WriteJson, RecordQueued, InsertRequest, Go, Alone, IInv, TypeOK, workerVars, life
<1>3. CASE WriteJson(t)
  <2>1. /\ evidence' = [evidence EXCEPT ![r].latest = "none"] /\ requests' = requests
        /\ pc'[t] = "record_queued"
    BY <1>1, <1>3 DEF WriteJson, Go, IInv, TypeOK
  <2>2. /\ evidence'[r] = [evidence[r] EXCEPT !.latest = "none"]
        /\ \A q \in RequestId \ {r} : evidence'[q] = evidence[q]
    BY <1>1, <2>1 DEF IInv, TypeOK
  <2>3. evidence'[r].response = FALSE
    BY <1>1, <2>2 DEF EvidenceDir
  <2> QED
    BY <1>1, <1>2, <2>1, <2>2, <2>3, InsideKeeps DEF Locked
<1>4. CASE RecordQueued(t)
  <2>1. /\ evidence' = [evidence EXCEPT ![r].latest = "queued"] /\ pc'[t] = "enqueue"
        /\ \A q \in RequestId \ {r} : requests'[q] = requests[q]
        /\ requests'[r].state = "queued" /\ requests'[r].response = FALSE
    BY <1>1, <1>4 DEF RecordQueued, InsertRequest, Go, IInv, TypeOK
  <2>2. /\ evidence'[r] = [evidence[r] EXCEPT !.latest = "queued"]
        /\ \A q \in RequestId \ {r} : evidence'[q] = evidence[q]
    BY <1>1, <2>1 DEF IInv, TypeOK
  <2>3. evidence'[r].response = FALSE /\ evidence'[r].latest = "queued"
    BY <1>1, <2>2 DEF EvidenceDir
  <2>4. requests'[r] # None
    <3>1. IInv'
      BY <1>4, RecordQueuedInv
    <3> QED
      BY <1>1, <1>2, <2>1, <3>1 DEF IInv, WorkInv, AtRest, Recording
  <2>5. Agree(r)'
    BY <2>1, <2>3, <2>4 DEF Agree
  <2> QED
    BY <1>1, <1>2, <2>1, <2>2, <2>3, <2>5, InsideKeeps DEF Locked, Recording
<1> QED
  BY <1>3, <1>4

LEMMA NewRequestAnswers ==
  ASSUME IInv, Answers, NEW t \in Thread, NEW s, NEW i, NEW r \in RequestId, NewRequest(t, s, i, r),
         UNCHANGED workerVars, pc[t] = "idle"
  PROVE  Answers'
<1>1. /\ t \in Actor /\ t \notin Door /\ lock = None /\ Alone(t) /\ UNCHANGED <<up, faults, requests>>
      /\ rid'[t] = r /\ pc'[t] = "write_json" /\ requests[r] = None
      /\ \A q \in RequestId \ {r} : evidence'[q] = evidence[q]
      /\ evidence'[r].response = FALSE
  BY StoreAssumption DEF NewRequest, Go, Alone, IInv, TypeOK, workerVars, life, Actor
<1> QED
  BY <1>1, InsideKeeps DEF Locked

LEMMA UpdatingAnswers ==
  ASSUME IInv, Hold, Progress, Draft, Answers, WaitsUnanswered,
         NEW a \in Actor, SetState(a) \/ SetResponse(a), a \in Door \/ SetState(a), UNCHANGED workerVars
  PROVE  Answers'
<1> PICK r : r = rid[a]
  OBVIOUS
<1>1. /\ r \in RequestId /\ requests[r] \in Request /\ requests[r] # None /\ evidence[r] # None
      /\ pc[a] \in {"update", "set_response"}
      /\ lock \in {None, a}
  BY DEF SetState, SetResponse, IInv, WorkInv, TypeOK, AtRest, Recording, LockDiscipline, Locked
<1>2. /\ Alone(a) /\ UNCHANGED <<up, faults, evidence, rid, upd>> /\ pc'[a] \in {"set_response", "append_event"}
      /\ pc'[a] = "set_response" => upd[a].response
  BY <1>1 DEF SetState, SetResponse, Go, Alone, IInv, TypeOK, workerVars, life
<1>3. CASE SetState(a)
  <2>1. /\ pc[a] = "update" /\ requests' = [requests EXCEPT ![r].state = upd[a].state]
    BY <1>3 DEF SetState
  <2>2. /\ requests'[r] = [requests[r] EXCEPT !.state = upd[a].state]
        /\ \A q \in RequestId \ {r} : requests'[q] = requests[q]
    BY <1>1, <2>1 DEF IInv, TypeOK
  <2>3. requests'[r].state = upd[a].state /\ requests'[r].response = requests[r].response
    BY <1>1, <2>2 DEF Request
  <2>4. requests[r].response => upd[a].state \in TERMINAL_STATES
    <3>1. upd[a].state \in VALID_STATES \ {"queued"}
      BY <2>1 DEF IInv, UpdInv, Progress, Actor, VALID_STATES
    <3>2. CASE upd[a].state = "running"
      <4>1. a \in Door
        BY <2>1, <3>2 DEF Progress, Actor
      <4>2. Awaits(a, r) /\ ~ With(a, r) /\ ~ Absent(r)
        BY <1>1, <2>1, <3>2, <4>1 DEF Awaits, With, Undispatched, Running, Absent, IInv, MemoryInv
      <4>3. Phase(r) = "waiting"
        BY <1>1, <4>2, OneHolder, PhaseIs
      <4> QED
        BY <1>1, <4>3 DEF WaitsUnanswered
    <3> QED
      BY <3>1, <3>2 DEF VALID_STATES, TERMINAL_STATES
  <2>5. a \in Door => (pc'[a] = "set_response" => upd'[a].state = "completed")
    BY <1>2, <2>1 DEF Answers, AnswersAreFinal
  <2> QED
    <3>1. requests'[r].response => requests'[r].state \in TERMINAL_STATES
      BY <2>3, <2>4
    <3>2. evidence[r].response => evidence[r].latest \in TERMINAL_STATES
      BY <1>1 DEF Answers, AnswersAreFinal
    <3>3. pc'[a] \in Locked /\ ~ Recording(a)' /\ pc'[a] # "update"
      BY <1>2 DEF Locked, Recording
    <3>4. rid'[a] = r /\ (pc[a] \in Locked => rid[a] = r)
      BY <1>2
    <3>5. \A q \in RequestId \ {r} : requests'[q] = requests[q] /\ evidence'[q] = evidence[q]
      BY <1>2, <2>2
    <3> QED
      BY <1>1, <1>2, <2>5, <3>1, <3>2, <3>3, <3>4, <3>5, InsideKeeps
<1>4. CASE SetResponse(a)
  <2>1. /\ pc[a] = "set_response" /\ requests' = [requests EXCEPT ![r].response = TRUE] /\ pc'[a] = "append_event"
        /\ a \in Door
    BY <1>4 DEF SetResponse, SetState, Go, IInv, TypeOK
  <2>2. /\ requests'[r] = [requests[r] EXCEPT !.response = TRUE]
        /\ \A q \in RequestId \ {r} : requests'[q] = requests[q]
    BY <1>1, <2>1 DEF IInv, TypeOK
  <2>3. requests'[r].state = requests[r].state
    BY <1>1, <2>2 DEF Request
  <2>4. requests[r].state = "completed"
    BY <2>1 DEF Answers, AnswersAreFinal, Progress
  <2> QED
    BY <1>1, <1>2, <2>1, <2>2, <2>3, <2>4, InsideKeeps DEF Locked, Recording, Answers, AnswersAreFinal, TERMINAL_STATES
<1> QED
  BY <1>3, <1>4

LEMMA AppendingAnswers ==
  ASSUME IInv, Answers, NEW a \in Actor, AppendEvent(a), UNCHANGED workerVars
  PROVE  Answers'
<1> PICK r : r = rid[a]
  OBVIOUS
<1>1. /\ r \in RequestId /\ requests[r] # None /\ requests[r] \in Request /\ evidence[r] \in EvidenceDir
      /\ evidence[r] # None /\ lock = a /\ pc[a] = "append_event"
  BY StoreAssumption DEF AppendEvent, IInv, WorkInv, TypeOK, AtRest, Recording, LockDiscipline, Locked
<1>2. /\ Alone(a) /\ UNCHANGED <<up, faults, requests, rid>> /\ pc'[a] \in {"as_dict", "compose", "clear"}
  BY <1>1 DEF AppendEvent, AfterUpdate, Go, Alone, IInv, TypeOK, workerVars, life
<1>3. /\ evidence'[r] = [evidence[r] EXCEPT !.latest = requests[r].state, !.response = requests[r].response]
      /\ \A q \in RequestId \ {r} : evidence'[q] = evidence[q]
  BY <1>1 DEF AppendEvent, IInv, TypeOK
<1>4. evidence'[r].latest = requests[r].state /\ evidence'[r].response = requests[r].response
  BY <1>1, <1>3 DEF EvidenceDir
<1>5. Agree(r)'
  BY <1>1, <1>2, <1>4 DEF Agree
<1>6. requests[r].response => requests[r].state \in TERMINAL_STATES
  BY <1>1 DEF Answers, AnswersAreFinal, Terminal
<1> QED
  BY <1>1, <1>2, <1>3, <1>4, <1>5, <1>6, InsideKeeps DEF Locked, Recording

LEMMA FailingAnswers ==
  ASSUME IInv, Answers, NEW a \in Actor, (a \in Thread /\ HandlerFails(a)) \/ (a \in Door /\ WorkerAppendFails(a))
  PROVE  Answers'
<1> PICK r : r = rid[a]
  OBVIOUS
<1>1. /\ r \in RequestId /\ evidence[r] # None
      /\ lock = a /\ pc[a] \in {"write_json", "record_queued", "append_event"}
  <2>1. pc[a] \in {"write_json", "record_queued", "append_event"}
    BY DEF HandlerFails, WorkerAppendFails, RecordCreatedFails, AppendFails
  <2> QED
    BY <2>1 DEF IInv, WorkInv, AtRest, LockDiscipline, Locked
<1>2. faults' = faults + 1 /\ faults' # 0
  <2>1. faults' = faults + 1
    BY DEF HandlerFails, WorkerAppendFails, RecordCreatedFails, AppendFails
  <2> QED
    BY <2>1 DEF IInv, TypeOK
<1>3. /\ Alone(a) /\ UNCHANGED <<up, requests>> /\ pc'[a] \in {"idle", "dead", "update"}
      /\ a \in Door => upd'[a].response = FALSE
      /\ \A q \in RequestId \ {r} : evidence'[q] = evidence[q]
      /\ evidence'[r] \in {evidence[r], None}
  <2>1. CASE a \in Thread /\ HandlerFails(a)
    BY <1>1, <2>1, StoreAssumption DEF HandlerFails, RecordCreatedFails, AppendFails, Go, Alone, IInv, TypeOK, workerVars, life
  <2>2. CASE a \in Door /\ WorkerAppendFails(a)
    BY <1>1, <2>2 DEF WorkerAppendFails, AppendFails, CallUpdate, NoUpdate, Go, Alone, IInv, TypeOK, life
  <2> QED
    BY <2>1, <2>2
<1>4. /\ requests[r] # None /\ requests[r].response => requests[r].state \in TERMINAL_STATES
      /\ evidence'[r] # None /\ evidence'[r].response => evidence'[r].latest \in TERMINAL_STATES
  BY <1>1, <1>3 DEF Answers, AnswersAreFinal, Terminal
<1>5. pc'[a] \notin Locked /\ ~ Recording(a)' /\ pc'[a] # "set_response"
  BY <1>3 DEF Locked, Recording
<1>6. \A q \in RequestId \ {r} : requests'[q] = requests[q] /\ evidence'[q] = evidence[q]
  BY <1>3
<1>7. requests'[r] # None /\ requests'[r].response => requests'[r].state \in TERMINAL_STATES
  BY <1>3, <1>4
<1>8. a \in Door => /\ pc'[a] = "update" /\ upd'[a].response => upd'[a].state = "completed"
                    /\ pc'[a] = "set_response" => upd'[a].state = "completed"
  BY <1>3, <1>5
<1>9. Alone(a) /\ up' = up
  BY <1>3
<1> QED
  BY <1>1, <1>2, <1>4, <1>5, <1>6, <1>7, <1>8, <1>9, InsideKeeps

LEMMA OutsideAnswers ==
  ASSUME IInv, Answers,
         NEW a \in Actor,
         \/ a \in Thread /\ \/ CancelTerminal(a) \/ CancelQueued(a) \/ CancelFlag(a) \/ CancelLookup(a) \/ AsDict(a)
                            \/ \E i : \E r : CancelRequest(a, i, r)
         \/ a \in Door /\ \/ Lookup(a) \/ Check(a) \/ CheckFlag(a) \/ Compose(a)
                          \/ RunEnds(a) \/ RunRaises(a) \/ Clear(a)
  PROVE  Answers'
<1> USE DEF Go, Alone, IInv, TypeOK, workerVars, life, Locked
<1>1. /\ Alone(a) /\ UNCHANGED <<requests, evidence, faults, up>>
      /\ pc[a] \notin Locked /\ pc'[a] \notin Locked
      /\ pc'[a] = "update" /\ a \in Door /\ upd'[a].response => upd'[a].state = "completed"
  <2>1. CASE CancelTerminal(a) \/ CancelQueued(a) \/ CancelFlag(a)
    BY <2>1 DEF CancelTerminal, CancelQueued, CancelFlag, CallUpdate
  <2>2. CASE CancelLookup(a) \/ AsDict(a) \/ \E i : \E r : CancelRequest(a, i, r)
    BY <2>2 DEF CancelLookup, AsDict, CancelRequest, Accepts, GetRequest
  <2>3. CASE Lookup(a) \/ Check(a) \/ CheckFlag(a)
    BY <2>3 DEF Lookup, Check, CheckFlag, GetRequest, CallUpdate
  <2>4. CASE Compose(a) \/ RunEnds(a) \/ RunRaises(a) \/ Clear(a)
    BY <2>4 DEF Compose, RunEnds, RunRaises, Clear, CallUpdate
  <2> QED
    BY <2>1, <2>2, <2>3, <2>4
<1> QED
  BY <1>1, OutsideKeeps

LEMMA QueueingAnswers ==
  ASSUME IInv, Answers, NEW a \in Actor, (a \in Thread /\ Enqueue(a)) \/ (a \in Door /\ Get(a))
  PROVE  Answers'
<1>1. /\ \A b \in Actor \ {a} : pc'[b] = pc[b] /\ rid'[b] = rid[b] /\ upd' = upd
      /\ UNCHANGED <<requests, evidence, faults, up>>
      /\ pc[a] \notin Locked /\ pc'[a] \notin Locked \cup {"update"}
  BY DEF Enqueue, EnqueueAt, Get, Go, IInv, TypeOK, life, Locked
<1>2. \A r : Writing(r) => Writing(r)'
  BY <1>1 DEF Writing, Locked
<1> QED
  BY <1>1, <1>2 DEF Answers, AnswersAreFinal, Synced, Agree, Terminal, Recording, Locked, Actor

LEMMA LifeAnswers ==
  ASSUME IInv, Answers, Crash \/ CrashDuringScan \/ Restart
  PROVE  Answers'
<1>1. \A a \in Actor : pc'[a] \in {"idle", "get"}
  BY LifeRests DEF AtRest
<1>2. /\ \A d \in Door : pc'[d] \notin {"update", "set_response"}
      /\ \A t \in Thread : ~ Recording(t)'
  BY <1>1 DEF Actor, Recording
<1>3. CASE Crash
  <2>1. up' = FALSE /\ evidence' = evidence /\ \A r \in RequestId : requests'[r] = None
    BY <1>3 DEF Crash
  <2>2. Synced'
    BY <2>1 DEF Synced
  <2> QED
    BY <1>2, <2>1, <2>2 DEF Answers, AnswersAreFinal
<1>4. CASE CrashDuringScan \/ Restart
  <2>1. PICK S \in SUBSET {r \in RequestId : Unfinished(r)} :
          /\ ~ up /\ evidence' = Interrupt(S)
          /\ \/ up' = up /\ requests' = requests
             \/ Recover(evidence') /\ S = {r \in RequestId : Unfinished(r)}
    BY <1>4 DEF CrashDuringScan, Restart, ScanAndLoad
  <2>2. ASSUME NEW r \in RequestId, evidence[r] # None
        PROVE  /\ evidence'[r] # None
               /\ evidence'[r].latest = IF r \in S THEN "interrupted" ELSE evidence[r].latest
               /\ evidence'[r].response = evidence[r].response
    <3>1. /\ evidence'[r] # None
          /\ evidence'[r].latest = IF r \in S THEN "interrupted" ELSE evidence[r].latest
      BY <2>1, <2>2, InterruptKeeps DEF IInv
    <3>2. evidence[r] \in EvidenceDir
      BY <2>2 DEF IInv, TypeOK
    <3>3. CASE r \in S
      <4>1. evidence'[r] = [evidence[r] EXCEPT !.latest = "interrupted", !.response = FALSE]
        BY <2>1, <3>3 DEF Interrupt
      <4>2. evidence'[r].response = FALSE
        BY <3>2, <4>1 DEF EvidenceDir
      <4>3. evidence[r].response = FALSE
        BY <2>2, <3>2, <3>3 DEF Answers, AnswersAreFinal, Unfinished, EvidenceDir
      <4> QED
        BY <3>1, <4>2, <4>3
    <3>4. CASE r \notin S
      <4>1. evidence'[r] = evidence[r]
        BY <2>1, <3>4 DEF Interrupt
      <4> QED
        BY <3>1, <4>1
    <3> QED
      BY <3>3, <3>4
  <2>3. ASSUME NEW r \in RequestId, evidence[r] = None PROVE evidence'[r] = None
    BY <2>1, <2>3, InterruptKeeps DEF IInv
  <2>4. \A r \in RequestId : evidence'[r] # None /\ evidence'[r].response => evidence'[r].latest \in TERMINAL_STATES
    BY <2>2, <2>3 DEF Answers, AnswersAreFinal, TERMINAL_STATES
  <2>5. CASE up' = up /\ requests' = requests
    <3>1. ~ up' /\ \A r \in RequestId : requests'[r] = None
      BY <2>1, <2>5 DEF IInv, DownInv
    <3> QED
      BY <1>2, <2>4, <3>1 DEF Answers, AnswersAreFinal, Synced
  <2>6. CASE Recover(evidence') /\ S = {r \in RequestId : Unfinished(r)}
    <3>1. ASSUME NEW r \in RequestId
          PROVE  IF evidence[r] = None THEN requests'[r] = None
                 ELSE /\ requests'[r].state = evidence'[r].latest /\ requests'[r].response = evidence'[r].response
                      /\ evidence'[r].latest \in TERMINAL_STATES
      <4>1. CASE evidence[r] = None
        BY <2>6, <4>1 DEF Recover
      <4>2. CASE evidence[r] # None
        <5>1. requests'[r].state = evidence'[r].latest /\ requests'[r].response = evidence[r].response
          BY <2>6, <4>2 DEF Recover
        <5> QED
          BY <2>2, <2>6, <4>2, <5>1 DEF Unfinished, TERMINAL_STATES
      <4> QED
        BY <4>1, <4>2
    <3>2. \A r \in RequestId : requests'[r] = None <=> evidence[r] = None
      <4>1. ASSUME NEW r \in RequestId, evidence[r] # None PROVE requests'[r] # None
        <5>1. requests'[r] = [session_id |-> evidence[r].session_id, identity |-> evidence[r].identity,
                              created_at |-> evidence[r].created_at,
                              state |-> evidence'[r].latest, response |-> evidence[r].response]
          BY <2>6, <4>1 DEF Recover
        <5>2. evidence[r] \in EvidenceDir /\ evidence'[r].latest \in VALID_STATES
          BY <3>1, <4>1 DEF IInv, TypeOK, VALID_STATES, TERMINAL_STATES
        <5>3. requests'[r] \in Request
          BY <5>1, <5>2 DEF Request, EvidenceDir
        <5> QED
          BY <5>3, StoreAssumption
      <4> QED
        BY <3>1, <4>1
    <3> QED
      BY <1>2, <2>2, <2>3, <2>4, <3>1, <3>2 DEF Answers, AnswersAreFinal, Synced, Agree, Terminal
  <2> QED
    BY <2>1, <2>5, <2>6
<1> QED
  BY <1>3, <1>4

LEMMA NextAnswers ==
  ASSUME IInv, Hold, Progress, Draft, Answers, WaitsUnanswered, [Next]_vars
  PROVE  Answers'
<1>1. ASSUME NEW t \in Thread, HandlerStart(t) \/ HandlerStep(t) \/ HandlerFails(t)
      PROVE  Answers'
  <2>1. CASE HandlerStart(t)
    <3>1. ASSUME NEW i, NEW r, CancelRequest(t, i, r) PROVE Answers'
      BY <3>1, OutsideAnswers DEF Actor
    <3> QED
      BY <2>1, <3>1, NewRequestAnswers
         DEF HandlerStart, StartRequest, ContinueRequest, CreateSessionAndRequest, ContinueSession, Accepts
  <2>2. CASE HandlerRecord(t)
    BY <2>2, RecordingAnswers DEF HandlerRecord
  <2>3. CASE HandlerUpdate(t)
    BY <2>3, UpdatingAnswers, AppendingAnswers DEF HandlerUpdate, Actor
  <2>4. CASE CancelTerminal(t) \/ CancelQueued(t) \/ CancelFlag(t) \/ CancelLookup(t) \/ AsDict(t)
    BY <2>4, OutsideAnswers DEF Actor
  <2>5. CASE Enqueue(t) \/ HandlerFails(t)
    BY <2>5, QueueingAnswers, FailingAnswers DEF Actor
  <2> QED
    BY <1>1, <2>1, <2>2, <2>3, <2>4, <2>5 DEF HandlerStep
<1>2. ASSUME NEW d \in Door, WorkerStep(d) \/ WorkerAppendFails(d)
      PROVE  Answers'
  <2>1. CASE WorkerUpdate(d)
    BY <2>1, UpdatingAnswers, AppendingAnswers DEF WorkerUpdate, Actor
  <2>2. CASE Get(d) \/ WorkerAppendFails(d)
    BY <2>2, QueueingAnswers, FailingAnswers DEF Actor
  <2>3. CASE Lookup(d) \/ Check(d) \/ CheckFlag(d) \/ Compose(d) \/ RunEnds(d) \/ RunRaises(d) \/ Clear(d)
    BY <2>3, OutsideAnswers DEF Actor
  <2> QED
    BY <1>2, <2>1, <2>2, <2>3 DEF WorkerStep
<1>3. CASE UNCHANGED vars
  BY <1>3 DEF vars, storeVars, life, Answers, AnswersAreFinal, Synced, Agree, Writing, Terminal, Recording
<1> QED
  BY <1>1, <1>2, <1>3, LifeAnswers DEF Next

(* Where an answer in memory comes from.                                   *)
LEMMA AnswersComeFrom ==
  ASSUME IInv, [Next]_vars, NEW r \in RequestId, requests'[r] # None, requests'[r].response
  PROVE  \/ requests[r] # None /\ requests[r].response
         \/ \E d \in Door : SetResponse(d) /\ rid[d] = r
         \/ Restart
<1>1. ASSUME NEW a \in Actor, SetState(a) PROVE requests[r] # None /\ requests[r].response
  <2>1. rid[a] \in RequestId /\ requests[rid[a]] \in Request /\ requests[rid[a]] # None
    BY <1>1 DEF SetState, IInv, WorkInv, TypeOK, AtRest, Recording
  <2>2. requests' = [requests EXCEPT ![rid[a]].state = upd[a].state]
    BY <1>1 DEF SetState
  <2>3. CASE r = rid[a]
    <3>1. requests'[r] = [requests[r] EXCEPT !.state = upd[a].state]
      BY <2>2, <2>3 DEF IInv, TypeOK
    <3> QED
      BY <2>1, <2>3, <3>1 DEF Request
  <2>4. CASE r # rid[a]
    BY <2>2, <2>4 DEF IInv, TypeOK
  <2> QED
    BY <2>3, <2>4
<1>2. ASSUME NEW a \in Actor, SetResponse(a), r # rid[a] PROVE requests[r] # None /\ requests[r].response
  BY <1>2 DEF SetResponse, IInv, TypeOK
<1>3. ASSUME NEW t \in Thread, RecordQueued(t) PROVE requests[r] # None /\ requests[r].response
  BY <1>3 DEF RecordQueued, InsertRequest, IInv, TypeOK
<1>4. ASSUME NEW t \in Thread, HandlerStart(t) \/ HandlerStep(t) \/ HandlerFails(t)
      PROVE  (requests[r] # None /\ requests[r].response) \/ requests' = requests
  <2>1. CASE HandlerStart(t)
    BY <2>1 DEF HandlerStart, StartRequest, ContinueRequest, CancelRequest, CreateSessionAndRequest, ContinueSession, NewRequest
  <2>2. CASE HandlerRecord(t) \/ Enqueue(t)
    BY <1>3, <2>2 DEF HandlerRecord, WriteJson, Enqueue, EnqueueAt
  <2>3. CASE HandlerUpdate(t)
    BY <1>1, <2>3 DEF HandlerUpdate, AppendEvent, Actor
  <2>4. CASE CancelTerminal(t) \/ CancelQueued(t) \/ CancelFlag(t) \/ CancelLookup(t) \/ AsDict(t)
    BY <2>4 DEF CancelTerminal, CancelQueued, CancelFlag, CancelLookup, AsDict, GetRequest
  <2>5. CASE HandlerFails(t)
    BY <2>5 DEF HandlerFails, RecordCreatedFails, AppendFails
  <2> QED
    BY <1>4, <2>1, <2>2, <2>3, <2>4, <2>5 DEF HandlerStep
<1>5. ASSUME NEW d \in Door, WorkerStep(d) \/ WorkerAppendFails(d)
      PROVE  (requests[r] # None /\ requests[r].response) \/ requests' = requests \/ (SetResponse(d) /\ rid[d] = r)
  <2>1. CASE WorkerUpdate(d)
    BY <1>1, <1>2, <2>1 DEF WorkerUpdate, AppendEvent, Actor
  <2>2. CASE Get(d) \/ Lookup(d) \/ Check(d) \/ CheckFlag(d)
    BY <2>2 DEF Get, Lookup, Check, CheckFlag, GetRequest
  <2>3. CASE Compose(d) \/ RunEnds(d) \/ RunRaises(d) \/ Clear(d) \/ WorkerAppendFails(d)
    BY <2>3 DEF Compose, RunEnds, RunRaises, Clear, WorkerAppendFails, AppendFails
  <2> QED
    BY <1>5, <2>1, <2>2, <2>3 DEF WorkerStep
<1>6. CASE Crash
  BY <1>6 DEF Crash
<1>7. CASE CrashDuringScan \/ UNCHANGED vars
  BY <1>7 DEF CrashDuringScan, vars, storeVars
<1> QED
  BY <1>4, <1>5, <1>6, <1>7 DEF Next

LEMMA NextWaitsUnanswered ==
  ASSUME IInv, Hold, Draft, WaitsUnanswered, [Next]_vars
  PROVE  WaitsUnanswered'
<1> SUFFICES ASSUME NEW r \in RequestId, requests'[r] # None, requests'[r].response, Phase(r)' = "waiting"
             PROVE  FALSE
  BY DEF WaitsUnanswered
<1>1. Phase(r) \in {"absent", "waiting"}
  <2>1. Phases' = Phases \/ Promise!Next
    BY NextIsPromised DEF Promise!vars, Phases
  <2>2. Phases' = Phases \/ Phases[r] \in {"absent", "waiting"}
    BY <2>1 DEF Promise!Next, Promise!Start, Promise!Finish, Promise!Accept, Promise!Crash, Phases
  <2> QED
    BY <2>2 DEF Phases
<1>2. CASE requests[r] # None /\ requests[r].response
  <2>1. ~ Absent(r)
    BY <1>2 DEF IInv, MemoryInv, Absent
  <2>2. Phase(r) # "absent"
    BY <2>1, PhaseIs
  <2> QED
    BY <1>1, <1>2, <2>2 DEF WaitsUnanswered
<1>3. ASSUME NEW d \in Door, SetResponse(d), rid[d] = r PROVE FALSE
  <2>1. pc[d] = "set_response" /\ Taken(d, r) /\ d \notin Thread /\ d \in Actor /\ requests[r] # None
    BY <1>3, StoreAssumption DEF SetResponse, Taken, IInv, WorkInv, AtRest, Recording, Actor
  <2>2. ~ Absent(r)
    BY <2>1 DEF IInv, MemoryInv, Absent
  <2>3. /\ ~ Awaits(d, r)
        /\ \A e \in Door : ~ InQueue(e, r) /\ (e # d => ~ Taken(e, r))
        /\ \A t \in Thread : ~ CreatedBy(t, r)
    BY <2>1, OfOneDoor DEF Hold, Awaits, Undispatched
  <2>4. \A a \in Actor : ~ Awaits(a, r)
    BY <2>3, StoreAssumption DEF Awaits, CreatedBy, Taken, Undispatched, Actor
  <2> QED
    BY <1>1, <2>2, <2>3, <2>4, PhaseIs
<1>4. CASE Restart
  <2>1. /\ \A d \in Door : ~ InQueue(d, r)'
        /\ \A a \in Actor : ~ Awaits(a, r)'
    BY <1>4, LifeRests DEF InQueue, AtRest, Awaits, Undispatched
  <2> QED
    BY <2>1, StoreAssumption DEF Phase, Absent, With, Awaits, Creating, Actor
<1> QED
  BY <1>2, <1>3, <1>4, AnswersComeFrom

(* What a restart would find is what is in memory, as long as no write of  *)
(* the evidence failed: append_event and record_created write what the     *)
(* store holds, and the scan finds what they wrote.                        *)
THEOREM MemoryAgrees == Spec => []MemoryIsEvidence
<1> DEFINE All == Serving /\ Draft /\ Answers /\ WaitsUnanswered
<1>1. Init => All
  <2> SUFFICES ASSUME Init PROVE All
    OBVIOUS
  <2>1. Serving
    BY InitInv, InitServes DEF Serving
  <2>2. Draft /\ WaitsUnanswered /\ Answers
    BY DEF Init, Draft, WaitsUnanswered, Answers, AnswersAreFinal, Synced, Agree, Recording, Actor
  <2> QED
    BY <2>1, <2>2
<1>2. All /\ [Next]_vars => All'
  BY NextInv, NextHold, NextServes, NextDraft, NextAnswers, NextWaitsUnanswered DEF Serving
<1>3. All => MemoryIsEvidence
  <2> SUFFICES ASSUME All, up, lock = None, faults = 0, NEW r \in RequestId
               PROVE  IF evidence[r] = None THEN requests[r] = None
                      ELSE /\ requests[r] # None
                           /\ requests[r].state = evidence[r].latest
                           /\ requests[r].response = evidence[r].response
                           /\ requests[r].session_id = evidence[r].session_id
                           /\ requests[r].identity = evidence[r].identity
    BY DEF MemoryIsEvidence
  <2>1. ~ Writing(r)
    BY StoreAssumption DEF Writing, Serving, IInv, LockDiscipline
  <2>2. Agree(r)
    BY <2>1 DEF Answers, Synced
  <2> QED
    BY <2>2 DEF Agree, Serving, IInv, MemoryInv
<1> QED
  BY <1>1, <1>2, <1>3, PTL DEF Spec

(* "A crashing runner is a failed request, not a dead worker": a worker    *)
(* thread ends only after the evidence failed.                             *)
THEOREM RunnersKillNoWorker == Spec => []CrashingRunnerKillsNoWorker
<1>1. Init => CrashingRunnerKillsNoWorker
  BY DEF Init, CrashingRunnerKillsNoWorker, Actor
<1>2. IInv /\ CrashingRunnerKillsNoWorker /\ [Next]_vars => CrashingRunnerKillsNoWorker'
  <2> SUFFICES ASSUME IInv, CrashingRunnerKillsNoWorker, [Next]_vars PROVE CrashingRunnerKillsNoWorker'
    OBVIOUS
  <2> USE DEF Go, IInv, TypeOK, Actor
  <2>1. ASSUME NEW t \in Thread, HandlerStart(t) \/ HandlerStep(t) \/ HandlerFails(t)
        PROVE  faults' \in {faults, faults + 1} /\ \A d \in Door : pc'[d] = pc[d]
    <3>1. t \notin Door
      BY StoreAssumption
    <3>2. CASE HandlerStart(t)
      BY <3>1, <3>2 DEF HandlerStart, StartRequest, ContinueRequest, CancelRequest, CreateSessionAndRequest,
                        ContinueSession, NewRequest
    <3>3. CASE HandlerRecord(t) \/ Enqueue(t) \/ HandlerUpdate(t)
      BY <3>1, <3>3 DEF HandlerRecord, WriteJson, RecordQueued, InsertRequest, Enqueue, EnqueueAt, HandlerUpdate,
                        SetState, AppendEvent
    <3>4. CASE CancelTerminal(t) \/ CancelQueued(t) \/ CancelFlag(t) \/ CancelLookup(t) \/ AsDict(t)
      BY <3>1, <3>4 DEF CancelTerminal, CancelQueued, CancelFlag, CancelLookup, AsDict, GetRequest, CallUpdate
    <3>5. CASE HandlerFails(t)
      BY <3>1, <3>5 DEF HandlerFails, RecordCreatedFails, AppendFails
    <3> QED
      BY <2>1, <3>2, <3>3, <3>4, <3>5 DEF HandlerStep
  <2>2. ASSUME NEW e \in Door, WorkerStep(e) \/ WorkerAppendFails(e)
        PROVE  \/ faults' = faults + 1
               \/ faults' = faults /\ pc'[e] # "dead" /\ \A d \in Door \ {e} : pc'[d] = pc[d]
    <3>1. CASE WorkerUpdate(e)
      BY <3>1 DEF WorkerUpdate, SetState, SetResponse, AppendEvent, AfterUpdate
    <3>2. CASE Get(e) \/ Lookup(e) \/ Check(e) \/ CheckFlag(e)
      BY <3>2 DEF Get, Lookup, Check, CheckFlag, GetRequest, CallUpdate
    <3>3. CASE Compose(e) \/ RunEnds(e) \/ RunRaises(e) \/ Clear(e)
      BY <3>3 DEF Compose, RunEnds, RunRaises, Clear, CallUpdate
    <3>4. CASE WorkerAppendFails(e)
      BY <3>4 DEF WorkerAppendFails, AppendFails
    <3> QED
      BY <2>2, <3>1, <3>2, <3>3, <3>4 DEF WorkerStep
  <2>3. CASE Crash \/ CrashDuringScan \/ Restart
    <3>1. \A d \in Door : pc'[d] # "dead"
      BY <2>3, LifeRests DEF AtRest
    <3> QED
      BY <3>1 DEF CrashingRunnerKillsNoWorker
  <2>4. CASE UNCHANGED vars
    BY <2>4 DEF vars, storeVars, CrashingRunnerKillsNoWorker
  <2>5. faults \in Nat
    OBVIOUS
  <2> HIDE DEF Go, IInv, TypeOK
  <2>6. ASSUME NEW t \in Thread, HandlerStart(t) \/ HandlerStep(t) \/ HandlerFails(t)
        PROVE  CrashingRunnerKillsNoWorker'
    BY <2>1, <2>5, <2>6 DEF CrashingRunnerKillsNoWorker
  <2>7. ASSUME NEW e \in Door, WorkerStep(e) \/ WorkerAppendFails(e)
        PROVE  CrashingRunnerKillsNoWorker'
    BY <2>2, <2>5, <2>7 DEF CrashingRunnerKillsNoWorker
  <2> QED
    BY <2>3, <2>4, <2>6, <2>7 DEF Next
<1> QED
  BY <1>1, <1>2, Invariance, PTL DEF Spec
-----------------------------------------------------------------------------
(* "interrupted".  Nobody asks for it, and nobody goes on with what memory *)
(* holds as interrupted: whoever reads that state turns away.              *)
ReadTheState == {"check_flag", "update", "set_response", "append_event", "compose", "run"}

StaysInterrupted ==
  /\ \A a \in Actor : upd[a].state # "interrupted"
  /\ \A r \in RequestId : up /\ evidence[r] # None /\ evidence[r].latest = "interrupted" =>
       requests[r] # None /\ requests[r].state = "interrupted"
  /\ \A a \in Actor : pc[a] \in ReadTheState => requests[rid[a]].state # "interrupted"

(* What a step may do to the last event of a request.                      *)
EventIsLawful(r) ==
  evidence[r] # None /\ evidence'[r] # None =>
    /\ evidence'[r].latest = "interrupted" /\ evidence[r].latest # "interrupted" => ~ up /\ Unfinished(r)
    /\ evidence[r].latest = "interrupted" => evidence'[r] = evidence[r]

Lawful == StaysInterrupted' /\ \A r \in RequestId : EventIsLawful(r)

(* A step that changes nothing but its actor and the queues.               *)
LEMMA ElsewhereIsLawful ==
  ASSUME IInv, StaysInterrupted, NEW a \in Actor, UNCHANGED <<requests, evidence, up>>,
         \A b \in Actor \ {a} : pc'[b] = pc[b] /\ rid'[b] = rid[b] /\ upd'[b] = upd[b],
         upd'[a].state # "interrupted",
         pc'[a] \in ReadTheState => rid'[a] = rid[a] /\ (pc[a] \in ReadTheState \/ requests[rid[a]].state = "queued")
  PROVE  Lawful
<1>1. \A b \in Actor : upd'[b].state # "interrupted"
  BY DEF StaysInterrupted
<1>2. \A b \in Actor : pc'[b] \in ReadTheState => requests'[rid'[b]].state # "interrupted"
  <2> SUFFICES ASSUME NEW b \in Actor, pc'[b] \in ReadTheState PROVE requests[rid'[b]].state # "interrupted"
    OBVIOUS
  <2> QED
    BY DEF StaysInterrupted
<1> QED
  BY <1>1, <1>2 DEF Lawful, StaysInterrupted, EventIsLawful

LEMMA OutsideIsLawful ==
  ASSUME IInv, StaysInterrupted, NEW a \in Actor,
         \/ a \in Thread /\ \/ CancelTerminal(a) \/ CancelQueued(a) \/ CancelFlag(a) \/ CancelLookup(a) \/ AsDict(a)
                            \/ Enqueue(a) \/ \E i : \E r : CancelRequest(a, i, r)
         \/ a \in Door /\ \/ Lookup(a) \/ Check(a) \/ CheckFlag(a) \/ Compose(a) \/ Get(a)
                          \/ RunEnds(a) \/ RunRaises(a) \/ Clear(a)
  PROVE  Lawful
<1> USE DEF Go, IInv, TypeOK, workerVars, life, ReadTheState
<1>1. upd[a].state # "interrupted"
  BY DEF StaysInterrupted
<1>2. /\ UNCHANGED <<requests, evidence, up>>
      /\ \A b \in Actor \ {a} : pc'[b] = pc[b] /\ rid'[b] = rid[b] /\ upd'[b] = upd[b]
      /\ upd'[a].state # "interrupted"
      /\ pc'[a] \in ReadTheState => rid'[a] = rid[a] /\ (pc[a] \in ReadTheState \/ requests[rid[a]].state = "queued")
  <2>1. CASE CancelTerminal(a) \/ CancelQueued(a) \/ CancelFlag(a)
    BY <1>1, <2>1 DEF CancelTerminal, CancelQueued, CancelFlag, CallUpdate
  <2>2. CASE CancelLookup(a) \/ AsDict(a) \/ Enqueue(a) \/ \E i : \E r : CancelRequest(a, i, r)
    BY <1>1, <2>2 DEF CancelLookup, AsDict, Enqueue, EnqueueAt, CancelRequest, Accepts, GetRequest
  <2>3. CASE Lookup(a) \/ Check(a) \/ CheckFlag(a) \/ Get(a)
    BY <1>1, <2>3 DEF Lookup, Check, CheckFlag, Get, GetRequest, CallUpdate
  <2>4. CASE Compose(a) \/ RunEnds(a) \/ RunRaises(a) \/ Clear(a)
    BY <1>1, <2>4 DEF Compose, RunEnds, RunRaises, Clear, CallUpdate
  <2> QED
    BY <2>1, <2>2, <2>3, <2>4
<1> QED
  BY <1>2, ElsewhereIsLawful

(* A step of the actor that writes to a request: nobody interrupted it.    *)
LEMMA WritingIsLawful ==
  ASSUME IInv, StaysInterrupted, NEW a \in Actor, NEW r \in RequestId, up' = up,
         \A b \in Actor \ {a} : pc'[b] = pc[b] /\ rid'[b] = rid[b] /\ upd'[b] = upd[b],
         upd'[a].state # "interrupted",
         \A q \in RequestId \ {r} : requests'[q] = requests[q] /\ evidence'[q] = evidence[q],
         pc'[a] \in ReadTheState => rid'[a] = r,
         requests'[r] # None => requests'[r].state # "interrupted",
         evidence[r] # None => evidence[r].latest # "interrupted",
         evidence'[r] # None => evidence'[r].latest # "interrupted",
         IInv'
  PROVE  Lawful
<1>1. \A b \in Actor : upd'[b].state # "interrupted"
  BY DEF StaysInterrupted
<1>2. ASSUME NEW b \in Actor, pc'[b] \in ReadTheState PROVE requests'[rid'[b]].state # "interrupted"
  <2>1. rid'[b] \in RequestId /\ requests'[rid'[b]] # None
    BY <1>2 DEF IInv, WorkInv, AtRest, Recording, ReadTheState
  <2>2. CASE rid'[b] = r
    BY <2>1, <2>2
  <2>3. CASE rid'[b] # r
    BY <1>2, <2>1, <2>3 DEF StaysInterrupted
  <2> QED
    BY <2>2, <2>3
<1>3. ASSUME NEW q \in RequestId, up', evidence'[q] # None, evidence'[q].latest = "interrupted"
      PROVE  requests'[q] # None /\ requests'[q].state = "interrupted"
  BY <1>3 DEF StaysInterrupted
<1>4. \A q \in RequestId : EventIsLawful(q)
  BY DEF EventIsLawful
<1> QED
  BY <1>1, <1>2, <1>3, <1>4 DEF Lawful, StaysInterrupted

(* An actor that is at work works in a live process.                       *)
LEMMA WorksInLive ==
  ASSUME IInv, NEW a \in Actor, ~ AtRest(a)
  PROVE  up
BY DEF IInv, DownInv

LEMMA CreatingIsLawful ==
  ASSUME IInv, IInv', StaysInterrupted, NEW t \in Thread,
         \/ WriteJson(t) \/ RecordQueued(t) \/ RecordCreatedFails(t)
         \/ \E s, i : \E r \in RequestId : NewRequest(t, s, i, r)
  PROVE  Lawful
<1>1. t \in Actor /\ upd[t].state # "interrupted"
  BY DEF StaysInterrupted, Actor
<1>2. CASE WriteJson(t) \/ RecordQueued(t) \/ RecordCreatedFails(t)
  <2>1. Recording(t) /\ ~ AtRest(t)
    BY <1>2 DEF WriteJson, RecordQueued, RecordCreatedFails, Recording, AtRest
  <2>2. PICK r \in RequestId : r = rid[t] /\ evidence[r] # None /\ requests[r] = None
    BY <1>1, <2>1 DEF IInv, WorkInv
  <2>3. evidence[r].latest # "interrupted"
    BY <1>1, <2>1, <2>2, WorksInLive DEF StaysInterrupted
  <2>4. /\ up' = up /\ \A b \in Actor \ {t} : pc'[b] = pc[b] /\ rid'[b] = rid[b] /\ upd'[b] = upd[b]
        /\ upd'[t].state # "interrupted" /\ pc'[t] \notin ReadTheState
        /\ \A q \in RequestId \ {r} : requests'[q] = requests[q] /\ evidence'[q] = evidence[q]
    BY <1>1, <1>2, <2>2
       DEF WriteJson, RecordQueued, RecordCreatedFails, InsertRequest, Go, IInv, TypeOK, life, ReadTheState
  <2>5. requests'[r] # None => requests'[r].state # "interrupted"
    BY <1>2, <2>2 DEF WriteJson, RecordQueued, RecordCreatedFails, InsertRequest, IInv, TypeOK
  <2>6. evidence'[r] # None => evidence'[r].latest # "interrupted"
    <3>1. evidence[r] \in EvidenceDir
      BY <2>2 DEF IInv, TypeOK
    <3>2. \/ evidence'[r] = [evidence[r] EXCEPT !.latest = "none"]
          \/ evidence'[r] = [evidence[r] EXCEPT !.latest = "queued"]
          \/ evidence'[r] = evidence[r]
          \/ evidence'[r] = None
      BY <1>2, <2>2 DEF WriteJson, RecordQueued, RecordCreatedFails, IInv, TypeOK
    <3> QED
      BY <2>3, <3>1, <3>2 DEF EvidenceDir
  <2> QED
    BY <1>1, <2>2, <2>3, <2>4, <2>5, <2>6, WritingIsLawful
<1>3. ASSUME NEW s, NEW i, NEW r \in RequestId, NewRequest(t, s, i, r)
      PROVE  Lawful
  <2>1. /\ up' = up /\ \A b \in Actor \ {t} : pc'[b] = pc[b] /\ rid'[b] = rid[b] /\ upd'[b] = upd[b]
        /\ upd'[t].state # "interrupted" /\ pc'[t] \notin ReadTheState
        /\ \A q \in RequestId \ {r} : requests'[q] = requests[q] /\ evidence'[q] = evidence[q]
        /\ requests'[r] = None /\ evidence[r] = None
        /\ evidence'[r].latest = "torn"
    BY <1>1, <1>3 DEF NewRequest, Go, IInv, TypeOK, life, ReadTheState
  <2> QED
    BY <1>1, <2>1, WritingIsLawful
<1> QED
  BY <1>2, <1>3

LEMMA UpdatingIsLawful ==
  ASSUME IInv, IInv', StaysInterrupted, NEW a \in Actor,
         \/ SetState(a) \/ SetResponse(a) \/ AppendEvent(a)
         \/ a \in Door /\ WorkerAppendFails(a)
         \/ a \in Thread /\ AppendFails(a) /\ HandlerFails(a)
  PROVE  Lawful
<1>1. pc[a] \in ReadTheState /\ pc[a] \in {"update", "set_response", "append_event"}
  BY StoreAssumption
     DEF SetState, SetResponse, AppendEvent, WorkerAppendFails, AppendFails, ReadTheState
<1>2. PICK r \in RequestId : r = rid[a] /\ requests[r] # None /\ requests[r] \in Request /\ evidence[r] \in EvidenceDir
  BY <1>1 DEF IInv, WorkInv, TypeOK, AtRest, Recording
<1>3. requests[r].state # "interrupted" /\ upd[a].state # "interrupted" /\ evidence[r].latest # "interrupted"
  <2>1. up /\ evidence[r] # None
    BY <1>1, <1>2, WorksInLive, StoreAssumption DEF AtRest
  <2> QED
    BY <1>1, <1>2, <2>1 DEF StaysInterrupted
<1>4. /\ up' = up /\ \A b \in Actor \ {a} : pc'[b] = pc[b] /\ rid'[b] = rid[b] /\ upd'[b] = upd[b]
      /\ \A q \in RequestId \ {r} : requests'[q] = requests[q] /\ evidence'[q] = evidence[q]
      /\ pc'[a] \in ReadTheState => rid'[a] = r
  <2>1. CASE SetState(a) \/ SetResponse(a) \/ AppendEvent(a)
    BY <1>2, <2>1 DEF SetState, SetResponse, AppendEvent, Go, IInv, TypeOK, life
  <2>2. CASE a \in Door /\ WorkerAppendFails(a)
    BY <1>2, <2>2 DEF WorkerAppendFails, AppendFails, CallUpdate, Go, IInv, TypeOK, life
  <2>3. CASE a \in Thread /\ AppendFails(a) /\ HandlerFails(a)
    BY <1>1, <1>2, <2>3 DEF HandlerFails, RecordCreatedFails, AppendFails, Go, IInv, TypeOK, life, ReadTheState
  <2> QED
    BY <2>1, <2>2, <2>3
<1>5. upd'[a].state # "interrupted"
  <2>1. CASE SetState(a) \/ SetResponse(a) \/ AppendEvent(a)
    BY <1>3, <2>1, StoreAssumption DEF SetState, SetResponse, AppendEvent, NoUpdate, VALID_STATES, IInv, TypeOK
  <2>2. CASE a \in Door /\ WorkerAppendFails(a)
    BY <1>3, <2>2, StoreAssumption DEF WorkerAppendFails, CallUpdate, NoUpdate, VALID_STATES, IInv, TypeOK
  <2>3. CASE a \in Thread /\ AppendFails(a) /\ HandlerFails(a)
    BY <1>1, <1>3, <2>3, StoreAssumption DEF HandlerFails, RecordCreatedFails, NoUpdate, VALID_STATES, IInv, TypeOK
  <2> QED
    BY <2>1, <2>2, <2>3
<1>6. requests'[r].state # "interrupted"
  <2>1. \/ requests'[r] = requests[r]
        \/ requests'[r] = [requests[r] EXCEPT !.state = upd[a].state]
        \/ requests'[r] = [requests[r] EXCEPT !.response = TRUE]
    BY <1>1, <1>2 DEF SetState, SetResponse, AppendEvent, WorkerAppendFails, HandlerFails, RecordCreatedFails, AppendFails, IInv, TypeOK
  <2> QED
    BY <1>2, <1>3, <2>1 DEF Request
<1>7. evidence'[r].latest # "interrupted"
  <2>1. \/ evidence'[r] = evidence[r]
        \/ evidence'[r] = [evidence[r] EXCEPT !.latest = requests[r].state, !.response = requests[r].response]
    BY <1>1, <1>2 DEF SetState, SetResponse, AppendEvent, WorkerAppendFails, HandlerFails, RecordCreatedFails, AppendFails, IInv, TypeOK
  <2> QED
    BY <1>2, <1>3, <2>1 DEF EvidenceDir
<1> QED
  BY <1>3, <1>4, <1>5, <1>6, <1>7, WritingIsLawful

LEMMA LifeIsLawful ==
  ASSUME IInv, IInv', StaysInterrupted, Crash \/ CrashDuringScan \/ Restart
  PROVE  Lawful
<1>1. \A a \in Actor : pc'[a] \notin ReadTheState
  BY LifeRests DEF AtRest, ReadTheState
<1>2. \A a \in Actor : upd'[a].state # "interrupted"
  BY StoreAssumption DEF Crash, CrashDuringScan, Restart, FreshProcess, NoUpdate, VALID_STATES, StaysInterrupted
<1>3. CASE Crash
  BY <1>1, <1>2, <1>3 DEF Crash, Lawful, StaysInterrupted, EventIsLawful
<1>4. CASE CrashDuringScan \/ Restart
  <2>1. PICK S \in SUBSET {r \in RequestId : Unfinished(r)} :
          /\ ~ up /\ evidence' = Interrupt(S)
          /\ ~ up' \/ Recover(evidence')
    BY <1>4 DEF CrashDuringScan, Restart, ScanAndLoad
  <2>2. \A r \in RequestId : EventIsLawful(r)
    <3> SUFFICES ASSUME NEW r \in RequestId, evidence[r] # None PROVE EventIsLawful(r)
      BY DEF EventIsLawful
    <3>1. CASE r \in S
      <4>1. ~ up /\ Unfinished(r) /\ evidence[r].latest # "interrupted"
        BY <2>1, <3>1 DEF Unfinished, TERMINAL_STATES
      <4> QED
        BY <4>1 DEF EventIsLawful
    <3>2. CASE r \notin S
      <4>1. Interrupt(S)[r] = evidence[r]
        BY <3>2 DEF Interrupt
      <4> QED
        BY <2>1, <4>1 DEF EventIsLawful
    <3> QED
      BY <3>1, <3>2
  <2>3. ASSUME NEW r \in RequestId, up', evidence'[r] # None, evidence'[r].latest = "interrupted"
        PROVE  requests'[r] # None /\ requests'[r].state = "interrupted"
    <3>1. evidence[r] # None
      BY <2>1, <2>3, InterruptKeeps DEF IInv
    <3>2. requests'[r] = [session_id |-> evidence[r].session_id, identity |-> evidence[r].identity,
                          created_at |-> evidence[r].created_at,
                          state |-> evidence'[r].latest, response |-> evidence[r].response]
      BY <2>1, <2>3, <3>1 DEF Recover
    <3>3. evidence[r] \in EvidenceDir
      BY <3>1 DEF IInv, TypeOK
    <3>4. requests'[r] \in Request
      BY <2>3, <3>2, <3>3 DEF Request, EvidenceDir, VALID_STATES
    <3> QED
      BY <2>3, <3>2, <3>4, StoreAssumption
  <2> QED
    BY <1>1, <1>2, <2>2, <2>3 DEF Lawful, StaysInterrupted
<1> QED
  BY <1>3, <1>4

LEMMA NextIsLawful == IInv /\ StaysInterrupted /\ [Next]_vars => Lawful
<1> SUFFICES ASSUME IInv, StaysInterrupted, [Next]_vars PROVE Lawful
  OBVIOUS
<1>1. IInv'
  BY NextInv
<1>2. ASSUME NEW t \in Thread, HandlerStart(t) \/ HandlerStep(t) \/ HandlerFails(t)
      PROVE  Lawful
  <2>1. CASE HandlerStart(t)
    <3>1. ASSUME NEW i, NEW r, CancelRequest(t, i, r) PROVE Lawful
      BY <3>1, OutsideIsLawful DEF Actor
    <3> QED
      BY <1>1, <2>1, <3>1, CreatingIsLawful
         DEF HandlerStart, StartRequest, ContinueRequest, CreateSessionAndRequest, ContinueSession
  <2>2. CASE HandlerRecord(t)
    BY <1>1, <2>2, CreatingIsLawful DEF HandlerRecord
  <2>3. CASE HandlerUpdate(t)
    BY <1>1, <2>3, UpdatingIsLawful DEF HandlerUpdate, Actor
  <2>4. CASE CancelTerminal(t) \/ CancelQueued(t) \/ CancelFlag(t) \/ CancelLookup(t) \/ AsDict(t) \/ Enqueue(t)
    BY <2>4, OutsideIsLawful DEF Actor
  <2>5. CASE HandlerFails(t)
    BY <1>1, <2>5, CreatingIsLawful, UpdatingIsLawful DEF HandlerFails, Actor
  <2> QED
    BY <1>2, <2>1, <2>2, <2>3, <2>4, <2>5 DEF HandlerStep
<1>3. ASSUME NEW d \in Door, WorkerStep(d) \/ WorkerAppendFails(d)
      PROVE  Lawful
  <2>1. CASE WorkerUpdate(d) \/ WorkerAppendFails(d)
    BY <1>1, <2>1, UpdatingIsLawful DEF WorkerUpdate, Actor
  <2>2. CASE Get(d) \/ Lookup(d) \/ Check(d) \/ CheckFlag(d) \/ Compose(d) \/ RunEnds(d) \/ RunRaises(d) \/ Clear(d)
    BY <2>2, OutsideIsLawful DEF Actor
  <2> QED
    BY <1>3, <2>1, <2>2 DEF WorkerStep
<1>4. CASE UNCHANGED vars
  BY <1>4 DEF vars, storeVars, life, Lawful, StaysInterrupted, EventIsLawful
<1> QED
  BY <1>1, <1>2, <1>3, <1>4, LifeIsLawful DEF Next

(* "interrupted" is the startup scan's word for a request that a kill cut  *)
(* off: nobody else writes it, of no request that was over, and nothing    *)
(* that any thread, worker or later kill does takes it back.               *)
THEOREM OnlyTheScanInterrupts == Spec => InterruptedOnlyByScan
<1>1. Init => StaysInterrupted
  BY StoreAssumption DEF Init, StaysInterrupted, NoUpdate, ReadTheState, VALID_STATES, Actor
<1>2. IInv /\ StaysInterrupted /\ [Next]_vars => StaysInterrupted'
  BY NextIsLawful DEF Lawful
<1>3. IInv /\ StaysInterrupted /\ [Next]_vars =>
        [\A r \in RequestId : evidence[r] # None /\ evidence'[r] # None =>
           /\ evidence'[r].latest = "interrupted" /\ evidence[r].latest # "interrupted" =>
                ~ up /\ Unfinished(r)
           /\ evidence[r].latest = "interrupted" => evidence'[r] = evidence[r]]_vars
  BY NextIsLawful DEF Lawful, EventIsLawful
<1> QED
  BY <1>1, <1>2, <1>3, Invariance, PTL DEF Spec, InterruptedOnlyByScan
=============================================================================
