------------------------------- MODULE DmWindow -------------------------------
(***************************************************************************)
(* The direct messages of the chat listener (zulip_window.py).  Each is    *)
(* answered on a thread of its own, which asks the window door over HTTP,  *)
(* says so, polls until the turn is over or 420 s have passed, and sends   *)
(* the answer; whatever fails on the way is told instead.                  *)
(*                                                                         *)
(* The door is the promise of the request service, TurnService: each ask   *)
(* opens a session of its own.                                             *)
(***************************************************************************)
EXTENDS Naturals, Sequences, FiniteSets, FiniteSetsExt

CONSTANTS
  Dm,          \* direct messages
  RequestId,
  None,
  MaxFaults,   \* bound: calls that fail
  MaxKills     \* bound: deaths of the listener, and of the service

ASSUME DmAssumption ==
  None \notin RequestId /\ MaxFaults \in Nat /\ MaxKills \in Nat /\ IsFiniteSet(Dm)

VARIABLES
  at,          \* where the thread of each message is
  request,     \* the request it knows it asked for
  late,        \* its deadline has passed
  reply,       \* what `wait` returned
  sent,        \* what reached the sender
  failed,      \* calls of the thread that failed
  listening,   \* the listener runs
  kills,
  phase, session,   \* of the requests: TurnService
  response          \* of a turn that is over: "none", "coming", "there"

threadVars == <<at, request, late, reply, sent, failed>>
serviceVars == <<phase, session, response>>
vars == <<threadVars, listening, kills, serviceVars>>

Window == INSTANCE TurnService WITH SessionId <- RequestId

Running == {"history", "ask", "ack", "wait", "look", "answer", "broken"}
-----------------------------------------------------------------------------
Init ==
  /\ at = [m \in Dm |-> "unsent"]
  /\ request = [m \in Dm |-> None]
  /\ late = [m \in Dm |-> FALSE]
  /\ reply = [m \in Dm |-> "none"]
  /\ sent = [m \in Dm |-> <<>>]
  /\ failed = [m \in Dm |-> 0]
  /\ listening = TRUE /\ kills = 0
  /\ Window!Init
  /\ response = [r \in RequestId |-> "none"]

Goes(m, step) == at' = [at EXCEPT ![m] = step]
Sends(m, what) == sent' = [sent EXCEPT ![m] = Append(@, what)]

(* A message is posted; the listener starts a thread, or is not there.     *)
react(m) ==
  /\ at[m] = "unsent"
  /\ Goes(m, IF listening THEN "history" ELSE "lost")
  /\ UNCHANGED <<request, late, reply, sent, failed, listening, kills, serviceVars>>

dm_history(m) ==
  /\ at[m] = "history"
  /\ Goes(m, "ask")
  /\ UNCHANGED <<request, late, reply, sent, failed, listening, kills, serviceVars>>

(* POST /window: a session and a request.                                  *)
Accepted(r) == Window!Accept(r, r) /\ UNCHANGED response

(* Mutation: the shared client, not the thread, keeps the request's id.    *)
ask_shared(m) ==
  /\ at[m] = "ask"
  /\ \E r \in RequestId :
       Accepted(r) /\ request' = [n \in Dm |-> IF n = m \/ request[n] # None THEN r ELSE None]
  /\ Goes(m, "ack")
  /\ UNCHANGED <<late, reply, sent, failed, listening, kills>>

ask(m) ==
  /\ at[m] = "ask"
  /\ \E r \in RequestId : Accepted(r) /\ request' = [request EXCEPT ![m] = r]
  /\ Goes(m, "ack")
  /\ UNCHANGED <<late, reply, sent, failed, listening, kills>>

send_ack(m) ==
  /\ at[m] = "ack"
  /\ Goes(m, "wait")
  /\ UNCHANGED <<request, late, reply, sent, failed, listening, kills, serviceVars>>

(* One GET of `wait`: it is over, or it is still running ...               *)
Outcome(r) == IF response[r] = "there" THEN "response" ELSE "no_answer"

poll(m) ==
  /\ at[m] = "wait"
  /\ IF phase[request[m]] = "over"
     THEN Goes(m, "answer") /\ reply' = [reply EXCEPT ![m] = Outcome(request[m])]
     ELSE Goes(m, "look") /\ UNCHANGED reply
  /\ UNCHANGED <<request, late, sent, failed, listening, kills, serviceVars>>

(* ... and then the clock is looked at: past the deadline it gives up.     *)
(* Mutation: there is no deadline.                                         *)
look_on(m) ==
  /\ at[m] = "look"
  /\ Goes(m, "wait")
  /\ UNCHANGED <<request, late, reply, sent, failed, listening, kills, serviceVars>>

look(m) ==
  /\ at[m] = "look"
  /\ IF late[m]
     THEN Goes(m, "answer") /\ reply' = [reply EXCEPT ![m] = "no_answer"]
     ELSE Goes(m, "wait") /\ UNCHANGED reply
  /\ UNCHANGED <<request, late, sent, failed, listening, kills, serviceVars>>

answer(m) ==
  /\ at[m] = "answer"
  /\ Sends(m, reply[m])
  /\ Goes(m, "done")
  /\ UNCHANGED <<request, late, reply, failed, listening, kills, serviceVars>>

Faults == FoldFunction(+, 0, failed)

Raises(m) ==
  /\ Faults < MaxFaults
  /\ failed' = [failed EXCEPT ![m] = @ + 1]
  /\ UNCHANGED <<request, late, reply, listening, kills>>

(* Mutation: nothing catches it, and the thread is gone.                   *)
call_uncaught(m) ==
  /\ at[m] \in {"history", "ask", "ack", "wait", "answer"}
  /\ Raises(m) /\ Goes(m, "done")
  /\ UNCHANGED <<sent, serviceVars>>

(* Mutation: a POST that failed is sent again.                             *)
call_retries(m) ==
  /\ at[m] \in {"history", "ask", "ack", "wait", "answer"}
  /\ Raises(m) /\ Goes(m, IF at[m] = "ask" THEN "ask" ELSE "broken")
  /\ \/ UNCHANGED <<sent, serviceVars>>
     \/ at[m] = "ask" /\ (\E r \in RequestId : Accepted(r)) /\ UNCHANGED sent
     \/ at[m] = "answer" /\ Sends(m, reply[m]) /\ UNCHANGED serviceVars

(* A call raises, and that is told.  It may have arrived all the same: the *)
(* request it asked for is then served for nobody.                         *)
call_fails(m) ==
  /\ at[m] \in {"history", "ask", "ack", "wait", "answer"}
  /\ Raises(m) /\ Goes(m, "broken")
  /\ \/ UNCHANGED <<sent, serviceVars>>
     \/ at[m] = "ask" /\ (\E r \in RequestId : Accepted(r)) /\ UNCHANGED sent
     \/ at[m] = "answer" /\ Sends(m, reply[m]) /\ UNCHANGED serviceVars

report(m) ==
  /\ at[m] = "broken"
  /\ Sends(m, "broken")
  /\ Goes(m, "done")
  /\ UNCHANGED <<request, late, reply, failed, listening, kills, serviceVars>>

(* That fails too, and is only logged.                                     *)
report_fails(m) ==
  /\ at[m] = "broken"
  /\ Raises(m) /\ Goes(m, "done")
  /\ sent' = sent \/ Sends(m, "broken")
  /\ UNCHANGED serviceVars
-----------------------------------------------------------------------------
(* 420 s since the thread began to wait.                                   *)
deadline(m) ==
  /\ at[m] \in {"wait", "look"} /\ ~ late[m]
  /\ late' = [late EXCEPT ![m] = TRUE]
  /\ UNCHANGED <<at, request, reply, sent, failed, listening, kills, serviceVars>>

(* The service takes a request up, and its turn ends as it may: the state  *)
(* is set first and the response then, and a poll may come in between.     *)
turn_starts(r) ==
  /\ Window!Start(r)
  /\ UNCHANGED <<threadVars, listening, kills, response>>

turn_ends(r) ==
  /\ Window!Finish(r)
  /\ \E answered \in BOOLEAN :
       /\ answered => phase[r] = "running"
       /\ response' = [response EXCEPT ![r] = IF answered THEN "coming" ELSE "none"]
  /\ UNCHANGED <<threadVars, listening, kills>>

turn_responds(r) ==
  /\ response[r] = "coming"
  /\ response' = [response EXCEPT ![r] = "there"]
  /\ UNCHANGED <<threadVars, listening, kills, phase, session>>

service_dies ==
  /\ kills < MaxKills /\ kills' = kills + 1
  /\ Window!Crash
  /\ response' = [r \in RequestId |-> IF response[r] = "there" THEN "there" ELSE "none"]
  /\ UNCHANGED <<threadVars, listening>>

(* The threads die with the listener, and nothing takes them up again.     *)
listener_dies ==
  /\ listening /\ kills < MaxKills /\ kills' = kills + 1
  /\ listening' = FALSE
  /\ at' = [m \in Dm |-> IF at[m] \in Running THEN "lost" ELSE at[m]]
  /\ UNCHANGED <<request, late, reply, sent, failed, serviceVars>>

listener_starts ==
  /\ ~ listening /\ listening' = TRUE
  /\ UNCHANGED <<threadVars, kills, serviceVars>>

run_and_reply(m) ==
  \/ dm_history(m) \/ ask(m) \/ send_ack(m) \/ poll(m) \/ look(m) \/ answer(m)

worker(m) == run_and_reply(m) \/ call_fails(m) \/ report(m) \/ report_fails(m)

Next ==
  \/ \E m \in Dm : react(m) \/ worker(m) \/ deadline(m)
  \/ \E r \in RequestId : turn_starts(r) \/ turn_ends(r) \/ turn_responds(r)
  \/ service_dies \/ listener_dies \/ listener_starts

Spec == Init /\ [][Next]_vars

(* A thread goes on, each of its calls returning or raising within 30 s,   *)
(* and the clock runs.  Nothing is assumed of the service.                 *)
FairSpec == Spec /\ \A m \in Dm : WF_vars(worker(m)) /\ WF_vars(deadline(m))
-----------------------------------------------------------------------------
Told(m) ==
  (IF \E i \in DOMAIN sent[m] : sent[m][i] # "broken" THEN {"answer"} ELSE {})
    \cup (IF \E i \in DOMAIN sent[m] : sent[m][i] = "broken" THEN {"broken"} ELSE {})

StateOf(m) ==
  IF at[m] \in Running THEN "open" ELSE IF at[m] = "done" THEN "closed" ELSE at[m]

Promise == INSTANCE Entrance WITH
  state <- [m \in Dm |-> StateOf(m)], told <- [m \in Dm |-> Told(m)]

(* "One answer per message": whatever fails, a message gets one answer at  *)
(* most, a notice of what broke after it if at all, and nothing later; and *)
(* unless the listener dies its thread comes to an end, although turns may *)
(* never do.                                                               *)
OneAnswerPerMessage == Promise!Spec

(* "A silent chat reads as broken": a thread that ends without a word had  *)
(* two calls that failed, one of them the notice.                          *)
NeverSilent == \A m \in Dm : at[m] = "done" /\ sent[m] = <<>> => failed[m] >= 2

(* What a sender gets as the answer is the response of the turn that was   *)
(* run for this message, although the request may be killed, or end, while *)
(* it is waited for.                                                       *)
AnswerIsOfTheTurn ==
  \A m \in Dm :
    /\ \A i \in DOMAIN sent[m] :
         sent[m][i] = "response" => phase[request[m]] = "over" /\ response[request[m]] = "there"
    /\ \A n \in Dm \ {m} : request[m] # None => request[n] # request[m]

(* A turn is paid for once: no failure, kill or deadline makes a message   *)
(* ask for a second one.                                                   *)
OneTurnPerMessage ==
  Cardinality({r \in RequestId : phase[r] # "absent"})
    =< Cardinality({m \in Dm : at[m] \notin {"unsent", "history", "ask"}})
=============================================================================
