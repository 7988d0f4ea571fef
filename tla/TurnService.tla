----------------------------- MODULE TurnService -----------------------------
(***************************************************************************)
(* What the agent promises whoever sends it a message, whatever its        *)
(* threads do: a request is taken up once, its turn is started at most     *)
(* once, turns of one session never overlap, and what the process held     *)
(* when it was killed is over, never started again.                        *)
(***************************************************************************)
CONSTANTS RequestId, SessionId, None

VARIABLES
  phase,    \* of each request: absent, waiting, running or over
  session   \* the session a request belongs to, None while absent

vars == <<phase, session>>

TypeOK ==
  /\ phase \in [RequestId -> {"absent", "waiting", "running", "over"}]
  /\ session \in [RequestId -> SessionId \cup {None}]

Init ==
  /\ phase = [r \in RequestId |-> "absent"]
  /\ session = [r \in RequestId |-> None]

Accept(r, s) ==
  /\ phase[r] = "absent"
  /\ phase' = [phase EXCEPT ![r] = "waiting"]
  /\ session' = [session EXCEPT ![r] = s]

Start(r) ==
  /\ phase[r] = "waiting"
  /\ \A q \in RequestId : phase[q] = "running" => session[q] # session[r]
  /\ phase' = [phase EXCEPT ![r] = "running"]
  /\ UNCHANGED session

(* The turn ends, or the request is given up before it starts.             *)
Finish(r) ==
  /\ phase[r] \in {"waiting", "running"}
  /\ phase' = [phase EXCEPT ![r] = "over"]
  /\ UNCHANGED session

Crash ==
  /\ phase' = [r \in RequestId |-> IF phase[r] = "absent" THEN "absent" ELSE "over"]
  /\ UNCHANGED session

Next ==
  \/ \E r \in RequestId :
       Start(r) \/ Finish(r) \/ \E s \in SessionId : Accept(r, s)
  \/ Crash

Spec == Init /\ [][Next]_vars
=============================================================================
