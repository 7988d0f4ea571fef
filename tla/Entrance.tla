------------------------------- MODULE Entrance -------------------------------
(***************************************************************************)
(* What the chat entrance promises whoever writes to it (zulip_window.py): *)
(* "no queue persistence, no delivery guarantees, one answer per message". *)
(* A message that was taken up is served to an end unless the listener     *)
(* dies; it gets at most one answer, and at most one notice that something *)
(* broke, which is the last it gets.                                       *)
(***************************************************************************)
CONSTANT Dm

VARIABLES
  state,   \* of each message: unsent, open, closed or lost
  told     \* what it got: answer, broken

vars == <<state, told>>

Init ==
  /\ state = [m \in Dm |-> "unsent"]
  /\ told = [m \in Dm |-> {}]

Goes(m, from, to) == state[m] = from /\ state' = [state EXCEPT ![m] = to]

Take(m) == Goes(m, "unsent", "open") /\ UNCHANGED told

Miss(m) == Goes(m, "unsent", "lost") /\ UNCHANGED told

Tell(m, what) ==
  /\ state[m] = "open" /\ told[m] \cap {what, "broken"} = {}
  /\ told' = [told EXCEPT ![m] = @ \cup {what}]

Close(m) == Goes(m, "open", "closed") /\ UNCHANGED told

(* The last thing a message gets may be what it is closed with.            *)
TellAndClose(m, what) == Tell(m, what) /\ Goes(m, "open", "closed")

Die ==
  /\ state' = [m \in Dm |-> IF state[m] = "open" THEN "lost" ELSE state[m]]
  /\ UNCHANGED told

Serve(m) ==
  \/ Close(m)
  \/ \E what \in {"answer", "broken"} : TellAndClose(m, what) \/ (Tell(m, what) /\ UNCHANGED state)

Next == Die \/ \E m \in Dm : Take(m) \/ Miss(m) \/ Serve(m)

Spec == Init /\ [][Next]_vars /\ \A m \in Dm : WF_vars(Serve(m))
=============================================================================
