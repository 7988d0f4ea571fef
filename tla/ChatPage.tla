------------------------------- MODULE ChatPage -------------------------------
(***************************************************************************)
(* The chat page (static/chat.html) in one browser tab.  Its script is one *)
(* thread, but every call it makes is answered later, when the person may  *)
(* have gone to another conversation, logged out or in again: a callback   *)
(* acts on the page as it is then.                                         *)
(*                                                                         *)
(* The human door is the promise of the request service, TurnService; a    *)
(* session is named after its first request, and a turn is over or not:    *)
(* the page does the same while it waits and while it runs.  The same      *)
(* person may also be at another device.  What a poll is told changes      *)
(* nothing but what its reply shows, until the turn is over for good, so   *)
(* the service answers it when the answer arrives.                         *)
(***************************************************************************)
EXTENDS Naturals, Sequences

CONSTANTS
  RequestId,
  None,
  MaxActs,    \* bound: messages sent and conversations opened
  MaxLogins,  \* bound: tokens entered
  MaxFaults   \* bound: calls that fail, but for a token that is rejected

ASSUME ChatAssumption == None \notin RequestId /\ {MaxActs, MaxLogins, MaxFaults} \subseteq Nat

VARIABLES
  phase, session,   \* of the requests: TurnService
  token,            \* what localStorage has: None shows the login screen
  sessionId,        \* the conversation that a message goes to
  sending,          \* Send does nothing
  replies,          \* the replies rendered so far, each with its poll
  calls,            \* of each act, its call
  crossed,          \* history: acts fell on each other's calls
  refused,          \* history: a poll met a token that was rejected
  logins, faults

serviceVars == <<phase, session>>
pageVars == <<token, sessionId, sending, replies, calls, crossed, refused>>
bounds == <<logins, faults>>
vars == <<serviceVars, pageVars, bounds>>

Door == INSTANCE TurnService WITH SessionId <- RequestId

Token == {"good", "rejected"}
Phase == {"waiting", "over"}

(* A POST or GET, until its callback ran; `found` is what it is answered.  *)
Call == [kind: {"send", "load"}, of: RequestId \cup {None}, token: Token,
         at: {"asked", "answered", "failed"},
         found: UNION {[S -> Phase] : S \in SUBSET RequestId}]
Idle == [at |-> "done"]

(* The reply to a request, rendered by the act `by`; `on` the screen or no *)
(* more.  Its poll waits for an answer or for its timer, or has ended; a   *)
(* reply that has neither is nothing.                                      *)
Reply == [by: 1..MaxActs, request: RequestId, shown: Phase, on: BOOLEAN,
          poll: {"asked", "timer", "ended"}, token: Token \cup {None}]
Kept(S) == {b \in S : b.on \/ b.poll # "ended"}

Busy == \E n \in DOMAIN calls : calls[n].at # "done"
-----------------------------------------------------------------------------
Init ==
  /\ Door!Init
  /\ token \in Token \cup {None}
  /\ sessionId = None
  /\ sending = FALSE
  /\ replies = {}
  /\ calls = <<>>
  /\ crossed = FALSE /\ refused = FALSE
  /\ logins = 0 /\ faults = 0

loginBtn ==
  /\ token = None
  /\ logins < MaxLogins /\ logins' = logins + 1
  /\ token' \in Token
  /\ UNCHANGED <<serviceVars, sessionId, sending, replies, calls, crossed, refused, faults>>

logoutBtn ==
  /\ token # None
  /\ token' = None
  /\ UNCHANGED <<serviceVars, sessionId, sending, replies, calls, crossed, refused, bounds>>

(* The page is loaded again: only the token is still there.                *)
reload ==
  /\ sessionId' = None
  /\ sending' = FALSE
  /\ replies' = {}
  /\ calls' = [n \in DOMAIN calls |-> Idle]
  /\ crossed' = FALSE
  /\ refused' = FALSE
  /\ UNCHANGED <<serviceVars, token, bounds>>

Cleared == Kept({[b EXCEPT !.on = FALSE] : b \in replies})

api(kind, of) ==
  /\ token # None
  /\ Len(calls) < MaxActs
  /\ calls' = Append(calls, [kind |-> kind, of |-> of, token |-> token, at |-> "asked",
                             found |-> <<>>])

(* Mutation: the last conversation's replies are left on the screen.       *)
newBtn_keeps ==
  /\ token # None
  /\ sessionId' = None
  /\ crossed' = Busy
  /\ UNCHANGED <<serviceVars, token, sending, replies, calls, refused, bounds>>

newBtn ==
  /\ token # None
  /\ sessionId' = None
  /\ replies' = Cleared
  /\ crossed' = Busy
  /\ UNCHANGED <<serviceVars, token, sending, calls, refused, bounds>>

(* A row of the sessions drawer is clicked.                                *)
loadSession(s) ==
  /\ \E r \in RequestId : session[r] = s
  /\ api("load", s)
  /\ replies' = Cleared
  /\ crossed' = Busy
  /\ UNCHANGED <<serviceVars, token, sessionId, sending, refused, bounds>>

send ==
  /\ ~sending
  /\ api("send", sessionId)
  /\ sending' = TRUE
  /\ crossed' = (crossed \/ Busy)
  /\ UNCHANGED <<serviceVars, token, sessionId, replies, refused, bounds>>
-----------------------------------------------------------------------------
(* The service, meanwhile, and somebody at another device.                 *)
(* One new id is as good as another.                                       *)
Full == \A r \in RequestId : phase[r] # "absent"
NewId == CHOOSE r \in RequestId : phase[r] = "absent"
Accept(s) == ~Full /\ Door!Accept(NewId, IF s = None THEN NewId ELSE s)

Turns ==
  /\ \E r \in RequestId : Door!Finish(r)
  /\ UNCHANGED <<pageVars, bounds>>

Elsewhere ==
  /\ \E s \in {session[q] : q \in RequestId} : Accept(s)
  /\ UNCHANGED <<pageVars, bounds>>

Comes(n, at, found) == calls' = [calls EXCEPT ![n].at = at, ![n].found = found]

(* A call arrives with a token that is known.  Bound: a message for which  *)
(* there is no id left is an error, as any the service may answer with.    *)
serve(n) ==
  /\ calls[n].at = "asked" /\ calls[n].token = "good"
  /\ IF calls[n].kind = "load"
     THEN /\ Comes(n, "answered", [r \in {q \in RequestId : session[q] = calls[n].of} |-> phase[r]])
          /\ UNCHANGED serviceVars
     ELSE \/ Accept(calls[n].of) /\ Comes(n, "answered", [r \in {NewId} |-> "waiting"])
          \/ Full /\ Comes(n, "failed", <<>>) /\ UNCHANGED serviceVars
  /\ UNCHANGED <<token, sessionId, sending, replies, crossed, refused, bounds>>

Faulty == faults < MaxFaults /\ faults' = faults + 1

(* It fails, also after it arrived.                                        *)
fail(n) ==
  /\ calls[n].at = "asked"
  /\ Faulty
  /\ Comes(n, "failed", <<>>)
  /\ \/ UNCHANGED serviceVars
     \/ calls[n].kind = "send" /\ calls[n].token = "good" /\ Accept(calls[n].of)
  /\ UNCHANGED <<token, sessionId, sending, replies, crossed, refused, logins>>

Done(n) ==
  /\ calls' = [calls EXCEPT ![n] = Idle]
  /\ UNCHANGED <<serviceVars, crossed, refused, bounds>>

(* renderMessage, and pollUntilTerminal for the requests of `polled`.      *)
Rendered(n, polled) ==
  {[by |-> n, request |-> r, shown |-> calls[n].found[r], on |-> TRUE,
    poll |-> IF r \in polled THEN "asked" ELSE "ended",
    token |-> IF r \in polled THEN token ELSE None] : r \in DOMAIN calls[n].found}

(* Mutation: the answer has no `session`, so that is "undefined".          *)
sent_misread(n) ==
  /\ calls[n].at = "answered" /\ calls[n].kind = "send"
  /\ sessionId' = "undefined"
  /\ replies' = replies \cup Rendered(n, RequestId)
  /\ Done(n)
  /\ UNCHANGED <<token, sending>>

sent(n) ==
  /\ calls[n].at = "answered" /\ calls[n].kind = "send"
  /\ \E r \in DOMAIN calls[n].found : sessionId' = session[r]
  /\ replies' = replies \cup Rendered(n, RequestId)
  /\ Done(n)
  /\ UNCHANGED <<token, sending>>

(* Mutation: a conversation that is opened again is only rendered.         *)
loaded_unpolled(n) ==
  /\ calls[n].at = "answered" /\ calls[n].kind = "load"
  /\ sessionId' = calls[n].of
  /\ replies' = replies \cup Rendered(n, {})
  /\ Done(n)
  /\ UNCHANGED <<token, sending>>

loaded(n) ==
  /\ calls[n].at = "answered" /\ calls[n].kind = "load"
  /\ sessionId' = calls[n].of
  /\ LET found == calls[n].found
     IN replies' = replies \cup Rendered(n, {r \in DOMAIN found : found[r] # "over"})
  /\ Done(n)
  /\ UNCHANGED <<token, sending>>

Unknown(n) == calls[n].at = "asked" /\ calls[n].token # "good"

(* Mutation: an error does not free Send.                                  *)
not_answered_stuck(n) ==
  /\ calls[n].at = "failed" \/ Unknown(n)
  /\ token' = IF Unknown(n) THEN None ELSE token
  /\ Done(n)
  /\ UNCHANGED <<sessionId, sending, replies>>

(* A 401 removes whatever token there is now, too.                         *)
not_answered(n) ==
  /\ calls[n].at = "failed" \/ Unknown(n)
  /\ token' = IF Unknown(n) THEN None ELSE token
  /\ sending' = (sending /\ calls[n].kind # "send")
  /\ Done(n)
  /\ UNCHANGED <<sessionId, replies>>
-----------------------------------------------------------------------------
(* pollUntilTerminal, of one rendered reply.                               *)
Becomes(b, c) == replies' = (replies \ {b}) \cup Kept({c})

(* The timer, and the next call, with the token there is now.              *)
tick(b) ==
  /\ b.poll = "timer"
  /\ Becomes(b, [b EXCEPT !.poll = "asked", !.token = token])
  /\ UNCHANGED <<serviceVars, token, sessionId, sending, calls, crossed, refused, bounds>>

polled(b) ==
  /\ b.poll = "asked" /\ b.token = "good"
  /\ LET p == phase[b.request]
         next == IF p = "over" THEN "ended" ELSE "timer"
     IN /\ Becomes(b, [b EXCEPT !.shown = p, !.poll = next, !.token = None])
        /\ sending' = (sending /\ p # "over")
  /\ UNCHANGED <<serviceVars, token, sessionId, calls, crossed, refused, bounds>>

poll_fails(b) ==
  /\ b.poll = "asked"
  /\ Faulty
  /\ Becomes(b, [b EXCEPT !.poll = "timer", !.token = None])
  /\ UNCHANGED <<serviceVars, token, sessionId, sending, calls, crossed, refused, logins>>

(* "unauthorized": the poll ends there.                                    *)
poll_refused(b) ==
  /\ b.poll = "asked" /\ b.token # "good"
  /\ token' = None
  /\ Becomes(b, [b EXCEPT !.poll = "ended", !.token = None])
  /\ refused' = TRUE
  /\ UNCHANGED <<serviceVars, sessionId, sending, calls, crossed, bounds>>

Person ==
  \/ loginBtn \/ logoutBtn \/ reload \/ newBtn \/ send
  \/ \E s \in RequestId : loadSession(s)

Callback(n) == sent(n) \/ loaded(n) \/ not_answered(n)
PollStep(b) == tick(b) \/ polled(b) \/ poll_refused(b)

Next ==
  \/ Person \/ Turns \/ Elsewhere
  \/ \E n \in DOMAIN calls : serve(n) \/ fail(n) \/ Callback(n)
  \/ \E b \in replies : PollStep(b) \/ poll_fails(b)

Spec == Init /\ [][Next]_vars

(* A call is answered and its callback run, a timer goes off, and every    *)
(* turn of the service ends: no call of its runners is wedged for ever,    *)
(* which Cagent's EventuallySettled leaves open.                           *)
Fairness ==
  /\ WF_vars(\E n \in DOMAIN calls : serve(n) \/ Callback(n))
  /\ WF_vars(\E b \in replies : PollStep(b))
  /\ WF_vars(Turns)

FairSpec == Spec /\ Fairness
-----------------------------------------------------------------------------
(* Every variable keeps its type.                                          *)
TypeOK ==
  /\ Door!TypeOK
  /\ token \in Token \cup {None}
  /\ sessionId \in RequestId \cup {None}
  /\ sending \in BOOLEAN /\ crossed \in BOOLEAN /\ refused \in BOOLEAN
  /\ replies \subseteq Reply
  /\ calls \in Seq(Call \cup {Idle})
  /\ logins \in 0..MaxLogins /\ faults \in 0..MaxFaults

Shown == {b \in replies : b.on}

(* What the page shows is the conversation that the next message goes to,  *)
(* each request of it once: as long as nobody sends, opens or starts       *)
(* another while a call is out.                                            *)
TranscriptIsTheSession ==
  ~crossed =>
    /\ \A b \in Shown : session[b.request] = sessionId
    /\ \A b, c \in Shown : b.request = c.request => b = c

(* However conversations are left and opened again and calls fail, Send    *)
(* comes back after a message, unless a poll met a rejected token.         *)
SendComesBack == sending ~> (~sending \/ refused)

(* "Interrupted", "failed" and an answer get onto the screen: of the       *)
(* replies rendered there, all show the end of their turns one day, unless *)
(* a poll met a rejected token.                                            *)
Unfinished == \E b \in Shown : b.shown # "over"
EndIsShown == Unfinished ~> (~Unfinished \/ refused)
===============================================================================
