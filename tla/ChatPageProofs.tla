--------------------------- MODULE ChatPageProofs ----------------------------
(***************************************************************************)
(* The chat page, for any number of requests, messages, tokens and faults: *)
(* its variables keep their types, and what it shows is the conversation   *)
(* that the next message goes to.                                          *)
(***************************************************************************)
EXTENDS ChatPage, SequenceTheorems, TLAPS

Accepted(r) == phase[r] # "absent"

(* A request is absent as long as it is of no session, and no turn is      *)
(* shown as running.                                                       *)
ServiceOK ==
  /\ Door!TypeOK
  /\ \A r \in RequestId : phase[r] # "running" /\ (Accepted(r) <=> session[r] # None)

(* What a call was answered is still so: a session is kept, and a request  *)
(* never absent again.                                                     *)
AnswerOK(c) ==
  /\ \A r \in DOMAIN c.found : Accepted(r)
  /\ c.kind = "load" => \A r \in DOMAIN c.found : session[r] = c.of
  /\ c.kind = "send" => \E r \in RequestId : /\ DOMAIN c.found = {r}
                                             /\ session[r] = IF c.of = None THEN r ELSE c.of

CallsOK ==
  /\ calls \in Seq(Call \cup {Idle}) /\ Len(calls) =< MaxActs
  /\ \A n \in DOMAIN calls : /\ calls[n].at # "done" /\ calls[n].kind = "load" => calls[n].of \in RequestId
                             /\ calls[n].at = "answered" => AnswerOK(calls[n])

RepliesOK == replies \subseteq Reply /\ \A b \in replies : Accepted(b.request)

PageOK ==
  /\ token \in Token \cup {None}
  /\ sessionId \in RequestId \cup {None}
  /\ sending \in BOOLEAN /\ crossed \in BOOLEAN /\ refused \in BOOLEAN
  /\ logins \in 0..MaxLogins /\ faults \in 0..MaxFaults

(* While no act fell on another's call there is one call at most.  What it *)
(* sends goes to the conversation that is shown, whose replies are others; *)
(* what it opens meets an empty page.                                      *)
OneCall == \A m, n \in DOMAIN calls : calls[m].at # "done" /\ calls[n].at # "done" => m = n

GoesToShown(c) ==
  /\ c.kind = "send" => /\ c.of = sessionId
                        /\ c.at = "answered" => \A b \in Shown : b.request \notin DOMAIN c.found
  /\ c.kind = "load" => Shown = {}

OneConversation ==
  /\ \A b \in Shown : session[b.request] = sessionId
  /\ \A b, c \in Shown : b.request = c.request => b = c

Uncrossed ==
  /\ OneConversation /\ OneCall
  /\ \A n \in DOMAIN calls : calls[n].at # "done" => GoesToShown(calls[n])

IInv == ServiceOK /\ CallsOK /\ RepliesOK /\ PageOK /\ (~crossed => Uncrossed)
-----------------------------------------------------------------------------
(* The service: what was accepted stays so, and in its session.            *)
Keeps ==
  /\ ServiceOK'
  /\ \A r \in RequestId : Accepted(r) => Accepted(r)' /\ session'[r] = session[r]

LEMMA Still == ASSUME ServiceOK, UNCHANGED serviceVars PROVE Keeps
BY DEF ServiceOK, Keeps, serviceVars, Accepted, Door!TypeOK

LEMMA AcceptKeeps ==
  ASSUME ServiceOK, NEW s \in RequestId \cup {None}, Accept(s)
  PROVE  /\ Keeps
         /\ NewId \in RequestId /\ ~Accepted(NewId)
         /\ phase'[NewId] = "waiting" /\ session'[NewId] = IF s = None THEN NewId ELSE s
<1>1. NewId \in RequestId /\ phase[NewId] = "absent"
  BY DEF Accept, Full, NewId
<1>2. PICK new : new = NewId
  OBVIOUS
<1>3. PICK t \in RequestId : t = IF s = None THEN new ELSE s
  BY <1>1, <1>2
<1>4. /\ phase' = [phase EXCEPT ![new] = "waiting"]
      /\ session' = [session EXCEPT ![new] = t]
  BY <1>2, <1>3 DEF Accept, Door!Accept
<1>5. None \notin RequestId
  BY ChatAssumption
<1>6. /\ phase \in [RequestId -> {"absent", "waiting", "running", "over"}]
      /\ session \in [RequestId -> RequestId \cup {None}]
  BY DEF ServiceOK, Door!TypeOK
<1>7. /\ phase' \in [RequestId -> {"absent", "waiting", "running", "over"}]
      /\ session' \in [RequestId -> RequestId \cup {None}]
      /\ \A r \in RequestId : r # new => phase'[r] = phase[r] /\ session'[r] = session[r]
      /\ phase'[new] = "waiting" /\ session'[new] = t
  BY <1>1, <1>2, <1>4, <1>6
<1>8. ServiceOK'
  BY <1>5, <1>7 DEF ServiceOK, Door!TypeOK, Accepted
<1>. QED
  BY <1>1, <1>2, <1>3, <1>7, <1>8 DEF Keeps, Accepted

LEMMA FinishKeeps == ASSUME ServiceOK, NEW r \in RequestId, Door!Finish(r) PROVE Keeps
BY DEF ServiceOK, Keeps, Door!Finish, Door!TypeOK, Accepted

(* What was answered is so still.                                          *)
LEMMA AnswersKeep ==
  ASSUME ServiceOK, Keeps, NEW c \in Call, AnswerOK(c)
  PROVE  AnswerOK(c)'
<1>1. DOMAIN c.found \subseteq RequestId
  BY DEF Call
<1>. QED
  BY <1>1 DEF AnswerOK, Keeps

(* One call of many: it is a call, and what it is answered.                *)
LEMMA CallIs ==
  ASSUME CallsOK, NEW n \in DOMAIN calls, calls[n].at # "done"
  PROVE  /\ calls[n] \in Call /\ n \in 1..MaxActs
         /\ calls[n].found \in UNION {[S -> Phase] : S \in SUBSET RequestId}
         /\ DOMAIN calls[n].found \subseteq RequestId
         /\ \A r \in DOMAIN calls[n].found : calls[n].found[r] \in Phase
<1>1. Len(calls) \in Nat /\ DOMAIN calls = 1..Len(calls) /\ MaxActs \in Nat
  BY ChatAssumption DEF CallsOK
<1>2. calls[n] \in Call /\ n \in 1..MaxActs
  BY <1>1 DEF CallsOK, Idle
<1>3. calls[n].found \in UNION {[S -> Phase] : S \in SUBSET RequestId}
  BY <1>2 DEF Call
<1>. QED
  BY <1>2, <1>3

(* A step that leaves the calls alone.                                     *)
LEMMA CallsStay ==
  ASSUME ServiceOK, CallsOK, Keeps, calls' = calls
  PROVE  CallsOK'
<1> SUFFICES ASSUME NEW n \in DOMAIN calls, calls[n].at = "answered" PROVE AnswerOK(calls[n])'
  BY DEF CallsOK
<1>. QED
  BY CallIs, AnswersKeep DEF CallsOK

(* A step of one call: the others are as they were.                        *)
LEMMA OneCallsStep ==
  ASSUME ServiceOK, CallsOK, Keeps, NEW n \in DOMAIN calls, NEW c \in Call \cup {Idle},
         calls' = [calls EXCEPT ![n] = c],
         c.at # "done" /\ c.kind = "load" => c.of \in RequestId,
         c.at = "answered" => AnswerOK(c)'
  PROVE  CallsOK'
<1>1. /\ calls' \in Seq(Call \cup {Idle}) /\ Len(calls') = Len(calls) /\ DOMAIN calls' = DOMAIN calls
      /\ calls'[n] = c /\ \A m \in DOMAIN calls : m # n => calls'[m] = calls[m]
  BY DEF CallsOK
<1>2. ASSUME NEW m \in DOMAIN calls, m # n, calls[m].at = "answered" PROVE AnswerOK(calls[m])'
  BY <1>1, <1>2, CallIs, AnswersKeep DEF CallsOK
<1>. QED
  BY <1>1, <1>2 DEF CallsOK

LEMMA RepliesStay ==
  ASSUME ServiceOK, RepliesOK, Keeps, NEW S, S \subseteq Reply, replies' \subseteq S,
         \A b \in S : b.request \in RequestId /\ (Accepted(b.request) \/ Accepted(b.request)')
  PROVE  RepliesOK'
BY DEF RepliesOK, Keeps
-----------------------------------------------------------------------------
LEMMA InitInv == Init => IInv
<1> SUFFICES ASSUME Init PROVE IInv
  OBVIOUS
<1>1. ServiceOK
  BY DEF Init, Door!Init, ServiceOK, Door!TypeOK, Accepted
<1>2. CallsOK /\ DOMAIN calls = {}
  BY ChatAssumption DEF Init, CallsOK
<1>3. RepliesOK /\ Shown = {}
  BY DEF Init, RepliesOK, Shown
<1>4. PageOK
  <2>1. logins \in 0..MaxLogins /\ faults \in 0..MaxFaults
    BY ChatAssumption DEF Init
  <2>2. sending \in BOOLEAN /\ crossed \in BOOLEAN /\ refused \in BOOLEAN
    BY DEF Init
  <2>3. token \in Token \cup {None} /\ sessionId \in RequestId \cup {None}
    BY DEF Init
  <2>. QED
    BY <2>1, <2>2, <2>3 DEF PageOK
<1>5. Uncrossed
  BY <1>2, <1>3 DEF Uncrossed, OneConversation, OneCall
<1>. QED
  BY <1>1, <1>2, <1>3, <1>4, <1>5 DEF IInv

(* A step that clears the screen, and may make a call: no call was out, or *)
(* it has crossed.                                                         *)
LEMMA ClearedIs ==
  ASSUME ServiceOK, RepliesOK, UNCHANGED serviceVars, replies' = Cleared
  PROVE  RepliesOK' /\ Shown' = {}
<1>1. \A b \in Reply : [b EXCEPT !.on = FALSE] \in Reply /\ [b EXCEPT !.on = FALSE].on = FALSE
                       /\ [b EXCEPT !.on = FALSE].request = b.request
  BY DEF Reply
<1>2. \A c \in replies' : \E b \in replies : c = [b EXCEPT !.on = FALSE]
  BY DEF Cleared, Kept
<1>3. ASSUME NEW c \in replies'
      PROVE  c \in Reply /\ c.on = FALSE /\ \E b \in replies : c.request = b.request
  <2>1. PICK b \in replies : c = [b EXCEPT !.on = FALSE]
    BY <1>2
  <2>2. b \in Reply
    BY DEF RepliesOK
  <2>. QED
    BY <1>1, <2>1, <2>2
<1>. QED
  BY <1>3 DEF RepliesOK, Shown, serviceVars, Accepted

(* A call made: it is the last.                                            *)
LEMMA ApiIs ==
  ASSUME CallsOK, ServiceOK, PageOK, UNCHANGED serviceVars,
         NEW kind \in {"send", "load"}, NEW of \in RequestId \cup {None},
         kind = "load" => of \in RequestId, api(kind, of)
  PROVE  /\ CallsOK'
         /\ Len(calls) \in Nat /\ Len(calls') = Len(calls) + 1
         /\ \A n \in DOMAIN calls : calls'[n] = calls[n]
         /\ calls'[Len(calls')].kind = kind /\ calls'[Len(calls')].of = of
         /\ calls'[Len(calls')].at = "asked"
         /\ DOMAIN calls = 1..Len(calls) /\ DOMAIN calls' = 1..Len(calls')
<1>1. PICK c : c = [kind |-> kind, of |-> of, token |-> token, at |-> "asked", found |-> <<>>]
  OBVIOUS
<1>2. calls' = Append(calls, c) /\ Len(calls) < MaxActs
  BY <1>1 DEF api
<1>3. c \in Call /\ c.at = "asked" /\ c.kind = kind /\ c.of = of
  <2>1. <<>> \in [{} -> Phase]
    OBVIOUS
  <2>2. token \in Token
    BY DEF api, PageOK
  <2>. QED
    BY <1>1, <2>1, <2>2 DEF Call
<1>4. MaxActs \in Nat
  BY ChatAssumption
<1>5. calls \in Seq(Call \cup {Idle}) /\ Len(calls) \in Nat
  BY DEF CallsOK
<1>6. /\ calls' \in Seq(Call \cup {Idle}) /\ Len(calls') = Len(calls) + 1
      /\ \A n \in DOMAIN calls : calls'[n] = calls[n]
      /\ calls'[Len(calls')] = c
      /\ DOMAIN calls = 1..Len(calls) /\ DOMAIN calls' = 1..Len(calls')
  BY <1>2, <1>3, <1>5
<1>7. \A n \in DOMAIN calls' : n \in DOMAIN calls \/ n = Len(calls')
  BY <1>5, <1>6
<1>8. CallsOK'
  <2>1. Len(calls') =< MaxActs
    BY <1>2, <1>4, <1>5, <1>6
  <2>2. ASSUME NEW n \in DOMAIN calls, NEW old, old = calls'[n], old.at = "answered" PROVE AnswerOK(old)'
    <3>1. old = calls[n] /\ AnswerOK(old) /\ old \in Call
      BY <1>6, <2>2, CallIs DEF CallsOK
    <3>. QED
      BY <3>1, AnswersKeep, Still
  <2>. QED
    BY <1>3, <1>6, <1>7, <2>1, <2>2 DEF CallsOK
<1>. QED
  BY <1>3, <1>5, <1>6, <1>8

LEMMA PersonInv == IInv /\ Person => IInv'
<1> SUFFICES ASSUME IInv, Person PROVE IInv'
  OBVIOUS
<1>1. UNCHANGED serviceVars
  BY DEF Person, loginBtn, logoutBtn, reload, newBtn, send, loadSession
<1>2. Keeps /\ ServiceOK'
  BY <1>1, Still DEF IInv, Keeps
<1>3. PageOK'
  <2>1. logins' \in 0..MaxLogins /\ faults' \in 0..MaxFaults
    <3>1. logins' = logins \/ (logins < MaxLogins /\ logins' = logins + 1)
      BY DEF Person, loginBtn, logoutBtn, reload, newBtn, send, loadSession, bounds
    <3>2. faults' = faults
      BY DEF Person, loginBtn, logoutBtn, reload, newBtn, send, loadSession, bounds
    <3>. QED
      BY <3>1, <3>2, ChatAssumption DEF IInv, PageOK
  <2>2. sending' \in BOOLEAN /\ crossed' \in BOOLEAN /\ refused' \in BOOLEAN
    BY DEF Person, loginBtn, logoutBtn, reload, newBtn, send, loadSession, IInv, PageOK, Busy
  <2>3. token' \in Token \cup {None} /\ sessionId' \in RequestId \cup {None}
    BY DEF Person, loginBtn, logoutBtn, reload, newBtn, send, loadSession, IInv, PageOK
  <2>. QED
    BY <2>1, <2>2, <2>3 DEF PageOK
<1>4. CASE loginBtn \/ logoutBtn
  <2>1. UNCHANGED <<phase, session, sessionId, replies, calls, crossed>>
    BY <1>4 DEF loginBtn, logoutBtn, serviceVars
  <2>2. CallsOK' /\ RepliesOK'
    BY <1>2, <2>1, CallsStay DEF IInv, RepliesOK, Accepted
  <2>3. ~crossed' => Uncrossed'
    BY <2>1 DEF IInv, Uncrossed, OneConversation, OneCall, GoesToShown, Shown
  <2>. QED
    BY <1>2, <1>3, <2>2, <2>3 DEF IInv
<1>5. CASE reload
  <2>1. replies' = {} /\ calls' = [n \in DOMAIN calls |-> Idle]
    BY <1>5 DEF reload
  <2>2. /\ calls' \in Seq(Call \cup {Idle}) /\ Len(calls') = Len(calls)
        /\ \A n \in DOMAIN calls' : calls'[n].at = "done"
    <3>1. calls \in Seq(Call \cup {Idle})
      BY DEF IInv, CallsOK
    <3>. QED
      BY <2>1, <3>1 DEF Idle
  <2>3. CallsOK'
    BY <2>2 DEF IInv, CallsOK
  <2>4. RepliesOK' /\ Shown' = {}
    BY <2>1 DEF RepliesOK, Shown
  <2>5. Uncrossed'
    BY <2>2, <2>4 DEF Uncrossed, OneConversation, OneCall
  <2>. QED
    BY <1>2, <1>3, <2>3, <2>4, <2>5 DEF IInv
<1>6. CASE newBtn
  <2>1. RepliesOK' /\ Shown' = {} /\ calls' = calls /\ crossed' = Busy
    BY <1>1, <1>6, ClearedIs DEF newBtn, IInv
  <2>2. CallsOK'
    BY <1>2, <2>1, CallsStay DEF IInv
  <2>3. ~crossed' => Uncrossed'
    BY <2>1 DEF Uncrossed, OneConversation, OneCall, Busy
  <2>. QED
    BY <1>2, <1>3, <2>1, <2>2, <2>3 DEF IInv
<1>7. CASE send
  <2>1. /\ api("send", sessionId) /\ sessionId' = sessionId /\ replies' = replies
        /\ crossed' = (crossed \/ Busy)
    BY <1>7 DEF send
  <2>2. /\ CallsOK'
        /\ Len(calls) \in Nat /\ Len(calls') = Len(calls) + 1
        /\ \A n \in DOMAIN calls : calls'[n] = calls[n]
        /\ calls'[Len(calls')].kind = "send" /\ calls'[Len(calls')].of = sessionId
        /\ calls'[Len(calls')].at = "asked"
        /\ DOMAIN calls = 1..Len(calls) /\ DOMAIN calls' = 1..Len(calls')
    <3>1. sessionId \in RequestId \cup {None}
      BY DEF IInv, PageOK
    <3>. QED
      BY <1>1, <2>1, <3>1, ApiIs DEF IInv
  <2>3. RepliesOK'
    BY <1>1, <2>1 DEF IInv, RepliesOK, Accepted, serviceVars
  <2>4. ASSUME ~crossed' PROVE Uncrossed'
    <3>1. Uncrossed /\ ~Busy /\ crossed \in BOOLEAN
      BY <2>1, <2>4 DEF IInv, PageOK
    <3>2. \A n \in DOMAIN calls' : calls'[n].at # "done" => n = Len(calls')
      BY <2>2, <3>1 DEF Busy
    <3>3. OneConversation'
      BY <1>1, <2>1, <3>1 DEF Uncrossed, OneConversation, Shown, serviceVars
    <3>. QED
      BY <2>1, <2>2, <3>2, <3>3 DEF Uncrossed, OneCall, GoesToShown
  <2>. QED
    BY <1>2, <1>3, <2>2, <2>3, <2>4 DEF IInv
<1>8. CASE \E s \in RequestId : loadSession(s)
  <2>1. PICK s \in RequestId : loadSession(s)
    BY <1>8
  <2>2. RepliesOK' /\ Shown' = {} /\ api("load", s) /\ crossed' = Busy
    BY <1>1, <2>1, ClearedIs DEF loadSession, IInv
  <2>3. /\ CallsOK'
        /\ Len(calls) \in Nat /\ Len(calls') = Len(calls) + 1
        /\ \A n \in DOMAIN calls : calls'[n] = calls[n]
        /\ calls'[Len(calls')].kind = "load"
        /\ DOMAIN calls = 1..Len(calls) /\ DOMAIN calls' = 1..Len(calls')
    BY <1>1, <2>2, ApiIs DEF IInv
  <2>4. ASSUME ~crossed' PROVE Uncrossed'
    <3>1. \A n \in DOMAIN calls' : calls'[n].at # "done" => n = Len(calls')
      BY <2>2, <2>3, <2>4 DEF Busy
    <3>. QED
      BY <2>2, <2>3, <3>1 DEF Uncrossed, OneConversation, OneCall, GoesToShown
  <2>. QED
    BY <1>2, <1>3, <2>2, <2>3, <2>4 DEF IInv
<1>. QED
  BY <1>4, <1>5, <1>6, <1>7, <1>8 DEF Person
-----------------------------------------------------------------------------
(* A step of the service alone.                                            *)
LEMMA ServiceInv ==
  ASSUME IInv, Keeps, UNCHANGED <<pageVars, bounds>>
  PROVE  IInv'
<1>1. UNCHANGED <<token, sessionId, sending, replies, calls, crossed, refused, logins, faults>>
  BY DEF pageVars, bounds
<1>2. ServiceOK' /\ CallsOK' /\ RepliesOK'
  BY <1>1, CallsStay DEF IInv, Keeps, RepliesOK, Reply
<1>3. PageOK'
  BY <1>1 DEF IInv, PageOK
<1>4. \A b \in Shown : b.request \in RequestId /\ Accepted(b.request)
  BY DEF IInv, RepliesOK, Shown, Reply
<1>5. ASSUME ~crossed' PROVE Uncrossed'
  <2>1. Uncrossed /\ Shown' = Shown
    BY <1>1, <1>5 DEF IInv, Shown
  <2>2. OneConversation'
    BY <1>1, <1>4, <2>1 DEF Uncrossed, OneConversation, Keeps
  <2>3. \A n \in DOMAIN calls : GoesToShown(calls[n]) => GoesToShown(calls[n])'
    BY <1>1, <2>1 DEF GoesToShown
  <2>. QED
    BY <1>1, <2>1, <2>2, <2>3 DEF Uncrossed, OneCall
<1>. QED
  BY <1>2, <1>3, <1>5 DEF IInv

(* A call that was made arrives, or fails.                                 *)
LEMMA ComesInv ==
  ASSUME IInv, Keeps, NEW n \in DOMAIN calls, calls[n].at = "asked",
         NEW at \in {"answered", "failed"}, NEW found, Comes(n, at, found),
         NEW S \in SUBSET RequestId, found \in [S -> Phase],
         at = "answered" =>
           /\ \A r \in S : Accepted(r)'
           /\ calls[n].kind = "load" => \A r \in S : session'[r] = calls[n].of
           /\ calls[n].kind = "send" => \E r \in RequestId :
                /\ S = {r} /\ ~Accepted(r)
                /\ session'[r] = IF calls[n].of = None THEN r ELSE calls[n].of,
         UNCHANGED <<token, sessionId, sending, replies, crossed, refused, logins>>,
         UNCHANGED faults \/ (faults < MaxFaults /\ faults' = faults + 1)
  PROVE  IInv'
<1>1. calls[n] \in Call /\ calls[n].at # "done"
  BY CallIs DEF IInv
<1>2. PICK old \in Call : old = calls[n]
  BY <1>1
<1>3. PICK c : c = [old EXCEPT !.at = at, !.found = found]
  OBVIOUS
<1>4. c \in Call /\ c.at = at /\ c.found = found /\ c.kind = old.kind /\ c.of = old.of
  <2>1. found \in UNION {[T -> Phase] : T \in SUBSET RequestId}
    OBVIOUS
  <2>2. c = [kind |-> old.kind, of |-> old.of, token |-> old.token, at |-> at, found |-> found]
    BY <1>3 DEF Call
  <2>3. old.kind \in {"send", "load"} /\ old.of \in RequestId \cup {None} /\ old.token \in Token
    BY DEF Call
  <2>. QED
    BY <2>1, <2>2, <2>3 DEF Call
<1>5. calls' = [calls EXCEPT ![n] = c]
  BY <1>2, <1>3 DEF Comes
<1>6. DOMAIN c.found = S
  BY <1>4
<1>7. at = "answered" => AnswerOK(c)'
  BY <1>2, <1>4, <1>6 DEF AnswerOK
<1>8. old.kind = "load" => old.of \in RequestId
  BY <1>1, <1>2 DEF IInv, CallsOK
<1>9. CallsOK'
  BY <1>4, <1>5, <1>7, <1>8, OneCallsStep DEF IInv
<1>10. ServiceOK' /\ RepliesOK'
  BY DEF IInv, Keeps, RepliesOK, Reply
<1>11. PageOK'
  <2>1. faults' \in 0..MaxFaults
    BY ChatAssumption DEF IInv, PageOK
  <2>. QED
    BY <2>1 DEF IInv, PageOK
<1>12. \A b \in Shown : b.request \in RequestId /\ Accepted(b.request)
  BY DEF IInv, RepliesOK, Shown, Reply
<1>13. ASSUME ~crossed' PROVE Uncrossed'
  <2>1. Uncrossed /\ Shown' = Shown
    BY <1>13 DEF IInv, Shown
  <2>2. OneConversation'
    BY <1>12, <2>1 DEF Uncrossed, OneConversation, Keeps
  <2>3. /\ DOMAIN calls' = DOMAIN calls
        /\ \A m \in DOMAIN calls : m # n => calls'[m] = calls[m]
        /\ calls'[n] = c
    BY <1>5 DEF IInv, CallsOK
  <2>4. OneCall'
    BY <1>1, <2>1, <2>3 DEF Uncrossed, OneCall
  <2>5. \A m \in DOMAIN calls' : calls'[m].at # "done" => m = n
    BY <1>1, <2>1, <2>3 DEF Uncrossed, OneCall
  <2>6. GoesToShown(old)
    BY <1>1, <1>2, <2>1 DEF Uncrossed
  <2>7. GoesToShown(c)'
    BY <1>2, <1>4, <1>6, <1>12, <2>1, <2>6 DEF GoesToShown
  <2>8. ASSUME NEW m \in DOMAIN calls', calls'[m].at # "done" PROVE GoesToShown(calls[m])'
    BY <2>3, <2>5, <2>7, <2>8
  <2>. QED
    BY <2>2, <2>4, <2>8 DEF Uncrossed
<1>. QED
  BY <1>9, <1>10, <1>11, <1>13 DEF IInv

LEMMA ServeInv == ASSUME IInv, NEW n \in DOMAIN calls, serve(n) \/ fail(n) PROVE IInv'
<1>1. calls[n].at = "asked" /\ calls[n] \in Call
      /\ UNCHANGED <<token, sessionId, sending, replies, crossed, refused, logins>>
  <2>1. calls[n].at = "asked" /\ calls[n].at # "done"
    BY DEF serve, fail
  <2>. QED
    BY <2>1, CallIs DEF serve, fail, IInv, bounds
<1>2. calls[n].of \in RequestId \cup {None} /\ calls[n].kind \in {"send", "load"}
      /\ (calls[n].kind = "load" => calls[n].of \in RequestId)
  BY <1>1 DEF Call, IInv, CallsOK
<1>3. <<>> \in [{} -> Phase]
  OBVIOUS
<1>4. CASE serve(n) /\ calls[n].kind = "load"
  <2>1. PICK S : S = {q \in RequestId : session[q] = calls[n].of}
    OBVIOUS
  <2>2. PICK found : found = [r \in S |-> phase[r]]
    OBVIOUS
  <2>3. Comes(n, "answered", found) /\ UNCHANGED <<serviceVars, faults>>
    BY <1>4, <2>1, <2>2 DEF serve, bounds
  <2>4. Keeps /\ UNCHANGED <<phase, session>>
    BY <2>3, Still DEF IInv, serviceVars
  <2>5. \A r \in S : Accepted(r)' /\ phase[r] \in Phase /\ session'[r] = calls[n].of
    <3>1. None \notin RequestId
      BY ChatAssumption
    <3>. QED
      BY <1>2, <1>4, <2>1, <2>4, <3>1 DEF IInv, ServiceOK, Door!TypeOK, Accepted, Phase
  <2>6. S \in SUBSET RequestId /\ found \in [S -> Phase]
    BY <2>1, <2>2, <2>5
  <2>. QED
    BY <1>1, <1>4, <2>3, <2>4, <2>5, <2>6, ComesInv
<1>5. CASE serve(n) /\ calls[n].kind = "send" /\ Accept(calls[n].of) /\ Comes(n, "answered", [r \in {NewId} |-> "waiting"])
  <2>1. PICK s \in RequestId \cup {None}, new \in {NewId} : s = calls[n].of
    BY <1>2
  <2>2. /\ Keeps
        /\ new \in RequestId /\ ~Accepted(new)
        /\ phase'[new] = "waiting" /\ session'[new] = IF s = None THEN new ELSE s
    BY <1>5, <2>1, AcceptKeeps DEF IInv
  <2>3. PICK found : found = [r \in {new} |-> "waiting"]
    OBVIOUS
  <2>4. Comes(n, "answered", found) /\ found \in [{new} -> Phase] /\ {new} \in SUBSET RequestId
    BY <1>5, <2>1, <2>2, <2>3 DEF Phase
  <2>5. \A r \in {new} : Accepted(r)'
    BY <2>2 DEF Accepted
  <2>6. UNCHANGED faults
    BY <1>5 DEF serve, bounds
  <2>. QED
    BY <1>1, <1>5, <2>1, <2>2, <2>4, <2>5, <2>6, ComesInv
<1>6. CASE Comes(n, "failed", <<>>) /\ (UNCHANGED serviceVars \/ Accept(calls[n].of)) /\
           (UNCHANGED faults \/ (faults < MaxFaults /\ faults' = faults + 1))
  <2>1. Keeps
    BY <1>2, <1>6, Still, AcceptKeeps DEF IInv
  <2>2. PICK found : found = <<>> /\ Comes(n, "failed", found)
    BY <1>6
  <2>. QED
    BY <1>1, <1>3, <1>6, <2>1, <2>2, ComesInv
<1>. QED
  <2>1. CASE serve(n)
    BY <1>2, <1>4, <1>5, <1>6, <2>1 DEF serve, bounds
  <2>2. CASE fail(n)
    BY <1>6, <2>2 DEF fail, Faulty
  <2>. QED
    BY <2>1, <2>2
-----------------------------------------------------------------------------
(* The callback of a call: the call is over, and what was shown stays.     *)
LEMMA CallbackInv == ASSUME IInv, NEW n \in DOMAIN calls, Callback(n) PROVE IInv'
<1>1. /\ calls' = [calls EXCEPT ![n] = Idle] /\ Idle.at = "done"
      /\ UNCHANGED serviceVars /\ crossed' = crossed /\ refused' = refused
      /\ logins' = logins /\ faults' = faults
  BY DEF Callback, sent, loaded, not_answered, Done, Idle, bounds
<1>2. Keeps /\ ServiceOK' /\ UNCHANGED <<phase, session>>
  BY <1>1, Still DEF IInv, Keeps, serviceVars
<1>3. calls[n].at # "done"
  BY DEF Callback, sent, loaded, not_answered, Unknown
<1>4. CallsOK'
  BY <1>1, <1>2, OneCallsStep DEF IInv
<1>5. PICK c \in Call : c = calls[n]
  BY <1>3, CallIs DEF IInv
<1>6. /\ DOMAIN c.found \subseteq RequestId /\ \A r \in DOMAIN c.found : c.found[r] \in Phase
      /\ n \in 1..MaxActs
  BY <1>3, <1>5, CallIs DEF IInv
<1>7. /\ DOMAIN calls' = DOMAIN calls
      /\ \A m \in DOMAIN calls : m # n => calls'[m] = calls[m]
      /\ calls'[n] = Idle
  BY <1>1 DEF IInv, CallsOK
<1>8. ~crossed => \A m \in DOMAIN calls' : calls'[m].at = "done"
  BY <1>1, <1>3, <1>7 DEF IInv, Uncrossed, OneCall
<1>9. ASSUME NEW polling, replies' = replies \cup Rendered(n, polling),
             c.at = "answered", AnswerOK(c),
             sessionId' \in RequestId, \A r \in DOMAIN c.found : session[r] = sessionId',
             ~crossed => \A b \in Shown : session[b.request] = sessionId' /\ b.request \notin DOMAIN c.found,
             token' = token, sending' = sending
      PROVE  IInv'
  <2>1. \A b \in Rendered(n, polling) :
          /\ b \in Reply /\ b.request \in DOMAIN c.found /\ Accepted(b.request)
          /\ \A d \in Rendered(n, polling) : d.request = b.request => d = b
    <3>1. token \in Token \cup {None}
      BY DEF IInv, PageOK
    <3>2. ASSUME NEW b \in Rendered(n, polling)
          PROVE  /\ b \in Reply /\ b.request \in DOMAIN c.found
                 /\ b = [by |-> n, request |-> b.request, shown |-> c.found[b.request], on |-> TRUE,
                         poll |-> IF b.request \in polling THEN "asked" ELSE "ended",
                         token |-> IF b.request \in polling THEN token ELSE None]
      <4>1. PICK r \in DOMAIN c.found :
               b = [by |-> n, request |-> r, shown |-> c.found[r], on |-> TRUE,
                    poll |-> IF r \in polling THEN "asked" ELSE "ended",
                    token |-> IF r \in polling THEN token ELSE None]
        BY <1>5 DEF Rendered
      <4>. QED
        BY <1>6, <3>1, <4>1 DEF Reply, Phase
    <3>. QED
      BY <1>9, <3>2 DEF AnswerOK
  <2>2. RepliesOK'
    BY <1>2, <1>9, <2>1 DEF IInv, RepliesOK, Accepted
  <2>3. Shown' \subseteq Shown \cup Rendered(n, polling)
    BY <1>9 DEF Shown
  <2>4. PageOK'
    BY <1>1, <1>9 DEF IInv, PageOK
  <2>5. ASSUME ~crossed' PROVE Uncrossed'
    <3>1. OneConversation
      BY <1>1, <2>5 DEF IInv, Uncrossed
    <3>2. OneConversation'
      BY <1>1, <1>2, <1>9, <2>1, <2>3, <2>5, <3>1 DEF OneConversation
    <3>. QED
      BY <1>1, <1>8, <2>5, <3>2 DEF Uncrossed, OneCall
  <2>. QED
    BY <1>2, <1>4, <2>2, <2>4, <2>5 DEF IInv
<1>10. ~crossed => OneConversation /\ GoesToShown(c)
  BY <1>3, <1>5 DEF IInv, Uncrossed
<1>11. \A b \in Shown : b.request \in RequestId /\ session[b.request] # None
  BY DEF IInv, ServiceOK, RepliesOK, Shown, Reply
<1>12. CASE sent(n)
  <2>1. /\ c.at = "answered" /\ c.kind = "send" /\ AnswerOK(c)
        /\ \E r \in DOMAIN c.found : sessionId' = session[r]
        /\ replies' = replies \cup Rendered(n, RequestId) /\ token' = token /\ sending' = sending
    BY <1>5, <1>12 DEF sent, IInv, CallsOK
  <2>2. PICK r \in RequestId : DOMAIN c.found = {r} /\ session[r] = IF c.of = None THEN r ELSE c.of
    BY <2>1 DEF AnswerOK
  <2>3. sessionId' = session[r] /\ sessionId' \in RequestId
    BY <2>1, <2>2 DEF Call
  <2>4. ~crossed => \A b \in Shown : session[b.request] = sessionId' /\ b.request \notin DOMAIN c.found
    BY <1>10, <1>11, <2>1, <2>2, <2>3 DEF OneConversation, GoesToShown
  <2>. QED
    BY <1>9, <2>1, <2>2, <2>3, <2>4
<1>13. CASE loaded(n)
  <2>1. PICK polling : replies' = replies \cup Rendered(n, polling)
    BY <1>13 DEF loaded
  <2>2. /\ c.at = "answered" /\ c.kind = "load" /\ AnswerOK(c)
        /\ sessionId' = c.of /\ token' = token /\ sending' = sending /\ c.of \in RequestId
    BY <1>5, <1>13 DEF loaded, IInv, CallsOK
  <2>. QED
    BY <1>9, <1>10, <2>1, <2>2 DEF AnswerOK, GoesToShown
<1>14. CASE not_answered(n)
  <2>1. UNCHANGED <<sessionId, replies>> /\ token' \in Token \cup {None} /\ sending' \in BOOLEAN
    BY <1>14 DEF not_answered, IInv, PageOK
  <2>2. RepliesOK' /\ PageOK'
    BY <1>1, <1>2, <2>1 DEF IInv, RepliesOK, PageOK, Accepted
  <2>3. ~crossed' => Uncrossed'
    BY <1>1, <1>2, <1>8, <1>10, <2>1 DEF Uncrossed, OneCall, OneConversation, Shown
  <2>. QED
    BY <1>2, <1>4, <2>2, <2>3 DEF IInv
<1>. QED
  BY <1>12, <1>13, <1>14 DEF Callback

(* A poll of one reply: the reply stays, of its request, on or off.        *)
LEMMA PollInv == ASSUME IInv, NEW b \in replies, PollStep(b) \/ poll_fails(b) PROVE IInv'
<1>1. UNCHANGED <<serviceVars, sessionId, calls, crossed, logins>>
  BY DEF PollStep, tick, polled, poll_refused, poll_fails, bounds
<1>2. Keeps /\ ServiceOK' /\ CallsOK' /\ UNCHANGED <<phase, session>>
  BY <1>1, Still, CallsStay DEF IInv, Keeps, serviceVars
<1>3. b \in Reply /\ Accepted(b.request) /\ token \in Token \cup {None}
  BY DEF IInv, RepliesOK, PageOK
<1>4. phase[b.request] \in Phase
  BY <1>3 DEF IInv, ServiceOK, Door!TypeOK, Reply, Accepted, Phase
<1>5. PICK c \in Reply : Becomes(b, c) /\ c.request = b.request /\ c.on = b.on
  <2>1. CASE tick(b)
    <3>1. [b EXCEPT !.poll = "asked", !.token = token] \in Reply
      BY <1>3 DEF Reply
    <3>. QED
      BY <1>3, <2>1, <3>1 DEF tick, Reply
  <2>2. CASE polled(b)
    <3>1. PICK next \in {"ended", "timer"} :
             Becomes(b, [b EXCEPT !.shown = phase[b.request], !.poll = next, !.token = None])
      BY <2>2 DEF polled
    <3>2. [b EXCEPT !.shown = phase[b.request], !.poll = next, !.token = None] \in Reply
      BY <1>3, <1>4 DEF Reply
    <3>. QED
      BY <1>3, <3>1, <3>2 DEF Reply
  <2>3. CASE poll_refused(b)
    <3>1. [b EXCEPT !.poll = "ended", !.token = None] \in Reply
      BY <1>3 DEF Reply
    <3>. QED
      BY <1>3, <2>3, <3>1 DEF poll_refused, Reply
  <2>4. CASE poll_fails(b)
    <3>1. [b EXCEPT !.poll = "timer", !.token = None] \in Reply
      BY <1>3 DEF Reply
    <3>. QED
      BY <1>3, <2>4, <3>1 DEF poll_fails, Reply
  <2>. QED
    BY <2>1, <2>2, <2>3, <2>4 DEF PollStep
<1>6. replies' = (replies \ {b}) \cup Kept({c}) /\ Kept({c}) \subseteq {c}
  BY <1>5 DEF Becomes, Kept
<1>7. RepliesOK'
  BY <1>2, <1>3, <1>5, <1>6 DEF IInv, RepliesOK, Accepted
<1>8. PageOK'
  <2>1. faults' \in 0..MaxFaults
    <3>1. faults' = faults \/ (faults < MaxFaults /\ faults' = faults + 1)
      BY DEF PollStep, tick, polled, poll_refused, poll_fails, bounds, Faulty
    <3>. QED
      BY <3>1, ChatAssumption DEF IInv, PageOK
  <2>2. sending' \in BOOLEAN /\ refused' \in BOOLEAN /\ token' \in Token \cup {None}
    BY <1>3 DEF PollStep, tick, polled, poll_refused, poll_fails, IInv, PageOK
  <2>. QED
    BY <1>1, <2>1, <2>2 DEF IInv, PageOK
<1>9. \A d \in Shown' : \E o \in Shown : o.request = d.request
  BY <1>5, <1>6 DEF Shown
<1>10. ASSUME ~crossed' PROVE Uncrossed'
  <2>1. Uncrossed
    BY <1>1, <1>10 DEF IInv
  <2>2. \A d \in Shown' : d \in Shown \ {b} \/ (d = c /\ b \in Shown)
    BY <1>5, <1>6 DEF Shown
  <2>3. OneConversation'
    BY <1>1, <1>2, <1>5, <2>1, <2>2 DEF Uncrossed, OneConversation
  <2>4. \A n \in DOMAIN calls : GoesToShown(calls[n]) => GoesToShown(calls[n])'
    BY <1>1, <1>9 DEF GoesToShown
  <2>. QED
    BY <1>1, <2>1, <2>3, <2>4 DEF Uncrossed, OneCall
<1>. QED
  BY <1>2, <1>7, <1>8, <1>10 DEF IInv
-----------------------------------------------------------------------------
LEMMA NextInv == IInv /\ [Next]_vars => IInv'
<1> SUFFICES ASSUME IInv, [Next]_vars PROVE IInv'
  OBVIOUS
<1>1. CASE Person
  BY <1>1, PersonInv
<1>2. CASE Turns
  BY <1>2, FinishKeeps, ServiceInv DEF Turns, IInv
<1>3. CASE Elsewhere
  <2>1. PICK q \in RequestId : Accept(session[q])
    BY <1>3 DEF Elsewhere
  <2>2. session[q] \in RequestId \cup {None}
    BY DEF IInv, ServiceOK, Door!TypeOK
  <2>. QED
    BY <1>3, <2>1, <2>2, AcceptKeeps, ServiceInv DEF Elsewhere, IInv
<1>4. CASE \E n \in DOMAIN calls : serve(n) \/ fail(n) \/ Callback(n)
  BY <1>4, ServeInv, CallbackInv
<1>5. CASE \E b \in replies : PollStep(b) \/ poll_fails(b)
  BY <1>5, PollInv
<1>6. CASE UNCHANGED vars
  <2>1. UNCHANGED serviceVars /\ UNCHANGED <<pageVars, bounds>>
    BY <1>6 DEF vars
  <2>. QED
    BY <2>1, Still, ServiceInv DEF IInv
<1>. QED
  BY <1>1, <1>2, <1>3, <1>4, <1>5, <1>6 DEF Next

THEOREM PageInvariance == Spec => []IInv
BY InitInv, NextInv, PTL DEF Spec

(* The variables of the page keep their types.                             *)
THEOREM PageTypes == Spec => []TypeOK
<1>1. IInv => TypeOK
  BY DEF IInv, ServiceOK, CallsOK, RepliesOK, PageOK, TypeOK
<1>. QED
  BY <1>1, PageInvariance, PTL

(* Unless somebody acts while a call of theirs is out, the page shows the  *)
(* conversation that a message goes to, each request of it once, whatever  *)
(* fails, polls, logs in and out, is loaded again or comes from elsewhere. *)
THEOREM PageShowsItsSession == Spec => []TranscriptIsTheSession
<1>1. IInv => TranscriptIsTheSession
  BY DEF IInv, Uncrossed, OneConversation, TranscriptIsTheSession
<1>. QED
  BY <1>1, PageInvariance, PTL
=============================================================================
