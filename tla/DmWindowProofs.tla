---------------------------- MODULE DmWindowProofs ----------------------------
(***************************************************************************)
(* What holds of the chat entrance for any number of messages, requests,   *)
(* failures and kills.                                                     *)
(***************************************************************************)
EXTENDS DmWindow, FiniteSetTheorems, TLAPS

Answers == {"response", "no_answer"}

TypeOK ==
  /\ at \in [Dm -> {"unsent", "done", "lost"} \cup Running]
  /\ request \in [Dm -> RequestId \cup {None}]
  /\ reply \in [Dm -> Answers \cup {"none"}]
  /\ sent \in [Dm -> Seq(Answers \cup {"broken"})]
  /\ failed \in [Dm -> Nat]
  /\ phase \in [RequestId -> {"absent", "waiting", "running", "over"}]
  /\ response \in [RequestId -> {"none", "coming", "there"}]

Responded(r) == phase[r] = "over" /\ response[r] = "there"

(* A thread that asked has a request of its own, which exists.             *)
HasRequest(m) ==
  /\ at[m] \in {"unsent", "history", "ask"} => reply[m] = "none"
  /\ at[m] \in {"ack", "wait", "look", "answer"} => request[m] # None
  /\ request[m] # None => phase[request[m]] # "absent"
  /\ reply[m] = "response" => request[m] # None /\ Responded(request[m])
  /\ \A n \in Dm \ {m} : request[m] # None => request[n] # request[m]

(* What a sender has got by the time its thread is there.                  *)
SentInTime(m) ==
  /\ at[m] \in {"unsent"} \cup (Running \ {"broken"}) => sent[m] = <<>>
  /\ at[m] = "answer" => reply[m] \in Answers
  /\ at[m] = "broken" => failed[m] >= 1 /\ \A i \in DOMAIN sent[m] : sent[m][i] # "broken"
  /\ at[m] = "done" /\ sent[m] = <<>> => failed[m] >= 2
  /\ \A i \in DOMAIN sent[m] : sent[m][i] = "response" => reply[m] = "response"

IInv == TypeOK /\ \A m \in Dm : HasRequest(m) /\ SentInTime(m)
-----------------------------------------------------------------------------
LEMMA InitInv == Init => IInv
BY DEF Init, Window!Init, IInv, TypeOK, HasRequest, SentInTime, Running, Answers

(* A step of m's thread under way that asks for nothing and sends nothing. *)
LEMMA ThreadMoves ==
  ASSUME IInv, NEW m \in Dm, NEW step \in {"unsent", "done", "lost"} \cup Running, Goes(m, step)
  PROVE  /\ at' \in [Dm -> {"unsent", "done", "lost"} \cup Running]
         /\ at'[m] = step /\ \A n \in Dm : n # m => at'[n] = at[n]
BY DEF IInv, TypeOK, Goes

LEMMA Sending ==
  ASSUME IInv, NEW m \in Dm, NEW what \in Answers \cup {"broken"}, Sends(m, what)
  PROVE  /\ sent' \in [Dm -> Seq(Answers \cup {"broken"})]
         /\ \A n \in Dm : n # m => sent'[n] = sent[n]
         /\ sent'[m] = Append(sent[m], what) /\ sent'[m] # <<>>
         /\ \A i \in DOMAIN sent'[m] : sent'[m][i] = what \/ (i \in DOMAIN sent[m] /\ sent'[m][i] = sent[m][i])
<1>1. sent[m] \in Seq(Answers \cup {"broken"}) /\ sent \in [Dm -> Seq(Answers \cup {"broken"})]
  BY DEF IInv, TypeOK
<1>2. sent' = [sent EXCEPT ![m] = Append(sent[m], what)]
  BY DEF Sends
<1>3. Append(sent[m], what) \in Seq(Answers \cup {"broken"})
  BY <1>1
<1>4. sent'[m] = Append(sent[m], what) /\ \A n \in Dm : n # m => sent'[n] = sent[n]
  BY <1>1, <1>2
<1>5. \A i \in DOMAIN Append(sent[m], what) :
        Append(sent[m], what)[i] = what \/ (i \in DOMAIN sent[m] /\ Append(sent[m], what)[i] = sent[m][i])
  BY <1>1
<1>6. Append(sent[m], what) # <<>>
  BY <1>1
<1> QED
  BY <1>1, <1>2, <1>3, <1>4, <1>5, <1>6

(* A thread whose variables stay keeps its promises while requests go on.  *)
LEMMA Bystander ==
  ASSUME IInv, NEW m \in Dm,
         at'[m] = at[m], request'[m] = request[m], reply'[m] = reply[m], sent'[m] = sent[m],
         failed'[m] = failed[m],
         \A r \in RequestId : phase[r] # "absent" => phase'[r] # "absent",
         \A r \in RequestId : Responded(r) => Responded(r)',
         \A n \in Dm \ {m} : request'[n] = request[n] \/ (request'[n] \in RequestId /\ phase[request'[n]] = "absent")
  PROVE  HasRequest(m)' /\ SentInTime(m)'
<1>1. request[m] \in RequestId \cup {None} /\ HasRequest(m) /\ SentInTime(m)
  BY DEF IInv, TypeOK
<1>2. SentInTime(m)'
  BY <1>1 DEF SentInTime
<1>3. HasRequest(m)'
  BY <1>1 DEF HasRequest
<1> QED
  BY <1>2, <1>3

(* What a step of m's thread leaves to look at: m itself.                  *)
LEMMA ThreadStep ==
  ASSUME IInv, NEW m \in Dm, TypeOK',
         \A n \in Dm \ {m} : /\ at'[n] = at[n] /\ request'[n] = request[n] /\ reply'[n] = reply[n]
                            /\ sent'[n] = sent[n] /\ failed'[n] = failed[n],
         request'[m] = request[m] \/ (request'[m] \in RequestId /\ phase[request'[m]] = "absent"),
         \A r \in RequestId : phase[r] # "absent" => phase'[r] # "absent",
         \A r \in RequestId : Responded(r) => Responded(r)',
         HasRequest(m)', SentInTime(m)'
  PROVE  IInv'
<1>1. ASSUME NEW n \in Dm \ {m} PROVE HasRequest(n)' /\ SentInTime(n)'
  BY <1>1, Bystander
<1> QED
  BY <1>1 DEF IInv

(* The service took a request of m's that it may never learn of.           *)
LEMMA Asked ==
  ASSUME IInv, NEW r \in RequestId, Accepted(r)
  PROVE  /\ phase' \in [RequestId -> {"absent", "waiting", "running", "over"}]
         /\ response' = response
         /\ phase[r] = "absent" /\ phase'[r] = "waiting"
         /\ \A q \in RequestId : q # r => phase'[q] = phase[q]
BY DEF IInv, TypeOK, Accepted, Window!Accept

LEMMA Quiet ==
  ASSUME IInv, UNCHANGED serviceVars
  PROVE  /\ \A r \in RequestId : phase[r] # "absent" => phase'[r] # "absent"
         /\ \A r \in RequestId : Responded(r) => Responded(r)'
         /\ phase' = phase /\ response' = response
BY DEF serviceVars, Responded

LEMMA ReactInv == ASSUME IInv, NEW m \in Dm, react(m) PROVE IInv'
<1>1. \E step \in {"history", "lost"} : Goes(m, step)
  BY DEF react
<1>2. /\ at[m] = "unsent" /\ at'[m] \in {"history", "lost"}
      /\ at' \in [Dm -> {"unsent", "done", "lost"} \cup Running]
      /\ \A n \in Dm : n # m => at'[n] = at[n]
  BY <1>1, ThreadMoves DEF react, Running
<1>3. UNCHANGED <<request, late, reply, sent, failed, serviceVars>>
  BY DEF react
<1>4. TypeOK'
  BY <1>2, <1>3, Quiet DEF IInv, TypeOK
<1>5. HasRequest(m)' /\ SentInTime(m)'
  BY <1>2, <1>3, Quiet DEF IInv, HasRequest, SentInTime, Responded, Running
<1> QED
  BY <1>2, <1>3, <1>4, <1>5, Quiet, ThreadStep

LEMMA HistoryInv == ASSUME IInv, NEW m \in Dm, dm_history(m) \/ send_ack(m) PROVE IInv'
<1>1. \/ at[m] = "history" /\ Goes(m, "ask")
      \/ at[m] = "ack" /\ Goes(m, "wait")
  BY DEF dm_history, send_ack
<1>2. /\ \/ at[m] = "history" /\ at'[m] = "ask"
         \/ at[m] = "ack" /\ at'[m] = "wait"
      /\ at' \in [Dm -> {"unsent", "done", "lost"} \cup Running]
      /\ \A n \in Dm : n # m => at'[n] = at[n]
  BY <1>1, ThreadMoves DEF Running
<1>3. UNCHANGED <<request, late, reply, sent, failed, serviceVars>>
  BY DEF dm_history, send_ack
<1>4. TypeOK'
  BY <1>2, <1>3, Quiet DEF IInv, TypeOK
<1>5. HasRequest(m)' /\ SentInTime(m)'
  BY <1>2, <1>3, Quiet DEF IInv, HasRequest, SentInTime, Responded, Running
<1> QED
  BY <1>2, <1>3, <1>4, <1>5, Quiet, ThreadStep

LEMMA AskInv == ASSUME IInv, NEW m \in Dm, ask(m) PROVE IInv'
<1> PICK r \in RequestId : Accepted(r) /\ request' = [request EXCEPT ![m] = r]
  BY DEF ask
<1>1. /\ at[m] = "ask" /\ at'[m] = "ack"
      /\ at' \in [Dm -> {"unsent", "done", "lost"} \cup Running]
      /\ \A n \in Dm : n # m => at'[n] = at[n]
  BY ThreadMoves DEF ask, Running
<1>2. UNCHANGED <<late, reply, sent, failed>>
  BY DEF ask
<1>3. /\ request' \in [Dm -> RequestId \cup {None}] /\ request'[m] = r
      /\ \A n \in Dm : n # m => request'[n] = request[n]
  BY DEF IInv, TypeOK
<1>4. /\ phase' \in [RequestId -> {"absent", "waiting", "running", "over"}] /\ response' = response
      /\ phase[r] = "absent" /\ phase'[r] = "waiting"
      /\ \A q \in RequestId : q # r => phase'[q] = phase[q]
  BY Asked
<1>5. TypeOK'
  BY <1>1, <1>2, <1>3, <1>4 DEF IInv, TypeOK
<1>6. SentInTime(m)'
  BY <1>1, <1>2 DEF IInv, SentInTime, Running
<1>7. reply[m] # "response"
  BY <1>1 DEF IInv, HasRequest
<1>8. \A q \in RequestId : (phase[q] # "absent" => phase'[q] # "absent") /\ (Responded(q) => Responded(q)')
  BY <1>4 DEF Responded
<1>9. HasRequest(m)'
  <2>1. r # None
    BY DmAssumption
  <2>2. \A n \in Dm \ {m} : request[n] # r
    BY <1>4, <2>1 DEF IInv, HasRequest
  <2> QED
    BY <1>1, <1>2, <1>3, <1>4, <1>7, <2>1, <2>2 DEF HasRequest
<1> QED
  BY <1>1, <1>2, <1>3, <1>4, <1>5, <1>6, <1>8, <1>9, ThreadStep

(* poll and look: what they say of the request is so from then on.         *)
LEMMA WaitInv == ASSUME IInv, NEW m \in Dm, poll(m) \/ look(m) PROVE IInv'
<1>1. UNCHANGED <<request, late, sent, failed, serviceVars>>
  BY DEF poll, look
<1>2. request[m] \in RequestId /\ at[m] \in {"wait", "look"} /\ HasRequest(m) /\ SentInTime(m)
  BY DEF IInv, TypeOK, HasRequest, poll, look
<1>3. \/ /\ \E step \in {"wait", "look"} : Goes(m, step)
         /\ reply' = reply
      \/ /\ Goes(m, "answer")
         /\ \E what \in Answers : /\ reply' = [reply EXCEPT ![m] = what]
                                  /\ what = "response" => Responded(request[m])
  BY DEF poll, look, Outcome, Answers, Responded
<1>4. /\ at' \in [Dm -> {"unsent", "done", "lost"} \cup Running]
      /\ \A n \in Dm : n # m => at'[n] = at[n]
      /\ at'[m] \in {"wait", "look", "answer"}
  BY <1>3, ThreadMoves DEF Running
<1>5. /\ reply' \in [Dm -> Answers \cup {"none"}]
      /\ \A n \in Dm : n # m => reply'[n] = reply[n]
      /\ at'[m] = "answer" => reply'[m] \in Answers
      /\ reply'[m] = "response" => Responded(request[m])
  <2>1. CASE (\E step \in {"wait", "look"} : Goes(m, step)) /\ reply' = reply
    <3>1. at'[m] \in {"wait", "look"}
      BY <2>1, ThreadMoves DEF Running
    <3> QED
      BY <1>2, <2>1, <3>1 DEF IInv, TypeOK, HasRequest
  <2>2. ASSUME NEW what \in Answers, reply' = [reply EXCEPT ![m] = what],
               what = "response" => Responded(request[m])
        PROVE  /\ reply' \in [Dm -> Answers \cup {"none"}]
               /\ \A n \in Dm : n # m => reply'[n] = reply[n]
               /\ reply'[m] \in Answers /\ reply'[m] = what
    BY <2>2 DEF IInv, TypeOK
  <2> QED
    BY <1>3, <2>1, <2>2
<1>6. TypeOK'
  BY <1>1, <1>4, <1>5, Quiet DEF IInv, TypeOK
<1>7. HasRequest(m)'
  BY <1>1, <1>2, <1>4, <1>5, Quiet DEF HasRequest, Responded, IInv, TypeOK
<1>8. SentInTime(m)'
  BY <1>1, <1>2, <1>4, <1>5 DEF SentInTime, Running
<1> QED
  BY <1>1, <1>4, <1>5, <1>6, <1>7, <1>8, Quiet, ThreadStep

LEMMA AnswerInv == ASSUME IInv, NEW m \in Dm, answer(m) PROVE IInv'
<1>1. UNCHANGED <<request, late, reply, failed, serviceVars>> /\ at[m] = "answer"
  BY DEF answer
<1>2. /\ at'[m] = "done" /\ at' \in [Dm -> {"unsent", "done", "lost"} \cup Running]
      /\ \A n \in Dm : n # m => at'[n] = at[n]
  BY ThreadMoves DEF answer
<1>3. reply[m] \in Answers
  BY <1>1 DEF IInv, SentInTime
<1>4. /\ sent' \in [Dm -> Seq(Answers \cup {"broken"})]
      /\ \A n \in Dm : n # m => sent'[n] = sent[n]
      /\ sent'[m] # <<>>
      /\ \A i \in DOMAIN sent'[m] : sent'[m][i] = reply[m] \/ (i \in DOMAIN sent[m] /\ sent'[m][i] = sent[m][i])
  BY <1>3, Sending DEF answer
<1>5. TypeOK'
  BY <1>1, <1>2, <1>4, Quiet DEF IInv, TypeOK
<1>6. HasRequest(m)'
  BY <1>1, <1>2, Quiet DEF IInv, HasRequest, Responded
<1>7. SentInTime(m)'
  BY <1>1, <1>2, <1>4 DEF IInv, SentInTime, Running
<1> QED
  BY <1>1, <1>2, <1>4, <1>5, <1>6, <1>7, Quiet, ThreadStep

LEMMA Raising ==
  ASSUME IInv, NEW m \in Dm, Raises(m)
  PROVE  /\ UNCHANGED <<request, late, reply>>
         /\ failed' \in [Dm -> Nat] /\ failed'[m] = failed[m] + 1
         /\ \A n \in Dm : n # m => failed'[n] = failed[n]
BY DEF IInv, TypeOK, Raises

LEMMA FailsInv == ASSUME IInv, NEW m \in Dm, call_fails(m) PROVE IInv'
<1>1. /\ UNCHANGED <<request, late, reply>>
      /\ failed' \in [Dm -> Nat] /\ failed'[m] = failed[m] + 1
      /\ \A n \in Dm : n # m => failed'[n] = failed[n]
  BY Raising DEF call_fails
<1>2. /\ at[m] \in {"history", "ask", "ack", "wait", "answer"}
      /\ at'[m] = "broken" /\ at' \in [Dm -> {"unsent", "done", "lost"} \cup Running]
      /\ \A n \in Dm : n # m => at'[n] = at[n]
  BY ThreadMoves DEF call_fails, Running
<1>3. failed[m] \in Nat /\ sent[m] = <<>> /\ HasRequest(m)
  BY <1>2 DEF IInv, TypeOK, SentInTime, Running
<1>5. CASE UNCHANGED <<sent, serviceVars>>
  <2>1. TypeOK'
    BY <1>1, <1>2, <1>5, Quiet DEF IInv, TypeOK
  <2>2. HasRequest(m)'
    BY <1>1, <1>2, <1>3, <1>5, Quiet DEF HasRequest, Responded
  <2>3. SentInTime(m)'
    BY <1>1, <1>2, <1>3, <1>5 DEF SentInTime
  <2> QED
    BY <1>1, <1>2, <1>5, <2>1, <2>2, <2>3, Quiet, ThreadStep
<1>6. ASSUME NEW r \in RequestId, Accepted(r), UNCHANGED sent PROVE IInv'
  <2>1. /\ phase' \in [RequestId -> {"absent", "waiting", "running", "over"}] /\ response' = response
        /\ phase[r] = "absent" /\ phase'[r] = "waiting"
        /\ \A q \in RequestId : q # r => phase'[q] = phase[q]
    BY <1>6, Asked
  <2>2. \A q \in RequestId : (phase[q] # "absent" => phase'[q] # "absent") /\ (Responded(q) => Responded(q)')
    BY <2>1 DEF Responded
  <2>3. TypeOK'
    BY <1>1, <1>2, <1>6, <2>1 DEF IInv, TypeOK
  <2>4. request[m] \in RequestId \cup {None}
    BY DEF IInv, TypeOK
  <2>5. HasRequest(m)'
    BY <1>1, <1>2, <1>3, <2>2, <2>4 DEF HasRequest
  <2>6. SentInTime(m)'
    BY <1>1, <1>2, <1>3, <1>6 DEF SentInTime
  <2> QED
    BY <1>1, <1>2, <1>6, <2>2, <2>3, <2>5, <2>6, ThreadStep
<1>7. CASE at[m] = "answer" /\ Sends(m, reply[m]) /\ UNCHANGED serviceVars
  <2>1. reply[m] \in Answers
    BY <1>7 DEF IInv, SentInTime
  <2>2. /\ sent' \in [Dm -> Seq(Answers \cup {"broken"})]
        /\ \A n \in Dm : n # m => sent'[n] = sent[n]
        /\ \A i \in DOMAIN sent'[m] : sent'[m][i] = reply[m] \/ (i \in DOMAIN sent[m] /\ sent'[m][i] = sent[m][i])
    BY <1>7, <2>1, Sending
  <2>3. \A i \in DOMAIN sent'[m] : sent'[m][i] = reply[m] /\ reply[m] # "broken"
    BY <1>3, <2>1, <2>2 DEF Answers
  <2>4. TypeOK'
    BY <1>1, <1>2, <1>7, <2>2, Quiet DEF IInv, TypeOK
  <2>5. HasRequest(m)'
    BY <1>1, <1>2, <1>3, <1>7, Quiet DEF HasRequest, Responded
  <2>6. SentInTime(m)'
    BY <1>1, <1>2, <1>3, <2>3 DEF SentInTime
  <2> QED
    BY <1>1, <1>2, <1>7, <2>2, <2>4, <2>5, <2>6, Quiet, ThreadStep
<1> QED
  BY <1>5, <1>6, <1>7 DEF call_fails

LEMMA ReportInv == ASSUME IInv, NEW m \in Dm, report(m) \/ report_fails(m) PROVE IInv'
<1>1. /\ UNCHANGED <<request, late, reply, serviceVars>> /\ at[m] = "broken"
      /\ failed' \in [Dm -> Nat] /\ \A n \in Dm : n # m => failed'[n] = failed[n]
      /\ \/ failed'[m] = failed[m] /\ Sends(m, "broken")
         \/ failed'[m] = failed[m] + 1 /\ (sent' = sent \/ Sends(m, "broken"))
  BY Raising DEF report, report_fails, IInv, TypeOK
<1>2. /\ at'[m] = "done" /\ at' \in [Dm -> {"unsent", "done", "lost"} \cup Running]
      /\ \A n \in Dm : n # m => at'[n] = at[n]
  BY ThreadMoves DEF report, report_fails
<1>3. failed[m] \in Nat /\ failed[m] >= 1 /\ HasRequest(m) /\ SentInTime(m) /\ sent \in [Dm -> Seq(Answers \cup {"broken"})]
  BY <1>1 DEF IInv, TypeOK, SentInTime
<1>4. /\ sent' \in [Dm -> Seq(Answers \cup {"broken"})]
      /\ \A n \in Dm : n # m => sent'[n] = sent[n]
      /\ sent'[m] # <<>> \/ failed'[m] = failed[m] + 1
      /\ \A i \in DOMAIN sent'[m] : sent'[m][i] = "broken" \/ (i \in DOMAIN sent[m] /\ sent'[m][i] = sent[m][i])
  <2>1. CASE Sends(m, "broken")
    BY <2>1, Sending
  <2>2. CASE sent' = sent /\ failed'[m] = failed[m] + 1
    BY <1>3, <2>2
  <2> QED
    BY <1>1, <2>1, <2>2
<1>5. TypeOK'
  BY <1>1, <1>2, <1>4, Quiet DEF IInv, TypeOK
<1>6. HasRequest(m)'
  BY <1>1, <1>2, <1>3, Quiet DEF HasRequest, Responded
<1>7. SentInTime(m)'
  <2>1. sent'[m] = <<>> => failed'[m] >= 2
    BY <1>1, <1>3, <1>4
  <2>2. \A i \in DOMAIN sent'[m] : sent'[m][i] = "response" => reply'[m] = "response"
    BY <1>1, <1>3, <1>4 DEF SentInTime
  <2> QED
    BY <1>1, <1>2, <1>3, <2>1, <2>2 DEF SentInTime, Running
<1> QED
  BY <1>1, <1>2, <1>4, <1>5, <1>6, <1>7, Quiet, ThreadStep

(* The service's steps: what is over is over, and stays as it ended.       *)
LEMMA ServiceInv ==
  ASSUME IInv, UNCHANGED <<at, request, reply, sent, failed>>,
         \/ \E r \in RequestId : turn_starts(r) \/ turn_ends(r) \/ turn_responds(r)
         \/ service_dies
  PROVE  IInv'
<1>1. /\ phase' \in [RequestId -> {"absent", "waiting", "running", "over"}]
      /\ response' \in [RequestId -> {"none", "coming", "there"}]
  BY DEF IInv, TypeOK, turn_starts, turn_ends, turn_responds, service_dies, Window!Start, Window!Finish, Window!Crash
<1>2. \A r \in RequestId : phase[r] # "absent" => phase'[r] # "absent"
  BY DEF IInv, TypeOK, turn_starts, turn_ends, turn_responds, service_dies, Window!Start, Window!Finish, Window!Crash
<1>3. \A r \in RequestId : Responded(r) => phase'[r] = "over" /\ response'[r] = "there"
  BY DEF IInv, TypeOK, Responded, turn_starts, turn_ends, turn_responds, service_dies,
         Window!Start, Window!Finish, Window!Crash
<1>4. \A r \in RequestId : Responded(r) => Responded(r)'
  BY <1>3 DEF Responded
<1>5. TypeOK'
  BY <1>1 DEF IInv, TypeOK
<1>6. ASSUME NEW m \in Dm PROVE HasRequest(m)' /\ SentInTime(m)'
  BY <1>2, <1>4, Bystander
<1> QED
  BY <1>5, <1>6 DEF IInv

LEMMA ListenerInv ==
  ASSUME IInv, listener_dies \/ listener_starts
  PROVE  IInv'
<1>1. UNCHANGED <<request, reply, sent, failed, serviceVars>>
  BY DEF listener_dies, listener_starts, threadVars
<1>2. /\ at' \in [Dm -> {"unsent", "done", "lost"} \cup Running]
      /\ \A m \in Dm : at'[m] = at[m] \/ at'[m] = "lost"
  BY DEF IInv, TypeOK, listener_dies, listener_starts, threadVars
<1>3. TypeOK'
  BY <1>1, <1>2, Quiet DEF IInv, TypeOK
<1>4. ASSUME NEW m \in Dm PROVE HasRequest(m)' /\ SentInTime(m)'
  <2>1. at'[m] = at[m] \/ at'[m] = "lost"
    BY <1>2
  <2>2. CASE at'[m] = at[m]
    BY <1>1, <2>2, Quiet, Bystander
  <2>3. CASE at'[m] = "lost"
    BY <1>1, <2>3, Quiet DEF IInv, HasRequest, SentInTime, Responded, Running
  <2> QED
    BY <2>1, <2>2, <2>3
<1> QED
  BY <1>3, <1>4 DEF IInv

LEMMA StutterInv ==
  ASSUME IInv, UNCHANGED <<at, request, reply, sent, failed, serviceVars>>
  PROVE  IInv'
<1>1. TypeOK'
  BY Quiet DEF IInv, TypeOK
<1>2. ASSUME NEW m \in Dm PROVE HasRequest(m)' /\ SentInTime(m)'
  BY Quiet, Bystander
<1> QED
  BY <1>1, <1>2 DEF IInv

LEMMA NextInv == IInv /\ [Next]_vars => IInv'
<1> SUFFICES ASSUME IInv, [Next]_vars PROVE IInv'
  OBVIOUS
<1>1. ASSUME NEW m \in Dm, react(m) \/ worker(m) PROVE IInv'
  BY <1>1, ReactInv, HistoryInv, AskInv, WaitInv, AnswerInv, FailsInv, ReportInv DEF worker, run_and_reply
<1>2. ASSUME NEW m \in Dm, deadline(m) PROVE IInv'
  BY <1>2, StutterInv DEF deadline
<1>3. CASE (\E r \in RequestId : turn_starts(r) \/ turn_ends(r) \/ turn_responds(r)) \/ service_dies
  BY <1>3, ServiceInv DEF turn_starts, turn_ends, turn_responds, service_dies, threadVars
<1>4. CASE listener_dies \/ listener_starts
  BY <1>4, ListenerInv
<1>5. CASE UNCHANGED vars
  BY <1>5, StutterInv DEF vars, threadVars
<1> QED
  BY <1>1, <1>2, <1>3, <1>4, <1>5 DEF Next

(* The types, and what a thread has by the time it is there.               *)
THEOREM DmInvariance == Spec => []IInv
BY InitInv, NextInv, PTL DEF Spec

(* A thread that ends without a word had two calls that failed: for any    *)
(* number of messages, failures and kills.                                 *)
THEOREM IsNeverSilent == Spec => []NeverSilent
<1>1. IInv => NeverSilent
  BY DEF IInv, SentInTime, NeverSilent
<1> QED
  BY <1>1, DmInvariance, PTL

(* No sender gets the response of a turn that was not its message's.       *)
THEOREM AnswersAreOfTheirTurns == Spec => []AnswerIsOfTheTurn
<1>1. IInv => AnswerIsOfTheTurn
  BY DEF IInv, HasRequest, SentInTime, AnswerIsOfTheTurn, Responded
<1> QED
  BY <1>1, DmInvariance, PTL
-----------------------------------------------------------------------------
(* The turns asked for, and the threads that are past asking.              *)
Turns == {r \in RequestId : phase[r] # "absent"}
Past == {m \in Dm : at[m] \notin {"unsent", "history", "ask"}}

PaidOnce == IsFiniteSet(Turns) /\ Cardinality(Turns) =< Cardinality(Past)

(* One thread more, one turn more.                                         *)
LEMMA AsksOnce ==
  ASSUME IInv, PaidOnce, NEW m \in Dm, NEW r \in RequestId, Accepted(r),
         at[m] = "ask", NEW step \in {"ack", "broken"}, Goes(m, step)
  PROVE  PaidOnce'
<1>1. /\ at'[m] = step /\ \A n \in Dm : n # m => at'[n] = at[n]
  BY ThreadMoves DEF Running
<1>2. /\ phase[r] = "absent" /\ phase'[r] = "waiting"
      /\ \A q \in RequestId : q # r => phase'[q] = phase[q]
  BY Asked
<1>3. Turns' = Turns \cup {r} /\ r \notin Turns
  BY <1>2 DEF Turns
<1>4. Past' = Past \cup {m} /\ m \notin Past
  BY <1>1 DEF Past
<1>5. IsFiniteSet(Past)
  BY DmAssumption, FS_Subset DEF Past
<1>6. /\ IsFiniteSet(Turns') /\ Cardinality(Turns') = Cardinality(Turns) + 1
      /\ Cardinality(Past') = Cardinality(Past) + 1
  BY <1>3, <1>4, <1>5, FS_AddElement DEF PaidOnce
<1>7. Cardinality(Turns) \in Nat /\ Cardinality(Past) \in Nat
  BY <1>5, FS_CardinalityType DEF PaidOnce
<1> QED
  BY <1>6, <1>7 DEF PaidOnce

(* No other step makes a turn, or takes a thread back to before it asked.  *)
LEMMA AsksNoMore ==
  ASSUME PaidOnce, Turns' = Turns, Past \subseteq Past'
  PROVE  PaidOnce'
<1>1. IsFiniteSet(Past') /\ IsFiniteSet(Past)
  BY DmAssumption, FS_Subset DEF Past
<1>2. Cardinality(Past) =< Cardinality(Past')
  BY <1>1, FS_Subset
<1>3. Cardinality(Turns) \in Nat /\ Cardinality(Past) \in Nat /\ Cardinality(Past') \in Nat
  BY <1>1, FS_CardinalityType DEF PaidOnce
<1> QED
  BY <1>2, <1>3 DEF PaidOnce

LEMMA ThreadPaysOnce ==
  ASSUME IInv, PaidOnce, NEW m \in Dm, react(m) \/ worker(m)
  PROVE  PaidOnce'
<1>1. CASE ask(m)
  BY <1>1, AsksOnce DEF ask
<1>2. CASE call_fails(m) /\ \E r \in RequestId : at[m] = "ask" /\ Accepted(r)
  BY <1>2, AsksOnce DEF call_fails
<1>3. CASE ~ ask(m) /\ UNCHANGED serviceVars
  <2>1. PICK step \in {"history", "lost", "ask", "wait", "look", "answer", "done", "broken"} : Goes(m, step)
    BY <1>3 DEF react, worker, run_and_reply, dm_history, send_ack, poll, look, answer, call_fails, report, report_fails
  <2>2. /\ at'[m] = step /\ \A n \in Dm : n # m => at'[n] = at[n]
    BY <2>1, ThreadMoves DEF Running
  <2>3. step \in {"history", "ask"} => at[m] \in {"unsent", "history", "ask"}
    <3>1. step \in {"history", "ask"} => react(m) \/ dm_history(m)
      BY <1>3, <2>2 DEF react, worker, run_and_reply, dm_history, send_ack, poll, look, answer, call_fails, report, report_fails,
                        Goes, IInv, TypeOK
    <3> QED
      BY <3>1 DEF react, dm_history
  <2>4. Past \subseteq Past'
    BY <2>2, <2>3 DEF Past
  <2>5. Turns' = Turns
    BY <1>3 DEF Turns, serviceVars
  <2> QED
    BY <2>4, <2>5, AsksNoMore
<1> QED
  BY <1>1, <1>2, <1>3
     DEF react, worker, run_and_reply, dm_history, send_ack, poll, look, answer, call_fails, report, report_fails

LEMMA NextPaysOnce == IInv /\ PaidOnce /\ [Next]_vars => PaidOnce'
<1> SUFFICES ASSUME IInv, PaidOnce, [Next]_vars PROVE PaidOnce'
  OBVIOUS
<1>1. ASSUME NEW m \in Dm, react(m) \/ worker(m) PROVE PaidOnce'
  BY <1>1, ThreadPaysOnce
<1>2. CASE (\E m \in Dm : deadline(m)) \/ UNCHANGED vars
  BY <1>2, AsksNoMore DEF deadline, vars, threadVars, serviceVars, Turns, Past
<1>3. CASE (\E r \in RequestId : turn_starts(r) \/ turn_ends(r) \/ turn_responds(r)) \/ service_dies
  <2>1. \A r \in RequestId : phase'[r] = "absent" <=> phase[r] = "absent"
    BY <1>3 DEF IInv, TypeOK, turn_starts, turn_ends, turn_responds, service_dies, Window!Start, Window!Finish, Window!Crash
  <2>2. Turns' = Turns /\ Past' = Past
    BY <1>3, <2>1 DEF Turns, Past, turn_starts, turn_ends, turn_responds, service_dies, threadVars
  <2> QED
    BY <2>2, AsksNoMore
<1>4. CASE listener_dies \/ listener_starts
  <2>1. Turns' = Turns
    BY <1>4 DEF Turns, listener_dies, listener_starts, serviceVars
  <2>2. \A m \in Dm : at'[m] = at[m] \/ at'[m] = "lost"
    BY <1>4 DEF listener_dies, listener_starts, threadVars
  <2>3. Past \subseteq Past'
    BY <2>2 DEF Past
  <2> QED
    BY <2>1, <2>3, AsksNoMore
<1> QED
  BY <1>1, <1>2, <1>3, <1>4 DEF Next

(* No message pays for two turns, whatever fails, dies or comes late.      *)
THEOREM TurnsArePaidOnce == Spec => []OneTurnPerMessage
<1>1. Init => PaidOnce
  <2> SUFFICES ASSUME Init PROVE PaidOnce
    OBVIOUS
  <2>1. Turns = {} /\ IsFiniteSet(Past)
    BY DmAssumption, FS_Subset DEF Init, Window!Init, Turns, Past
  <2> QED
    BY <2>1, FS_EmptySet, FS_CardinalityType DEF PaidOnce
<1>2. PaidOnce => OneTurnPerMessage
  BY DEF PaidOnce, OneTurnPerMessage, Turns, Past
<1> QED
  BY <1>1, <1>2, NextPaysOnce, DmInvariance, PTL DEF Spec
-----------------------------------------------------------------------------
(* What the sender of a message sees of a step of its thread.              *)
Seen(m, from, to, more) ==
  /\ StateOf(m) = from /\ StateOf(m)' = to
  /\ Told(m)' = Told(m) \cup more
  /\ \A n \in Dm : n # m => StateOf(n)' = StateOf(n) /\ Told(n)' = Told(n)

LEMMA SeenGoes ==
  ASSUME NEW m \in Dm, NEW from, NEW to, NEW more, Seen(m, from, to, more)
  PROVE  /\ Promise!Goes(m, from, to)
         /\ [n \in Dm |-> Told(n)]' = [[n \in Dm |-> Told(n)] EXCEPT ![m] = @ \cup more]
         /\ from = to => UNCHANGED [n \in Dm |-> StateOf(n)]
         /\ more = {} => UNCHANGED [n \in Dm |-> Told(n)]
BY DEF Seen, Promise!Goes

(* The steps of the promise, by what is seen of them.                      *)
LEMMA SeenIsPromised ==
  ASSUME NEW m \in Dm, NEW from, NEW to, NEW more, Seen(m, from, to, more),
         \/ more = {} /\ from = to
         \/ more = {} /\ from = "unsent" /\ to \in {"open", "lost"}
         \/ more = {} /\ from = "open" /\ to = "closed"
         \/ /\ from = "open" /\ to \in {"open", "closed"}
            /\ \E what \in {"answer", "broken"} : more = {what} /\ Told(m) \cap {what, "broken"} = {}
  PROVE  [Promise!Next]_(Promise!vars)
<1> DEFINE States == [n \in Dm |-> StateOf(n)]
           Tolds == [n \in Dm |-> Told(n)]
<1>1. /\ Promise!Goes(m, from, to) /\ Tolds' = [Tolds EXCEPT ![m] = @ \cup more]
      /\ from = to => UNCHANGED States
      /\ more = {} => UNCHANGED Tolds
      /\ Tolds[m] = Told(m) /\ States[m] = from
  BY SeenGoes DEF Seen
<1>2. CASE more = {} /\ from = to
  BY <1>1, <1>2 DEF Promise!vars
<1>3. CASE more = {} /\ from = "unsent" /\ to \in {"open", "lost"}
  BY <1>1, <1>3 DEF Promise!Next, Promise!Take, Promise!Miss
<1>4. CASE more = {} /\ from = "open" /\ to = "closed"
  BY <1>1, <1>4 DEF Promise!Next, Promise!Serve, Promise!Close
<1>5. ASSUME NEW what \in {"answer", "broken"}, more = {what}, Told(m) \cap {what, "broken"} = {},
             from = "open", to \in {"open", "closed"}
      PROVE  Promise!Next
  <2>1. Promise!Tell(m, what)
    BY <1>1, <1>5 DEF Promise!Tell
  <2>2. Promise!Serve(m)
    BY <1>1, <1>5, <2>1 DEF Promise!Serve, Promise!TellAndClose
  <2> QED
    BY <2>2 DEF Promise!Next
<1> QED
  BY <1>2, <1>3, <1>4, <1>5

(* What a message adds to what its sender was told.                        *)
LEMMA SendingTells ==
  ASSUME IInv, NEW m \in Dm, NEW what \in Answers \cup {"broken"}, Sends(m, what)
  PROVE  /\ Told(m)' = Told(m) \cup {IF what = "broken" THEN "broken" ELSE "answer"}
         /\ \A n \in Dm : n # m => Told(n)' = Told(n)
<1>1. /\ sent'[m] = Append(sent[m], what) /\ sent[m] \in Seq(Answers \cup {"broken"})
      /\ \A n \in Dm : n # m => sent'[n] = sent[n]
  BY Sending DEF IInv, TypeOK
<1>2. \A i \in DOMAIN sent'[m] : sent'[m][i] = what \/ (i \in DOMAIN sent[m] /\ sent'[m][i] = sent[m][i])
  BY Sending
<1>3. \A i \in DOMAIN sent[m] : i \in DOMAIN sent'[m] /\ sent'[m][i] = sent[m][i]
  BY <1>1
<1>4. \E i \in DOMAIN sent'[m] : sent'[m][i] = what
  BY <1>1
<1>5. (\E i \in DOMAIN sent'[m] : sent'[m][i] = "broken")
        <=> what = "broken" \/ \E i \in DOMAIN sent[m] : sent[m][i] = "broken"
  BY <1>2, <1>3, <1>4
<1>6. (\E i \in DOMAIN sent'[m] : sent'[m][i] # "broken")
        <=> what # "broken" \/ \E i \in DOMAIN sent[m] : sent[m][i] # "broken"
  BY <1>2, <1>3, <1>4
<1>7. Told(m)' = Told(m) \cup {IF what = "broken" THEN "broken" ELSE "answer"}
  BY <1>5, <1>6 DEF Told
<1>8. \A n \in Dm : n # m => Told(n)' = Told(n)
  BY <1>1 DEF Told
<1> QED
  BY <1>7, <1>8

(* The bystanders, and what is told when nothing is sent.                  *)
LEMMA OthersAreStill ==
  ASSUME IInv, NEW m \in Dm, NEW step \in {"unsent", "done", "lost"} \cup Running, Goes(m, step)
  PROVE  /\ \A n \in Dm : n # m => StateOf(n)' = StateOf(n)
         /\ at'[m] = step
         /\ sent' = sent => \A n \in Dm : Told(n)' = Told(n)
BY ThreadMoves DEF StateOf, Told

LEMMA ThreadIsPromised ==
  ASSUME IInv, NEW m \in Dm, react(m) \/ worker(m)
  PROVE  [Promise!Next]_(Promise!vars)
<1>1. PICK step \in {"lost", "done"} \cup Running :
        /\ Goes(m, step)
        /\ step = "lost" => at[m] = "unsent"
        /\ step = "done" => at[m] \in {"answer", "broken"}
        /\ at[m] = "unsent" => step \in {"history", "lost"} /\ UNCHANGED sent
        /\ at[m] \in {"unsent"} \cup Running
        /\ \/ UNCHANGED sent
           \/ at[m] = "answer" /\ Sends(m, reply[m])
           \/ at[m] = "broken" /\ Sends(m, "broken")
  BY DEF react, worker, run_and_reply, dm_history, ask, send_ack, poll, look, answer, call_fails, report, report_fails, Running
<1>2. /\ \A n \in Dm : n # m => StateOf(n)' = StateOf(n)
      /\ at'[m] = step
      /\ sent' = sent => \A n \in Dm : Told(n)' = Told(n)
  BY <1>1, OthersAreStill
<1>3. /\ at[m] = "unsent" => StateOf(m) = "unsent" /\ StateOf(m)' \in {"open", "lost"}
      /\ at[m] \in Running => StateOf(m) = "open" /\ StateOf(m)' \in {"open", "closed"}
  BY <1>1, <1>2 DEF StateOf, Running
<1>4. CASE UNCHANGED sent
  <2>1. Seen(m, StateOf(m), StateOf(m)', {})
    BY <1>2, <1>4 DEF Seen
  <2> QED
    BY <1>1, <1>3, <2>1, SeenIsPromised
<1>5. ASSUME NEW what \in Answers \cup {"broken"}, Sends(m, what), at[m] \in {"answer", "broken"},
             what = "broken" <=> at[m] = "broken"
      PROVE  [Promise!Next]_(Promise!vars)
  <2> DEFINE more == IF what = "broken" THEN "broken" ELSE "answer"
  <2>1. Told(m)' = Told(m) \cup {more} /\ \A n \in Dm : n # m => Told(n)' = Told(n)
    BY <1>5, SendingTells
  <2>2. Told(m) \cap {more, "broken"} = {}
    <3>1. CASE at[m] = "answer"
      BY <3>1 DEF IInv, SentInTime, Running, Told
    <3>2. CASE at[m] = "broken"
      BY <1>5, <3>2 DEF IInv, SentInTime, Told
    <3> QED
      BY <1>5, <3>1, <3>2
  <2>3. more \in {"answer", "broken"}
    OBVIOUS
  <2> HIDE DEF more
  <2>4. StateOf(m) = "open" /\ StateOf(m)' \in {"open", "closed"}
    BY <1>3, <1>5 DEF Running
  <2>5. Seen(m, "open", StateOf(m)', {more})
    BY <1>2, <2>1, <2>4 DEF Seen
  <2> QED
    BY <2>2, <2>3, <2>4, <2>5, SeenIsPromised
<1>6. at[m] = "answer" => reply[m] \in Answers
  BY DEF IInv, SentInTime
<1> QED
  BY <1>1, <1>4, <1>5, <1>6 DEF Answers

(* Every step of the chat entrance is one of the promise, or none.         *)
LEMMA NextIsPromised == IInv /\ [Next]_vars => [Promise!Next]_(Promise!vars)
<1> SUFFICES ASSUME IInv, [Next]_vars PROVE [Promise!Next]_(Promise!vars)
  OBVIOUS
<1>1. ASSUME NEW m \in Dm, react(m) \/ worker(m) PROVE [Promise!Next]_(Promise!vars)
  BY <1>1, ThreadIsPromised
<1>2. CASE UNCHANGED <<at, sent>>
  BY <1>2 DEF Promise!vars, StateOf, Told
<1>3. CASE listener_dies
  <2>1. UNCHANGED sent /\ \A m \in Dm : StateOf(m)' = IF StateOf(m) = "open" THEN "lost" ELSE StateOf(m)
    <3>1. ASSUME NEW m \in Dm
          PROVE  /\ at[m] \in {"unsent", "done", "lost"} \cup Running
                 /\ at'[m] = IF at[m] \in Running THEN "lost" ELSE at[m]
      BY <1>3 DEF listener_dies, IInv, TypeOK
    <3>2. ASSUME NEW m \in Dm
          PROVE  StateOf(m)' = IF StateOf(m) = "open" THEN "lost" ELSE StateOf(m)
      BY <3>1 DEF StateOf, Running
    <3> QED
      BY <1>3, <3>2 DEF listener_dies
  <2>2. Promise!Die
    BY <2>1 DEF Promise!Die, Told
  <2> QED
    BY <2>2 DEF Promise!Next
<1>4. CASE \/ \E m \in Dm : deadline(m)
           \/ \E r \in RequestId : turn_starts(r) \/ turn_ends(r) \/ turn_responds(r)
           \/ service_dies \/ listener_starts \/ UNCHANGED vars
  BY <1>2, <1>4 DEF deadline, turn_starts, turn_ends, turn_responds, service_dies, listener_starts, vars, threadVars
<1> QED
  BY <1>1, <1>3, <1>4 DEF Next

(* "One answer per message", whatever fails: the listener's threads do     *)
(* what Entrance promises.  That they come to an end rests on fairness.    *)
THEOREM KeepsItsPromise == Spec => Promise!Init /\ [][Promise!Next]_(Promise!vars)
<1>1. Init => Promise!Init
  BY DEF Init, Promise!Init, StateOf, Told, Running
<1> QED
  BY <1>1, NextIsPromised, DmInvariance, PTL DEF Spec
=============================================================================
