------------------------------ MODULE TopicServe ------------------------------
(***************************************************************************)
(* One serving of a topic (cagent_api/topics_serve.py): the front run, its *)
(* answer, then what the files it wrote ask for - a change record, and an  *)
(* operator run.  agag.listen serves one topic at a time, a topic again    *)
(* while somebody spoke in it whom no finished serving has heard, and      *)
(* never a resolved one (zulip_window.py).                                 *)
(***************************************************************************)
EXTENDS ChangeRecord

VARIABLES
  files,      \* handoff files in the front directory of the newest generation
  wrote,      \* history: the handoff files the current front run wrote
  sections,   \* what this serving reports of its handoffs
  heard       \* messages answered by a finished serving

serveVars == <<files, wrote, sections, heard>>
vars == <<messages, spent, pc, recordVars, serveVars>>

Handoff == {"requested_change", "required_info"}

ServeLabel == {"idle", "front", "answer", "operator", "post"} \cup Registering \cup {"registered"}

Speech(S) == {i \in S : messages[i].by # "cagent" /\ messages[i].kind = "speech"}
Due(n) == ~n.resolved /\ Speech(InTopic(n)) \ heard # {}

Init ==
  /\ messages = <<>>
  /\ spent = [e \in Event |-> 0]
  /\ pc = "idle"
  /\ here = NoTopic
  /\ seen = {}
  /\ anchor = 0
  /\ where = NoTopic
  /\ doc = 0
  /\ opening = FALSE
  /\ files = {}
  /\ wrote = {}
  /\ sections = {}
  /\ heard = {}
-----------------------------------------------------------------------------
(* serve_topic fetches the history and serve cuts a new generation, whose  *)
(* front directory is empty.  Mutation: it works in the newest one.        *)
Begin(n) ==
  /\ pc = "idle"
  /\ Due(n)
  /\ here' = n
  /\ seen' = History(n)
  /\ Go("front")
  /\ UNCHANGED <<messages, spent, anchor, where, doc, opening, wrote, sections, heard>>

ServeSameGeneration(n) == Begin(n) /\ UNCHANGED files

Serve(n) == Begin(n) /\ files' = {}

(* The front runs, for minutes, and writes what it writes.                 *)
RunFront ==
  /\ pc = "front"
  /\ \E w \in SUBSET Handoff : wrote' = w /\ files' = files \cup w
  /\ Go("answer")
  /\ UNCHANGED <<messages, spent, recordVars, sections, heard>>

(* The serving is over, and with it what it held in memory.                *)
End ==
  /\ here' = NoTopic
  /\ seen' = {}
  /\ Forget
  /\ wrote' = {}
  /\ sections' = {}
  /\ Go("idle")

(* After the registration, whether it failed or not.                       *)
AfterRecord == IF "required_info" \in files THEN "operator" ELSE "post"

(* Its answer is posted; handle_handoffs goes by the files.                *)
Answer ==
  /\ pc = "answer"
  /\ Go(IF "requested_change" \in files THEN "register" ELSE AfterRecord)
  /\ UNCHANGED <<messages, spent, recordVars, serveVars>>

(* Mutation: a section is all there is to report.                          *)
RecordedAlone ==
  /\ pc = "registered"
  /\ sections' = sections \cup {"requested_change"}
  /\ Go("post")
  /\ UNCHANGED <<messages, spent, recordVars, files, wrote, heard>>

(* The registration's report, or its error, is a section of its own.       *)
Recorded ==
  /\ pc = "registered"
  /\ sections' = sections \cup {"requested_change"}
  /\ Go(AfterRecord)
  /\ UNCHANGED <<messages, spent, recordVars, files, wrote, heard>>

RunOperator ==
  /\ pc = "operator"
  /\ sections' = sections \cup {"required_info"}
  /\ Go("post")
  /\ UNCHANGED <<messages, spent, recordVars, files, wrote, heard>>

(* serve_topic posts the result, and what it processed is heard.           *)
PostResult ==
  /\ pc = "post"
  /\ heard' = heard \cup Speech(seen)
  /\ End
  /\ UNCHANGED <<messages, spent, files>>

(* A run exits with an error, the answer cannot be posted, or the file of  *)
(* the change cannot be read: serve_topic posts which step failed.         *)
ServeFails ==
  /\ pc \in {"front", "answer", "register", "operator"}
  /\ Happens("fail")
  /\ heard' = heard \cup Speech(seen)
  /\ End
  /\ UNCHANGED <<messages, files>>

(* The listener is killed; the topic is still due when it starts again.    *)
Kill ==
  /\ pc # "idle"
  /\ Happens("kill")
  /\ End
  /\ UNCHANGED <<messages, files, heard>>

(* A serving is at work in a topic: it posts there, whatever the topic is  *)
(* renamed to meanwhile.                                                   *)
AtWork(n) == pc # "idle" /\ (n = here \/ (pc \in Posting /\ n = where))

(* A conversation keeps to itself unless it is renamed while it is served, *)
(* or into one that is there.                                              *)
ResolveKind(n) ==
  IF IsRecord(n)
  THEN IF AtWork(n) THEN "resolve_midway" ELSE "resolve_record"
  ELSE IF AtWork(n) \/ InTopic(Twin(n)) # {} THEN "mix_origin" ELSE "resolve_origin"

PeopleAct ==
  \E n \in Names :
    Say(n) \/ (\E word \in StateWord : Decide(n, word)) \/ Resolve(n, ResolveKind(n)) \/ Delete(n)

People == PeopleAct /\ UNCHANGED <<pc, recordVars, serveVars>>

Next ==
  \/ \E n \in Names : Serve(n)
  \/ RunFront \/ Answer \/ Recorded \/ RunOperator \/ PostResult \/ ServeFails
  \/ (RecordStep \/ CallFails) /\ UNCHANGED serveVars
  \/ Kill \/ People

Spec == Init /\ [][Next]_vars
-----------------------------------------------------------------------------
(* Every variable keeps its type.                                          *)
TypeOK ==
  /\ messages \in Seq(Message)
  /\ spent \in [Event -> Nat]
  /\ pc \in ServeLabel
  /\ here \in Topic /\ where \in Topic
  /\ seen \subseteq Id /\ heard \subseteq Id
  /\ anchor \in 0..Len(messages) /\ doc \in 0..Len(messages)
  /\ opening \in BOOLEAN
  /\ files \subseteq Handoff /\ wrote \subseteq Handoff /\ sections \subseteq Handoff

Notes(kind) == {i \in Id : messages[i].by = "cagent" /\ messages[i].kind = kind}

(* "Two requests raised under one name never merge into one conversation": *)
(* the live origin notes of a topic all name the same message.             *)
RequestsNeverMerge ==
  \A i, j \in Notes("origin") :
    ~messages[i].gone /\ ~messages[j].gone /\ messages[i].topic = messages[j].topic =>
      messages[i].val = messages[j].val

(* A conversation is given a link only to a record that was written whole, *)
(* however a post failed or the listener was killed: between the anchor    *)
(* and the link stand the origin, the statement, its note and the state.   *)
LinkedRecordIsComplete ==
  \A k \in Notes("record") :
    LET a == messages[k].val
        Between(kind) == {i \in Notes(kind) : a < i /\ i < k /\
                                             messages[i].topic.base = messages[a].topic.base}
    IN /\ a \in Notes("change") /\ a < k
       /\ Between("origin") # {} /\ Between("requested") # {}
       /\ \E i \in Between("doc") : messages[i].val \in Between("statement")

(* "Registering again does not fork it", as often as one likes, whether it *)
(* is asked again at the origin or in the record, which may be resolved    *)
(* meanwhile, as the origin may be.  Asked at the origin: the messages of  *)
(* one conversation open one record, while nothing failed, was killed or   *)
(* was deleted, and no origin was renamed while it was served or into a    *)
(* topic that was there.  Asked in a record, also after failures, kills    *)
(* and such renames: none is opened, unless something was deleted, or a    *)
(* record was renamed while a serving was at work in it, which goes on     *)
(* posting under the old name.                                             *)
AskedIn(k) == messages[messages[k].val].topic

OriginOpensOne ==
  (\A e \in {"fail", "kill", "delete", "mix_origin"} : spent[e] = 0) =>
    \A i, j \in Notes("origin") :
      AskedIn(i) = AskedIn(j) /\ ~IsRecord(AskedIn(i)) => messages[i].val = messages[j].val

RecordOpensNone ==
  (\A e \in {"delete", "resolve_midway"} : spent[e] = 0) =>
    \A i \in Notes("origin") : ~IsRecord(AskedIn(i))

RegisteringAgainDoesNotFork == OriginOpensOne /\ RecordOpensNone

(* A record is the request it was opened for: whatever is posted there,    *)
(* by a replayed serving too, its identity stays the same note until that  *)
(* note is deleted or topics are merged by a rename.                       *)
RecordKeepsItsIdentity ==
  [][\A i \in Notes("change") :
       /\ OwnChange(InTopic(messages[i].topic)) = i
       /\ ~messages'[i].gone
       /\ \A e \in {"resolve_record", "resolve_midway"} : spent'[e] = spent[e]
       => OwnChange(InTopic(messages[i].topic))' = i]_vars

(* What is acted on is what this serving's front run wrote, never what an  *)
(* earlier one left, and a serving that ends well has reported all of it,  *)
(* so an observation is made also when the registration failed.            *)
HandoffsAreOfThisRun == pc \in Registering \cup {"operator"} => files = wrote

HandoffsAreAllReported == pc = "post" => sections = wrote
=============================================================================
