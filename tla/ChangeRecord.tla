----------------------------- MODULE ChangeRecord -----------------------------
(***************************************************************************)
(* The change records of cagent (cagent_api/change_record.py): a requested *)
(* change is a topic of cagent's own channel, found again by message ids.  *)
(* register_change is a sequence of calls to the realm, and people act     *)
(* between any two of them; each call is one action.                       *)
(***************************************************************************)
EXTENDS Realm

VARIABLES
  pc,       \* where the serving is
  here,     \* the conversation being served
  seen,     \* its history, as fetched when the serving began
  anchor,   \* the record's anchor: the id of its change note
  where,    \* the conversation the record is written in
  doc,      \* the id of the statement being written
  opening   \* a record is being opened, not restated

recordVars == <<here, seen, anchor, where, doc, opening>>

Go(label) == pc' = label

(* The names a registration binds are gone when it returns.                *)
NoTopic == [base |-> 0, resolved |-> FALSE]
Forget == anchor' = 0 /\ where' = NoTopic /\ doc' = 0 /\ opening' = FALSE
Return == Go("registered") /\ Forget

(* Where a registration can be.                                            *)
Registering == {"register", "read_anchor", "read_record", "find_live", "post_change",
                "post_origin", "post_statement", "post_doc", "post_state", "post_record"}
-----------------------------------------------------------------------------
(* Reading a history: the notes of a kind, and the one that counts; 0 is   *)
(* None.  Identities are the earliest of their kind, links and states the  *)
(* newest.                                                                 *)
NotesOf(S, kind) == {i \in S : messages[i].by = "cagent" /\ messages[i].kind = kind}
Earliest(S) == IF S = {} THEN 0 ELSE Min(S)
Newest(S) == IF S = {} THEN 0 ELSE Max(S)

(* Mutation: the newest anchor counts.                                     *)
OwnChangeNewest(S) == Newest(NotesOf(S, "change"))

OwnChange(S) == Earliest(NotesOf(S, "change"))

OwnRecord(S) ==
  LET k == Newest(NotesOf(S, "record")) IN IF k = 0 THEN 0 ELSE messages[k].val

(* _asking_message_id: the newest thing somebody else said.                *)
Asking == Newest({i \in seen : messages[i].by # "cagent" /\ messages[i].kind = "speech"})

(* change_topic_name.  Mutation: the name is the requester's word alone.   *)
HomeOfWord(origin) == [base |-> 0, resolved |-> FALSE]

Home(origin) == [base |-> origin, resolved |-> FALSE]
-----------------------------------------------------------------------------
(* A record is opened, anchored to what was asked; with nothing to anchor  *)
(* it to, RecordError.                                                     *)
Fresh ==
  IF Asking = 0
  THEN Return
  ELSE /\ Go("post_change")
       /\ anchor' = 0
       /\ where' = Home(Asking)
       /\ opening' = TRUE

Restate(n, a) ==
  /\ where' = n
  /\ anchor' = a
  /\ opening' = FALSE

(* The text has no title or body: RecordError, before anything is read.    *)
RefuseText ==
  /\ pc = "register"
  /\ Return
  /\ UNCHANGED <<messages, spent, here, seen>>

(* Mutation: only the link of an origin is looked for.                     *)
RegisterAsOrigin ==
  /\ pc = "register"
  /\ IF OwnRecord(seen) # 0
     THEN Restate(where, OwnRecord(seen)) /\ Go("read_anchor")
     ELSE Fresh
  /\ doc' = 0
  /\ UNCHANGED <<messages, spent, here, seen>>

(* The three cases of register_change, on the history fetched earlier.     *)
Register ==
  /\ pc = "register"
  /\ IF OwnChange(seen) # 0
     THEN Restate(here, OwnChange(seen)) /\ Go("post_statement")
     ELSE IF OwnRecord(seen) # 0
     THEN Restate(where, OwnRecord(seen)) /\ Go("read_anchor")
     ELSE Fresh
  /\ doc' = 0
  /\ UNCHANGED <<messages, spent, here, seen>>

(* read_change: conversation_of answers with where the anchor is now, ...  *)
ReadAnchor ==
  /\ pc = "read_anchor"
  /\ IF messages[anchor].gone THEN Fresh
     ELSE Restate(messages[anchor].topic, anchor) /\ Go("read_record")
  /\ doc' = 0
  /\ UNCHANGED <<messages, spent, here, seen>>

(* ... whose identity the anchor must be.  Otherwise it is gone, too.      *)
ReadRecord ==
  /\ pc = "read_record"
  /\ IF OwnChange(History(where)) = anchor
     THEN Go("find_live") /\ UNCHANGED <<anchor, where, opening>>
     ELSE Fresh
  /\ doc' = 0
  /\ UNCHANGED <<messages, spent, here, seen>>

FindLive ==
  /\ pc = "find_live"
  /\ where' = LiveName(where)
  /\ Go("post_statement")
  /\ UNCHANGED <<messages, spent, here, seen, anchor, doc, opening>>
-----------------------------------------------------------------------------
(* The posts of a registration, and where each goes.                       *)
Posting == {"post_change", "post_origin", "post_statement", "post_doc", "post_state",
            "post_record"}

Post ==
  LET post(n, kind, val) == [to |-> n, kind |-> kind, val |-> val]
  IN [post_change    |-> post(where, "change", 0),
      post_origin    |-> post(where, "origin", Asking),
      post_statement |-> post(where, "statement", 0),
      post_doc       |-> post(where, "doc", doc),
      post_state     |-> post(where, "requested", 0),
      post_record    |-> post(here, "record", anchor)]

SendPost == LET p == Post[pc] IN Send("cagent", p.to, p.kind, p.val)

(* Mutation: a post that never arrived is taken for the anchor.            *)
PostChangeUnsent ==
  /\ pc = "post_change"
  /\ anchor' = NextId
  /\ Go("post_origin")
  /\ UNCHANGED <<messages, spent, here, seen, where, doc, opening>>

PostChange ==
  /\ pc = "post_change"
  /\ SendPost
  /\ anchor' = NextId
  /\ Go("post_origin")
  /\ UNCHANGED <<spent, here, seen, where, doc, opening>>

PostOrigin ==
  /\ pc = "post_origin"
  /\ SendPost
  /\ Go("post_statement")
  /\ UNCHANGED <<spent, recordVars>>

(* _write_statement: the statement, and the note that it is the statement. *)
PostStatement ==
  /\ pc = "post_statement"
  /\ SendPost
  /\ doc' = NextId
  /\ Go("post_doc")
  /\ UNCHANGED <<spent, here, seen, anchor, where, opening>>

PostDoc ==
  /\ pc = "post_doc"
  /\ SendPost
  /\ IF opening
     THEN Go("post_state") /\ UNCHANGED <<anchor, where, doc, opening>>
     ELSE Return
  /\ UNCHANGED <<spent, here, seen>>

PostState ==
  /\ pc = "post_state"
  /\ SendPost
  /\ Go("post_record")
  /\ UNCHANGED <<spent, recordVars>>

PostRecord ==
  /\ pc = "post_record"
  /\ SendPost
  /\ Return
  /\ UNCHANGED <<spent, here, seen>>

(* Mutation: a post that fails is skipped.                                 *)
CallSkipped ==
  /\ pc \in Posting
  /\ Happens("fail")
  /\ Go(CASE pc = "post_change" -> "post_origin" [] pc = "post_origin" -> "post_statement"
         [] pc = "post_statement" -> "post_doc" [] pc = "post_doc" -> "post_state"
         [] OTHER -> "post_record")
  /\ UNCHANGED <<messages, recordVars>>

(* A call to the realm raises (ZulipError, or RecordError for a post), and *)
(* the registration ends there.  A post may have arrived all the same.     *)
CallFails ==
  /\ pc \in Registering \ {"register"}
  /\ Happens("fail")
  /\ Return
  /\ UNCHANGED messages \/ (pc \in Posting /\ SendPost)
  /\ UNCHANGED <<here, seen>>

RecordStep ==
  \/ RefuseText \/ Register \/ ReadAnchor \/ ReadRecord \/ FindLive
  \/ PostChange \/ PostOrigin \/ PostStatement \/ PostDoc \/ PostState \/ PostRecord
=============================================================================
