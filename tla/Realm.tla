-------------------------------- MODULE Realm --------------------------------
(***************************************************************************)
(* What cagent's change records rest on of a Zulip realm, as               *)
(* change_record.py uses it through agag.zulip: messages have ids that     *)
(* only grow and never change, a topic is a name its messages wear, and    *)
(* people rename (resolve), delete and post at any time.                   *)
(*                                                                         *)
(* cagent's acks and answers are left out: no lookup below reads them.     *)
(***************************************************************************)
EXTENDS Naturals, Sequences, FiniteSets, FiniteSetsExt

CONSTANTS
  OriginName,   \* topic words people ask cagent under
  Limit,        \* bound: how often each of Event happens
  MaxTrouble    \* bound: how many other things than speech happen

Event == {"say", "decide", "resolve_origin", "mix_origin", "resolve_record", "resolve_midway",
          "delete", "fail", "kill"}

ASSUME RealmAssumption ==
  Limit \in [Event -> Nat] /\ MaxTrouble \in Nat /\ OriginName \cap Nat = {}

VARIABLES
  messages,   \* every message ever sent; its place is its id
  spent       \* history: how often each event happened

(* A record's topic is named after the message that asked for it, so its   *)
(* base is that message's id; a resolve puts a tick before the name.       *)
Base == OriginName \cup Nat
Topic == [base: Base, resolved: BOOLEAN]
IsRecord(n) == n.base \notin OriginName

(* cagent's own post of a statement, its selfnotes, and what people say.   *)
(* A state note's kind is its word; "done" and "rejected" read like        *)
(* "accepted".                                                             *)
StateWord == {"requested", "accepted"}
Kind == {"speech", "statement", "change", "origin", "doc", "record"} \cup StateWord
Message == [by: {"cagent", "person"}, topic: Topic, kind: Kind, val: Nat, gone: BOOLEAN]

Id == 1..Len(messages)
NextId == Len(messages) + 1

InTopic(n) == {i \in Id : messages[i].topic = n /\ ~messages[i].gone}

(* live_topic_name: a resolve renames a topic, and a reader follows it.    *)
Twin(n) == [n EXCEPT !.resolved = ~@]
LiveName(n) == IF InTopic(n) = {} /\ InTopic(Twin(n)) # {} THEN Twin(n) ELSE n

(* topic_history_across_resolve, of a topic below its 500 messages.        *)
History(n) == InTopic(LiveName(n))
-----------------------------------------------------------------------------
Happens(e) ==
  /\ spent[e] < Limit[e]
  /\ Cardinality({f \in Event : spent[f] > 0 \/ f = e} \ {"say"}) =< MaxTrouble
  /\ spent' = [spent EXCEPT ![e] = @ + 1]

Send(by, n, kind, val) ==
  messages' = Append(messages, [by |-> by, topic |-> n, kind |-> kind, val |-> val,
                                gone |-> FALSE])

(* Somebody speaks: under one of the names, or in a record.                *)
Say(n) ==
  /\ IsRecord(n) => InTopic(n) # {}
  /\ Happens("say")
  /\ Send("person", n, "speech", 0)

(* Somebody decides, or writes any other state word, in a record.          *)
Decide(n, word) ==
  /\ IsRecord(n) /\ InTopic(n) # {}
  /\ Happens("decide")
  /\ Send("person", n, word, 0)

(* Somebody resolves a topic, or takes the tick away; e says what kind of  *)
(* topic it is.                                                            *)
Resolve(n, e) ==
  /\ InTopic(n) # {}
  /\ Happens(e)
  /\ messages' = [i \in Id |->
       IF i \in InTopic(n) THEN [messages[i] EXCEPT !.topic = Twin(n)] ELSE messages[i]]

(* Somebody deletes a topic, or one message of it.                         *)
Delete(n) ==
  /\ InTopic(n) # {}
  /\ Happens("delete")
  /\ \E gone \in {InTopic(n)} \cup {{i} : i \in InTopic(n)} :
       messages' = [i \in Id |-> [messages[i] EXCEPT !.gone = @ \/ i \in gone]]

Names == [base: OriginName, resolved: {FALSE}] \cup {messages[i].topic : i \in Id}
=============================================================================
