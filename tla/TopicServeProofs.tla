--------------------------- MODULE TopicServeProofs ---------------------------
(***************************************************************************)
(* What holds of the change records for any number of messages, people's   *)
(* acts, failures and kills.                                               *)
(***************************************************************************)
EXTENDS TopicServe, FiniteSetTheorems, SequenceTheorems, WellFoundedInduction, TLAPS

(* A note only points to a message before it.                              *)
PointsBack == \A i \in Id : messages[i].val < i

(* Where a registration opens a record, and where it restates one.         *)
Opens == {"post_change", "post_origin", "post_state", "post_record"}
Restates == {"read_anchor", "read_record", "find_live"}

Placed ==
  /\ pc \in Opens => opening
  /\ opening => pc \in Posting
  /\ pc \in Restates => anchor \in Id

(* What the record that is being opened has by now.                        *)
After(kind) == {i \in Notes(kind) : anchor < i /\ messages[i].topic.base = where.base}

Opened ==
  opening =>
    /\ where = Home(Asking)
    /\ pc # "post_change" => anchor \in Notes("change") /\ messages[anchor].topic.base = where.base
    /\ pc \notin {"post_change", "post_origin"} => After("origin") # {}
    /\ pc \in {"post_doc", "post_state", "post_record"} => doc \in After("statement")
    /\ pc \in {"post_state", "post_record"} => \E i \in After("doc") : messages[i].val = doc
    /\ pc = "post_record" => After("requested") # {}

(* A record is where it was opened, or under that name with a tick.        *)
NotesAreAtHome ==
  /\ \A i \in Notes("origin") : messages[i].topic.base = messages[i].val
  /\ \A i \in Notes("change") : messages[i].topic.base \in Nat

IInv == TypeOK /\ PointsBack /\ Placed /\ Opened /\ NotesAreAtHome /\ LinkedRecordIsComplete

(* No message is ever unsent, and none changes but in its topic's tick and *)
(* by being deleted.                                                       *)
SameButTick(i) ==
  /\ messages'[i].by = messages[i].by
  /\ messages'[i].kind = messages[i].kind
  /\ messages'[i].val = messages[i].val
  /\ messages'[i].topic.base = messages[i].topic.base

Lasting ==
  /\ messages' \in Seq(Message)
  /\ Len(messages) =< Len(messages')
  /\ \A i \in Id : SameButTick(i)
-----------------------------------------------------------------------------
LEMMA NatHasLeast ==
  ASSUME NEW T, T \subseteq Nat, T # {}
  PROVE  \E x \in T : \A y \in T : x =< y
<1> DEFINE Below == {0..x : x \in T}
<1>1. Below \subseteq FiniteSubsetsOf(Nat)
  <2>1. \A x \in T : IsFiniteSet(0..x)
    BY FS_Interval
  <2> QED
    BY <2>1 DEF FiniteSubsetsOf
<1>2. PICK S \in Below : \A R \in Below : ~ (<<R, S>> \in StrictSubsetOrdering(Nat))
  <2>1. Below # {}
    OBVIOUS
  <2> HIDE DEF Below
  <2> QED
    BY <1>1, <2>1, FS_StrictSubsetOrderingWellFounded, WFMin
<1>3. PICK x \in T : S = 0..x
  OBVIOUS
<1>4. ASSUME NEW y \in T, y < x
      PROVE  FALSE
  <2>1. 0..y \subseteq 0..x /\ x \in 0..x /\ x \notin 0..y
    BY <1>4
  <2>2. <<0..y, 0..x>> \in StrictSubsetOrdering(Nat)
    BY <2>1 DEF StrictSubsetOrdering
  <2> QED
    BY <1>2, <1>3, <2>2
<1> QED
  BY <1>4

LEMMA BoundedHasGreatest ==
  ASSUME NEW n \in Nat, NEW T, T \subseteq 1..n, T # {}
  PROVE  \E x \in T : \A y \in T : x >= y
<1> DEFINE Rest == {n - x : x \in T}
<1>1. \A x \in T : x \in Nat /\ n - x \in Nat
  OBVIOUS
<1>2. Rest \subseteq Nat /\ Rest # {}
  BY <1>1
<1> HIDE DEF Rest
<1>3. PICK z \in Rest : \A y \in Rest : z =< y
  BY <1>2, NatHasLeast
<1>4. PICK x \in T : z = n - x
  BY DEF Rest
<1>5. \A y \in T : n - x =< n - y
  BY <1>3, <1>4 DEF Rest
<1> QED
  BY <1>1, <1>5

LEMMA Greatest ==
  ASSUME NEW n \in Nat, NEW T, T \subseteq 1..n
  PROVE  /\ Newest(T) \in 0..n
         /\ Newest(T) = 0 <=> T = {}
         /\ T # {} => Newest(T) \in T
<1>1. CASE T = {}
  BY <1>1 DEF Newest
<1>2. CASE T # {}
  <2>1. \E x \in T : \A y \in T : x >= y
    BY <1>2, BoundedHasGreatest
  <2>2. Max(T) \in T
    BY <2>1 DEF Max
  <2>3. Newest(T) = Max(T)
    BY <1>2 DEF Newest
  <2>4. \A y \in T : y \in 0..n /\ y # 0
    OBVIOUS
  <2>5. Newest(T) \in T /\ Newest(T) \in 0..n /\ Newest(T) # 0
    BY <2>2, <2>3, <2>4
  <2> QED
    BY <1>2, <2>2, <2>3, <2>5
<1> QED
  BY <1>1, <1>2

LEMMA Least ==
  ASSUME NEW n \in Nat, NEW T, T \subseteq 1..n
  PROVE  /\ Earliest(T) \in 0..n
         /\ Earliest(T) = 0 <=> T = {}
         /\ T # {} => Earliest(T) \in T /\ \A y \in T : Earliest(T) =< y
<1>1. CASE T = {}
  BY <1>1 DEF Earliest
<1>2. CASE T # {}
  <2>1. \E x \in T : \A y \in T : x =< y
    <3>1. T \subseteq Nat
      OBVIOUS
    <3> QED
      BY <1>2, <3>1, NatHasLeast
  <2>2. Min(T) \in T /\ \A y \in T : Min(T) =< y
    BY <2>1 DEF Min
  <2>3. Earliest(T) = Min(T)
    BY <1>2 DEF Earliest
  <2>4. \A y \in T : y \in 0..n /\ y # 0
    OBVIOUS
  <2>5. Earliest(T) \in T /\ Earliest(T) \in 0..n /\ Earliest(T) # 0
    BY <2>2, <2>3, <2>4
  <2> QED
    BY <1>2, <2>2, <2>3, <2>5
<1> QED
  BY <1>1, <1>2
-----------------------------------------------------------------------------
LEMMA LengthIsNat == TypeOK => Len(messages) \in Nat /\ messages \in [Id -> Message]
BY LenProperties DEF TypeOK, Id

LEMMA AskingIsSeen == TypeOK => Asking \in 0..Len(messages)
<1> SUFFICES ASSUME TypeOK PROVE Asking \in 0..Len(messages)
  OBVIOUS
<1>1. {i \in seen : messages[i].by # "cagent" /\ messages[i].kind = "speech"} \subseteq 1..Len(messages)
  BY DEF TypeOK, Id
<1> QED
  BY <1>1, Greatest, LengthIsNat DEF Asking

(* A post, whoever makes it.                                               *)
LEMMA Sending ==
  ASSUME TypeOK, PointsBack, NEW by \in {"cagent", "person"}, NEW n \in Topic, NEW kind \in Kind,
         NEW val \in 0..Len(messages), Send(by, n, kind, val)
  PROVE  /\ Lasting /\ PointsBack'
         /\ Len(messages') = NextId
         /\ \A i \in Id : messages'[i] = messages[i]
         /\ messages'[NextId] = [by |-> by, topic |-> n, kind |-> kind, val |-> val, gone |-> FALSE]
<1> DEFINE m == [by |-> by, topic |-> n, kind |-> kind, val |-> val, gone |-> FALSE]
<1>1. m \in Message
  BY LengthIsNat DEF Message
<1>2. messages' = Append(messages, m)
  BY DEF Send
<1>3. messages \in Seq(Message) /\ Len(messages) \in Nat
  BY LengthIsNat DEF TypeOK
<1> HIDE DEF m
<1>4. /\ messages' \in Seq(Message) /\ Len(messages') = Len(messages) + 1
      /\ \A i \in Id : messages'[i] = messages[i]
      /\ messages'[NextId] = m
  BY <1>1, <1>2, <1>3, AppendProperties DEF Id, NextId
<1>5. Lasting
  BY <1>3, <1>4 DEF Lasting, SameButTick
<1>6. PointsBack'
  <2> SUFFICES ASSUME NEW i \in 1..Len(messages') PROVE messages'[i].val < i
    BY DEF PointsBack, Id
  <2>1. CASE i \in Id
    BY <1>4, <2>1 DEF PointsBack
  <2>2. CASE i = NextId
    BY <1>3, <1>4, <2>2 DEF m, NextId
  <2> QED
    BY <1>3, <1>4, <2>1, <2>2 DEF Id, NextId
<1> QED
  BY <1>4, <1>5, <1>6 DEF m, NextId

(* What people do to messages: they post their own, move them under a tick *)
(* or from under it, and delete them.                                      *)
NothingOfCagent == \A i \in 1..Len(messages') : messages'[i].by = "cagent" => i \in Id

LEMMA NamesAreTopics == TypeOK => Names \subseteq Topic
BY LengthIsNat DEF Names, Topic, Base, Message

LEMMA MarkingLasts ==
  ASSUME TypeOK, PointsBack, NEW n \in Topic, NEW e, Resolve(n, e)
  PROVE  Lasting /\ PointsBack' /\ NothingOfCagent
<1> DEFINE new(i) == IF i \in InTopic(n) THEN [messages[i] EXCEPT !.topic = Twin(n)] ELSE messages[i]
<1>1. messages' = [i \in 1..Len(messages) |-> new(i)] /\ Len(messages) \in Nat
  BY LengthIsNat DEF Resolve, Id
<1>2. Twin(n) \in Topic /\ Twin(n).base = n.base
  BY DEF Twin, Topic
<1>3. ASSUME NEW i \in 1..Len(messages)
      PROVE  /\ new(i) \in Message /\ new(i).by = messages[i].by /\ new(i).kind = messages[i].kind
             /\ new(i).val = messages[i].val /\ new(i).topic.base = messages[i].topic.base
  <2>1. messages[i] \in Message
    BY <1>3, LengthIsNat DEF Id
  <2>2. i \in InTopic(n) => messages[i].topic = n
    BY DEF InTopic
  <2> QED
    BY <1>2, <2>1, <2>2 DEF Message
<1> HIDE DEF new
<1>4. messages' \in [1..Len(messages) -> Message]
  BY <1>1, <1>3
<1>5. messages' \in Seq(Message) /\ Len(messages') = Len(messages)
  BY <1>1, <1>4
<1>6. \A i \in Id : SameButTick(i)
  BY <1>1, <1>3 DEF SameButTick, Id
<1> QED
  BY <1>1, <1>5, <1>6 DEF Lasting, SameButTick, PointsBack, NothingOfCagent, Id

LEMMA DeletingLasts ==
  ASSUME TypeOK, PointsBack, NEW n \in Topic, Delete(n)
  PROVE  Lasting /\ PointsBack' /\ NothingOfCagent
<1>1. PICK gone \in {InTopic(n)} \cup {{i} : i \in InTopic(n)} :
        messages' = [i \in Id |-> [messages[i] EXCEPT !.gone = @ \/ i \in gone]]
  BY DEF Delete
<1> DEFINE new(i) == [messages[i] EXCEPT !.gone = @ \/ i \in gone]
<1>2. messages' = [i \in 1..Len(messages) |-> new(i)] /\ Len(messages) \in Nat
  BY <1>1, LengthIsNat DEF Id
<1>3. ASSUME NEW i \in 1..Len(messages)
      PROVE  /\ new(i) \in Message /\ new(i).by = messages[i].by /\ new(i).kind = messages[i].kind
             /\ new(i).val = messages[i].val /\ new(i).topic = messages[i].topic
  <2>1. messages[i] \in Message
    BY <1>3, LengthIsNat DEF Id
  <2> QED
    BY <2>1 DEF Message
<1> HIDE DEF new
<1>4. messages' \in [1..Len(messages) -> Message]
  BY <1>2, <1>3
<1>5. messages' \in Seq(Message) /\ Len(messages') = Len(messages)
  BY <1>2, <1>4
<1>6. \A i \in Id : SameButTick(i)
  BY <1>2, <1>3 DEF SameButTick, Id
<1> QED
  BY <1>2, <1>5, <1>6 DEF Lasting, SameButTick, PointsBack, NothingOfCagent, Id

LEMMA PeopleLast ==
  ASSUME TypeOK, PointsBack, PeopleAct
  PROVE  Lasting /\ PointsBack' /\ NothingOfCagent
<1>1. PICK n \in Names : Say(n) \/ (\E word \in StateWord : Decide(n, word)) \/ Resolve(n, ResolveKind(n))
          \/ Delete(n)
  BY DEF PeopleAct
<1>2. n \in Topic
  BY NamesAreTopics
<1>3. ASSUME NEW kind \in Kind, Send("person", n, kind, 0)
      PROVE  Lasting /\ PointsBack' /\ NothingOfCagent
  <2>1. 0 \in 0..Len(messages)
    BY LengthIsNat
  <2>2. "person" \in {"cagent", "person"}
    OBVIOUS
  <2>3. /\ Lasting /\ PointsBack' /\ Len(messages') = NextId
        /\ messages'[NextId] = [by |-> "person", topic |-> n, kind |-> kind, val |-> 0, gone |-> FALSE]
    BY <1>2, <1>3, <2>1, <2>2, Sending
  <2>4. messages'[NextId].by = "person"
    BY <2>3
  <2> QED
    BY <2>3, <2>4, LengthIsNat DEF NothingOfCagent, NextId, Id
<1>4. CASE Say(n)
  BY <1>3, <1>4 DEF Say, Kind
<1>5. CASE \E word \in StateWord : Decide(n, word)
  BY <1>3, <1>5 DEF Decide, Kind
<1> QED
  BY <1>1, <1>2, <1>4, <1>5, MarkingLasts, DeletingLasts
-----------------------------------------------------------------------------
(* What lasts.                                                             *)
LEMMA NotesLast ==
  ASSUME TypeOK, Lasting
  PROVE  /\ Id \subseteq Id'
         /\ \A kind : Notes(kind) \subseteq Notes(kind)'
BY LengthIsNat DEF Lasting, SameButTick, Notes, Id

LEMMA AskingLasts ==
  ASSUME TypeOK, Lasting, seen' = seen
  PROVE  Asking' = Asking
<1>1. \A i \in seen : messages'[i].by = messages[i].by /\ messages'[i].kind = messages[i].kind
  BY DEF TypeOK, Lasting, SameButTick
<1> QED
  BY <1>1 DEF Asking, Newest

LEMMA LinksLast ==
  ASSUME TypeOK, Lasting, LinkedRecordIsComplete,
         NEW k \in Notes("record")
  PROVE  LET a == messages'[k].val
             Between(kind) == {i \in Notes(kind)' : a < i /\ i < k /\
                                              messages'[i].topic.base = messages'[a].topic.base}
         IN /\ a \in Notes("change")' /\ a < k
            /\ Between("origin") # {} /\ Between("requested") # {}
            /\ \E i \in Between("doc") : messages'[i].val \in Between("statement")
<1> DEFINE a == messages[k].val
           Were(kind) == {i \in Notes(kind) : a < i /\ i < k /\ messages[i].topic.base = messages[a].topic.base}
           Are(kind) == {i \in Notes(kind)' : a < i /\ i < k /\ messages'[i].topic.base = messages'[a].topic.base}
<1>1. /\ a \in Notes("change") /\ a < k
      /\ Were("origin") # {} /\ Were("requested") # {}
      /\ \E i \in Were("doc") : messages[i].val \in Were("statement")
  BY DEF LinkedRecordIsComplete
<1>2. \A i \in Id : SameButTick(i)
  BY DEF Lasting
<1>3. k \in Id /\ a \in Id /\ messages'[k].val = a /\ messages'[a].topic.base = messages[a].topic.base
  BY <1>1, <1>2 DEF Notes, SameButTick
<1>4. \A kind : Were(kind) \subseteq Are(kind) /\ Were(kind) \subseteq Id
  BY <1>2, <1>3, NotesLast DEF SameButTick, Notes
<1>5. \A i \in Were("doc") : messages'[i].val = messages[i].val
  BY <1>2, <1>4 DEF SameButTick
<1> HIDE DEF Were
<1>6. /\ Are("origin") # {} /\ Are("requested") # {}
      /\ \E i \in Are("doc") : messages'[i].val \in Are("statement")
  BY <1>1, <1>4, <1>5
<1> QED
  BY <1>1, <1>3, <1>6, NotesLast

(* A step after which cagent has no new note.                              *)
LEMMA QuietNotes ==
  ASSUME IInv, Lasting, NothingOfCagent
  PROVE  NotesAreAtHome' /\ LinkedRecordIsComplete'
<1> USE DEF IInv
<1>1. \A kind : \A i \in Notes(kind)' : i \in Notes(kind) /\ SameButTick(i)
  BY DEF Lasting, NothingOfCagent, SameButTick, Notes, Id
<1>2. NotesAreAtHome'
  BY <1>1 DEF NotesAreAtHome, SameButTick
<1>3. LinkedRecordIsComplete'
  <2> HIDE DEF IInv
  <2>1. TypeOK /\ LinkedRecordIsComplete
    BY DEF IInv
  <2>2. \A k \in Notes("record")' : k \in Notes("record")
    BY <1>1
  <2> QED
    BY <2>1, <2>2, LinksLast DEF LinkedRecordIsComplete
<1> QED
  BY <1>2, <1>3

(* A note of cagent's.                                                     *)
LEMMA NewNote ==
  ASSUME IInv, NEW n \in Topic, NEW kind \in Kind, NEW val \in 0..Len(messages),
         Send("cagent", n, kind, val),
         kind = "origin" => n.base = val,
         kind = "change" => n.base \in Nat
  PROVE  /\ Lasting /\ PointsBack' /\ NotesAreAtHome'
         /\ Len(messages') = NextId /\ NextId \in Notes(kind)'
         /\ messages'[NextId].topic = n /\ messages'[NextId].val = val
         /\ \A i \in Id : messages'[i] = messages[i]
         /\ \A other : \A i \in Notes(other)' : i \in Notes(other) \/ (i = NextId /\ other = kind)
<1>1. TypeOK /\ PointsBack /\ NotesAreAtHome /\ Len(messages) \in Nat
  BY LengthIsNat DEF IInv
<1>2. "cagent" \in {"cagent", "person"}
  OBVIOUS
<1>3. /\ Lasting /\ PointsBack' /\ Len(messages') = NextId
      /\ \A i \in Id : messages'[i] = messages[i]
      /\ messages'[NextId] = [by |-> "cagent", topic |-> n, kind |-> kind, val |-> val, gone |-> FALSE]
  BY <1>1, <1>2, Sending
<1>4. /\ messages'[NextId].by = "cagent" /\ messages'[NextId].kind = kind
      /\ messages'[NextId].topic = n /\ messages'[NextId].val = val
  BY <1>3
<1>5. \A other : \A i \in Notes(other)' : i \in Notes(other) \/ (i = NextId /\ other = kind)
  BY <1>1, <1>3, <1>4 DEF Notes, NextId, Id
<1>6. NextId \in Notes(kind)'
  BY <1>1, <1>3, <1>4 DEF Notes, NextId, Id
<1>7. \A i \in Id : messages'[i].topic = messages[i].topic /\ messages'[i].val = messages[i].val
  BY <1>3
<1>8. NotesAreAtHome'
  BY <1>1, <1>4, <1>5, <1>7 DEF NotesAreAtHome, Notes
<1> QED
  BY <1>3, <1>4, <1>5, <1>6, <1>8

(* It is not a link, or one to a record that has everything.               *)
LEMMA NewNoteKeepsLinks ==
  ASSUME IInv, NEW n \in Topic, NEW kind \in Kind, NEW val \in 0..Len(messages),
         Send("cagent", n, kind, val),
         kind = "origin" => n.base = val,
         kind = "change" => n.base \in Nat,
         kind # "record"
  PROVE  LinkedRecordIsComplete'
<1>1. TypeOK /\ LinkedRecordIsComplete
  BY DEF IInv
<1>2. Lasting /\ \A k \in Notes("record")' : k \in Notes("record")
  BY NewNote
<1> QED
  BY <1>1, <1>2, LinksLast DEF LinkedRecordIsComplete

(* What a record that is being opened has, it keeps.                       *)
LEMMA AfterLasts ==
  ASSUME TypeOK, Lasting, anchor' = anchor, where' = where
  PROVE  /\ \A kind : After(kind) \subseteq After(kind)'
         /\ \A kind : \A i \in After(kind) : messages'[i].val = messages[i].val
         /\ \A i \in Notes("change") : i \in Notes("change")' /\ messages'[i].topic.base = messages[i].topic.base
<1>1. \A kind : \A i \in Notes(kind) : i \in Notes(kind)' /\ SameButTick(i)
  BY NotesLast DEF Lasting, Notes
<1> QED
  BY <1>1 DEF After, SameButTick

LEMMA OpenedLasts ==
  ASSUME IInv, Lasting, UNCHANGED recordVars, UNCHANGED pc
  PROVE  Opened'
<1>1. TypeOK /\ Opened /\ UNCHANGED <<here, seen, anchor, where, doc, opening>>
  BY DEF IInv, recordVars
<1>2. Home(Asking)' = Home(Asking)
  BY <1>1, AskingLasts DEF Home
<1> QED
  BY <1>1, <1>2, AfterLasts DEF Opened
-----------------------------------------------------------------------------
(* The posts of a registration.                                            *)
LEMMA PostIs ==
  ASSUME IInv, pc \in Posting
  PROVE  /\ Post[pc].to \in Topic /\ Post[pc].kind \in Kind /\ Post[pc].val \in 0..Len(messages)
         /\ Post[pc].kind = "origin" => Post[pc].to.base = Post[pc].val
         /\ Post[pc].kind = "change" => Post[pc].to.base \in Nat
         /\ Post[pc].kind = "record" <=> pc = "post_record"
         /\ pc = "post_record" => Post[pc].to = here /\ Post[pc].val = anchor
         /\ pc # "post_record" => Post[pc].to = where
         /\ Post[pc].kind = CASE pc = "post_change" -> "change" [] pc = "post_origin" -> "origin"
                              [] pc = "post_statement" -> "statement" [] pc = "post_doc" -> "doc"
                              [] pc = "post_state" -> "requested" [] OTHER -> "record"
         /\ pc = "post_doc" => Post[pc].val = doc
<1>1. /\ here \in Topic /\ where \in Topic /\ anchor \in 0..Len(messages) /\ doc \in 0..Len(messages)
      /\ Asking \in 0..Len(messages) /\ 0 \in 0..Len(messages)
  BY AskingIsSeen, LengthIsNat DEF IInv, TypeOK
<1>2. pc \in {"post_change", "post_origin"} => where.base = Asking /\ Asking \in Nat
  BY <1>1, LengthIsNat DEF IInv, Placed, Opens, Opened, Home
<1> QED
  BY <1>1, <1>2 DEF Post, Posting, Kind, StateWord

LEMMA LinkIsWhole ==
  ASSUME IInv, pc = "post_record", Lasting,
         \A k \in Notes("record")' : k \in Notes("record") \/ k = NextId,
         messages'[NextId].val = anchor
  PROVE  LinkedRecordIsComplete'
<1>1. TypeOK /\ LinkedRecordIsComplete /\ Len(messages) \in Nat
  BY LengthIsNat DEF IInv
<1>2. /\ anchor \in Notes("change") /\ messages[anchor].topic.base = where.base
      /\ After("origin") # {} /\ After("requested") # {}
      /\ doc \in After("statement")
      /\ \E i \in After("doc") : messages[i].val = doc
  BY DEF IInv, Placed, Opens, Opened
<1> DEFINE Are(kind) == {i \in Notes(kind)' : anchor < i /\ i < NextId /\
                                          messages'[i].topic.base = messages'[anchor].topic.base}
<1>3. \A kind : \A i \in Notes(kind) : i \in Notes(kind)' /\ SameButTick(i) /\ i < NextId
  <2>1. \A i \in Id : SameButTick(i) /\ i < NextId
    BY <1>1 DEF Lasting, NextId, Id
  <2> QED
    BY <1>1, <2>1, NotesLast DEF Notes
<1>4. \A kind : After(kind) \subseteq Are(kind)
  BY <1>2, <1>3 DEF After, SameButTick
<1>5. \E i \in After("doc") : messages'[i].val = doc
  BY <1>2, <1>3 DEF After, SameButTick
<1>6. /\ anchor \in Notes("change")' /\ anchor < NextId
      /\ Are("origin") # {} /\ Are("requested") # {}
      /\ \E i \in Are("doc") : messages'[i].val \in Are("statement")
  BY <1>2, <1>3, <1>4, <1>5
<1> HIDE DEF Are
<1>7. \A k \in Notes("record")' : k \in Notes("record") \/ (k = NextId /\ messages'[k].val = anchor)
  OBVIOUS
<1>8. ASSUME NEW k \in Notes("record")', k = NextId, messages'[k].val = anchor
      PROVE  LET a == messages'[k].val
                 Between(kind) == {i \in Notes(kind)' : a < i /\ i < k /\
                                                  messages'[i].topic.base = messages'[a].topic.base}
             IN /\ a \in Notes("change")' /\ a < k
                /\ Between("origin") # {} /\ Between("requested") # {}
                /\ \E i \in Between("doc") : messages'[i].val \in Between("statement")
  BY <1>6, <1>8 DEF Are
<1> QED
  BY <1>1, <1>7, <1>8, LinksLast DEF LinkedRecordIsComplete

LEMMA PostLasts ==
  ASSUME IInv, pc \in Posting, SendPost,
         NEW n, NEW kind, NEW val, n = Post[pc].to, kind = Post[pc].kind, val = Post[pc].val
  PROVE  /\ Lasting /\ PointsBack' /\ NotesAreAtHome' /\ LinkedRecordIsComplete'
         /\ Len(messages') = NextId /\ NextId \in Notes(kind)'
         /\ messages'[NextId].topic = n /\ messages'[NextId].val = val
         /\ \A i \in Id : messages'[i] = messages[i]
<1>1. Send("cagent", n, kind, val)
  BY DEF SendPost
<1>2. /\ n \in Topic /\ kind \in Kind /\ val \in 0..Len(messages)
      /\ kind = "origin" => n.base = val
      /\ kind = "change" => n.base \in Nat
      /\ kind = "record" <=> pc = "post_record"
      /\ pc = "post_record" => val = anchor
  BY PostIs
<1>3. /\ Lasting /\ PointsBack' /\ NotesAreAtHome'
      /\ Len(messages') = NextId /\ NextId \in Notes(kind)'
      /\ messages'[NextId].topic = n /\ messages'[NextId].val = val
      /\ \A i \in Id : messages'[i] = messages[i]
      /\ \A other : \A i \in Notes(other)' : i \in Notes(other) \/ (i = NextId /\ other = kind)
  BY <1>1, <1>2, NewNote
<1>4. CASE pc # "post_record"
  BY <1>1, <1>2, <1>3, <1>4, NewNoteKeepsLinks
<1>5. CASE pc = "post_record"
  BY <1>2, <1>3, <1>5, LinkIsWhole
<1> QED
  BY <1>3, <1>4, <1>5
-----------------------------------------------------------------------------
LEMMA InitInv == Init => IInv
<1> SUFFICES ASSUME Init PROVE IInv
  OBVIOUS
<1> USE DEF Init
<1>1. Len(messages) = 0 /\ messages \in Seq(Message) /\ Id = {}
  BY DEF Id
<1>2. NoTopic \in Topic
  BY DEF NoTopic, Topic, Base
<1>3. TypeOK
  <2>1. spent \in [Event -> Nat]
    OBVIOUS
  <2>2. pc \in ServeLabel /\ here \in Topic /\ where \in Topic
    BY <1>2 DEF ServeLabel
  <2>3. anchor \in 0..Len(messages) /\ doc \in 0..Len(messages)
    BY <1>1
  <2> QED
    BY <1>1, <2>1, <2>2, <2>3 DEF TypeOK
<1>4. \A kind : Notes(kind) = {}
  BY <1>1 DEF Notes
<1> QED
  BY <1>1, <1>3, <1>4 DEF IInv, PointsBack, Placed, Opens, Restates, Opened, NotesAreAtHome, LinkedRecordIsComplete

LEMMA HappensTypes ==
  ASSUME TypeOK, NEW e \in Event, Happens(e)
  PROVE  spent' \in [Event -> Nat]
BY DEF TypeOK, Happens

(* Steps in which nothing is posted and no record is being opened after.   *)
LEMMA Unposted ==
  ASSUME IInv, TypeOK', UNCHANGED messages, ~opening', pc' \notin Opens,
         pc' \in Restates => anchor' \in Id
  PROVE  IInv'
<1>1. PointsBack'
  BY DEF IInv, PointsBack, Id
<1>2. \A kind : Notes(kind)' = Notes(kind)
  BY DEF Notes, Id
<1>3. NotesAreAtHome' /\ LinkedRecordIsComplete'
  BY <1>2 DEF IInv, NotesAreAtHome, LinkedRecordIsComplete
<1>4. Placed' /\ Opened'
  BY DEF Placed, Opened, Id
<1> QED
  BY <1>1, <1>3, <1>4 DEF IInv

LEMMA PeopleInv == ASSUME IInv, People PROVE IInv'
<1>1. Lasting /\ PointsBack' /\ NothingOfCagent
  BY PeopleLast DEF People, IInv
<1>2. UNCHANGED <<pc, recordVars, serveVars>>
  BY DEF People
<1>3. spent' \in [Event -> Nat]
  BY HappensTypes DEF People, PeopleAct, Say, Decide, Resolve, ResolveKind, Delete, Event, IInv
<1>4. Id \subseteq Id' /\ Len(messages) \in Nat /\ Len(messages') \in Nat
  BY <1>1, NotesLast, LengthIsNat DEF IInv, Lasting
<1>5. TypeOK'
  BY <1>1, <1>2, <1>3, <1>4 DEF IInv, TypeOK, Lasting, recordVars, serveVars
<1>6. Placed'
  BY <1>2, <1>4 DEF IInv, Placed, recordVars
<1> QED
  BY <1>1, <1>2, <1>5, <1>6, QuietNotes, OpenedLasts DEF IInv

(* Serving, but for the registration.                                      *)
LEMMA ServeInv ==
  ASSUME IInv, \/ \E n \in Names : Serve(n)
               \/ RunFront \/ Answer \/ Recorded \/ RunOperator \/ PostResult \/ ServeFails \/ Kill
  PROVE  IInv'
<1>1. Len(messages) \in Nat
  BY LengthIsNat DEF IInv
<1>2. ~ opening \/ pc \in Posting
  BY DEF IInv, Placed
<1>3. NoTopic \in Topic
  BY DEF NoTopic, Topic, Base
<1> USE DEF IInv, TypeOK, ServeLabel, Registering, Opens, Restates, Posting, Id
<1>4. CASE \E n \in Names : Serve(n)
  <2>1. PICK n \in Names : Serve(n)
    BY <1>4
  <2>2. n \in Topic
    BY NamesAreTopics
  <2>3. TypeOK'
    BY <2>1, <2>2, <1>1 DEF Serve, Begin, Go, History, InTopic
  <2> QED
    BY <1>2, <2>1, <2>3, Unposted DEF Serve, Begin, Go
<1>5. CASE RunFront \/ Answer \/ Recorded \/ RunOperator
  <2>1. TypeOK'
    BY <1>5, <1>1 DEF RunFront, Answer, AfterRecord, Recorded, RunOperator, Go, Handoff, recordVars, serveVars
  <2> QED
    BY <1>2, <1>5, <2>1, Unposted DEF RunFront, Answer, AfterRecord, Recorded, RunOperator, Go, recordVars, serveVars
<1>6. CASE PostResult \/ ServeFails \/ Kill
  <2>1. End /\ UNCHANGED messages
    BY <1>6 DEF PostResult, ServeFails, Kill
  <2>2. spent' \in [Event -> Nat]
    BY <1>6, HappensTypes DEF PostResult, ServeFails, Kill, Event
  <2>3. heard' \subseteq Id
    BY <1>6 DEF PostResult, ServeFails, Kill, Speech
  <2>4. files' \subseteq Handoff
    BY <1>6 DEF PostResult, ServeFails, Kill
  <2>5. /\ pc' \in ServeLabel /\ anchor' \in 0..Len(messages) /\ doc' \in 0..Len(messages)
        /\ seen' \subseteq Id /\ wrote' \subseteq Handoff /\ sections' \subseteq Handoff
    BY <1>1, <2>1 DEF End, Forget, Go
  <2>6. here' \in Topic /\ where' \in Topic /\ opening' \in BOOLEAN
    BY <1>3, <2>1 DEF End, Forget
  <2>7. messages' = messages
    BY <2>1
  <2>8. TypeOK'
    BY <2>2, <2>3, <2>4, <2>5, <2>6, <2>7
  <2> QED
    BY <2>1, <2>8, Unposted DEF End, Forget, Go
<1> QED
  BY <1>4, <1>5, <1>6
-----------------------------------------------------------------------------
(* The registration up to its first post.                                  *)
Reads == doc' = 0 /\ UNCHANGED <<messages, spent, here, seen, serveVars>>

LEMMA ReadsTypes ==
  ASSUME TypeOK, Reads, pc' \in ServeLabel, where' \in Topic, anchor' \in 0..Len(messages),
         opening' \in BOOLEAN
  PROVE  TypeOK'
<1>1. 0 \in 0..Len(messages)
  BY LengthIsNat
<1>2. messages' = messages /\ Id' = Id
  BY DEF Reads, Id
<1> QED
  BY <1>1, <1>2 DEF TypeOK, Reads, serveVars

LEMMA FreshInv == ASSUME IInv, Fresh, Reads PROVE IInv'
<1>1. TypeOK /\ Len(messages) \in Nat /\ Asking \in 0..Len(messages)
  BY LengthIsNat, AskingIsSeen DEF IInv
<1>2. UNCHANGED <<messages, spent, here, seen, files, wrote, sections, heard>> /\ doc' = 0
  BY DEF Reads, serveVars
<1>3. NoTopic \in Topic /\ Home(Asking) \in Topic
  BY <1>1 DEF NoTopic, Home, Topic, Base
<1>4. CASE Asking = 0
  <2>1. pc' = "registered" /\ anchor' = 0 /\ where' = NoTopic /\ opening' = FALSE
    BY <1>4 DEF Fresh, Return, Forget, Go
  <2>2. TypeOK'
    <3>1. pc' \in ServeLabel /\ anchor' \in 0..Len(messages)
      BY <1>1, <2>1 DEF ServeLabel
    <3> QED
      BY <1>1, <1>3, <2>1, <3>1, ReadsTypes
  <2> QED
    BY <1>2, <2>1, <2>2, Unposted DEF Opens, Restates
<1>5. CASE Asking # 0
  <2>1. pc' = "post_change" /\ anchor' = 0 /\ where' = Home(Asking) /\ opening' = TRUE
    BY <1>5 DEF Fresh, Go
  <2>2. TypeOK'
    <3>1. pc' \in ServeLabel /\ anchor' \in 0..Len(messages)
      BY <1>1, <2>1 DEF ServeLabel, Registering
    <3> QED
      BY <1>1, <1>3, <2>1, <3>1, ReadsTypes
  <2>3. Asking' = Asking
    BY <1>2 DEF Asking
  <2>4. Opened' /\ Placed'
    BY <2>1, <2>3 DEF Opened, Placed, Opens, Restates, Posting, Home
  <2>5. \A kind : Notes(kind)' = Notes(kind)
    BY <1>2 DEF Notes, Id
  <2>6. PointsBack' /\ NotesAreAtHome' /\ LinkedRecordIsComplete'
    BY <1>2, <2>5 DEF IInv, PointsBack, NotesAreAtHome, LinkedRecordIsComplete, Id
  <2> QED
    BY <2>2, <2>4, <2>6 DEF IInv
<1> QED
  BY <1>4, <1>5

(* It goes on with a record that is there.                                 *)
LEMMA RestateInv ==
  ASSUME IInv, Reads, NEW n \in Topic, NEW a \in Id, Restate(n, a),
         pc' \in {"post_statement", "read_anchor", "read_record"}
  PROVE  IInv'
<1>1. TypeOK /\ Len(messages) \in Nat
  BY LengthIsNat DEF IInv
<1>2. UNCHANGED <<messages, spent, here, seen, files, wrote, sections, heard>> /\ doc' = 0
  BY DEF Reads, serveVars
<1>3. where' = n /\ anchor' = a /\ opening' = FALSE
  BY DEF Restate
<1>4. a \in 0..Len(messages) /\ pc' \in ServeLabel
  BY <1>1 DEF Id, ServeLabel, Registering
<1>5. TypeOK'
  BY <1>1, <1>3, <1>4, ReadsTypes
<1> QED
  BY <1>2, <1>3, <1>5, Unposted DEF Opens

LEMMA NotesAreIds ==
  ASSUME TypeOK, NEW kind, NEW S \in SUBSET Id
  PROVE  /\ Earliest(NotesOf(S, kind)) # 0 => Earliest(NotesOf(S, kind)) \in Notes(kind)
         /\ Newest(NotesOf(S, kind)) # 0 => Newest(NotesOf(S, kind)) \in Notes(kind)
<1>1. NotesOf(S, kind) \subseteq 1..Len(messages) /\ Len(messages) \in Nat
  BY LengthIsNat DEF NotesOf, Id
<1>2. NotesOf(S, kind) \subseteq Notes(kind)
  BY DEF NotesOf, Notes
<1> QED
  BY <1>1, <1>2, Least, Greatest

LEMMA RefuseInv == ASSUME IInv, RefuseText, UNCHANGED serveVars PROVE IInv'
<1>1. TypeOK /\ Len(messages) \in Nat /\ Reads
  BY LengthIsNat DEF IInv, RefuseText, Return, Forget, Reads
<1>2. pc' = "registered" /\ anchor' = 0 /\ where' = NoTopic /\ opening' = FALSE
  BY DEF RefuseText, Return, Forget, Go
<1>3. NoTopic \in Topic /\ pc' \in ServeLabel /\ anchor' \in 0..Len(messages)
  BY <1>1, <1>2 DEF NoTopic, Topic, Base, ServeLabel
<1>4. TypeOK'
  BY <1>1, <1>2, <1>3, ReadsTypes
<1> QED
  BY <1>1, <1>2, <1>4, Unposted DEF Opens, Restates, Reads

LEMMA RegisterInv == ASSUME IInv, Register, UNCHANGED serveVars PROVE IInv'
<1>1. TypeOK /\ seen \in SUBSET Id /\ Reads
  BY DEF IInv, TypeOK, Register, Reads
<1>2. CASE OwnChange(seen) # 0
  <2>1. OwnChange(seen) \in Id /\ here \in Topic
    BY <1>1, <1>2, NotesAreIds DEF OwnChange, Notes, TypeOK
  <2> QED
    BY <1>1, <1>2, <2>1, RestateInv DEF Register, Go
<1>3. CASE OwnChange(seen) = 0 /\ OwnRecord(seen) # 0
  <2>1. Newest(NotesOf(seen, "record")) \in Notes("record")
    BY <1>1, <1>3, NotesAreIds DEF OwnRecord
  <2>2. OwnRecord(seen) \in Id /\ where \in Topic
    BY <1>1, <1>3, <2>1 DEF OwnRecord, IInv, LinkedRecordIsComplete, Notes, TypeOK
  <2> QED
    BY <1>1, <1>3, <2>2, RestateInv DEF Register, Go
<1>4. CASE OwnChange(seen) = 0 /\ OwnRecord(seen) = 0
  BY <1>1, <1>4, FreshInv DEF Register
<1> QED
  BY <1>2, <1>3, <1>4

LEMMA ReadInv ==
  ASSUME IInv, ReadAnchor \/ ReadRecord \/ FindLive, UNCHANGED serveVars
  PROVE  IInv'
<1>1. TypeOK /\ anchor \in Id /\ ~ opening /\ Len(messages) \in Nat
  BY LengthIsNat DEF IInv, Placed, Restates, Posting, ReadAnchor, ReadRecord, FindLive
<1>2. CASE ReadAnchor
  <2>1. Reads /\ messages[anchor].topic \in Topic
    BY <1>1, <1>2, LengthIsNat DEF ReadAnchor, Reads, Message
  <2>2. CASE messages[anchor].gone
    BY <1>2, <2>1, <2>2, FreshInv DEF ReadAnchor
  <2>3. CASE ~ messages[anchor].gone
    <3>1. PICK n \in Topic, a \in Id : Restate(n, a) /\ pc' = "read_record"
      BY <1>1, <1>2, <2>1, <2>3 DEF ReadAnchor, Go
    <3> QED
      BY <2>1, <3>1, RestateInv
  <2> QED
    BY <2>2, <2>3
<1>3. CASE ReadRecord
  <2>1. Reads
    BY <1>3 DEF ReadRecord, Reads
  <2>2. CASE Fresh
    BY <2>1, <2>2, FreshInv
  <2>3. CASE pc' = "find_live" /\ UNCHANGED <<anchor, where, opening>>
    <3>1. TypeOK'
      BY <1>1, <2>1, <2>3 DEF Reads, serveVars, TypeOK, ServeLabel, Registering, Id
    <3> QED
      BY <1>1, <2>1, <2>3, <3>1, Unposted DEF Reads, Opens
  <2> QED
    BY <1>3, <2>2, <2>3 DEF ReadRecord, Go
<1>4. CASE FindLive
  <2>1. LiveName(where) \in Topic
    BY <1>1 DEF LiveName, Twin, TypeOK, Topic
  <2>2. TypeOK' /\ UNCHANGED messages /\ pc' = "post_statement" /\ ~ opening'
    BY <1>1, <1>4, <2>1 DEF FindLive, Go, serveVars, TypeOK, ServeLabel, Registering, Id
  <2> QED
    BY <2>2, Unposted DEF Opens, Restates
<1> QED
  BY <1>2, <1>3, <1>4
-----------------------------------------------------------------------------
(* The posts, one after the other.                                         *)
LEMMA PostTypes ==
  ASSUME IInv, pc \in Posting, SendPost, UNCHANGED <<spent, here, seen, serveVars>>,
         pc' \in ServeLabel, where' \in Topic, anchor' \in 0..NextId, doc' \in 0..NextId,
         opening' \in BOOLEAN
  PROVE  TypeOK' /\ Id \subseteq Id' /\ Asking' = Asking
<1>1. TypeOK /\ Lasting /\ Len(messages') = NextId
  BY PostLasts DEF IInv
<1>2. Id \subseteq Id'
  BY <1>1, NotesLast
<1> QED
  BY <1>1, <1>2, AskingLasts DEF TypeOK, Lasting, serveVars

LEMMA PostingInv ==
  ASSUME IInv, UNCHANGED serveVars,
         PostChange \/ PostOrigin \/ PostStatement \/ PostDoc \/ PostState \/ PostRecord
  PROVE  IInv'
<1>1. pc \in Posting /\ SendPost /\ UNCHANGED <<spent, here, seen>>
  BY DEF PostChange, PostOrigin, PostStatement, PostDoc, PostState, PostRecord, Posting, recordVars
<1>2. /\ TypeOK /\ Len(messages) \in Nat /\ Lasting /\ PointsBack' /\ NotesAreAtHome' /\ LinkedRecordIsComplete'
      /\ NextId \notin Id
  BY <1>1, LengthIsNat, PostLasts DEF IInv, NextId, Id
<1>3. /\ anchor \in 0..NextId /\ doc \in 0..NextId /\ 0 \in 0..NextId /\ NextId \in 0..NextId
      /\ where \in Topic /\ NoTopic \in Topic /\ opening \in BOOLEAN
  BY <1>2 DEF TypeOK, NextId, NoTopic, Topic, Base
<1>4. Placed /\ Opened
  BY DEF IInv
<1>5. \A kind : \A i \in After(kind) : i \in Id /\ anchor < i
  BY DEF After, Notes
<1> USE DEF Go, Opens, Restates, Posting
<1>6. CASE PostChange
  <2>1. /\ pc = "post_change" /\ opening /\ where = Home(Asking)
        /\ anchor' = NextId /\ pc' = "post_origin" /\ UNCHANGED <<where, doc, opening>>
    BY <1>4, <1>6 DEF PostChange, Placed, Opened
  <2>2. TypeOK' /\ Asking' = Asking
    BY <1>1, <1>3, <2>1, PostTypes DEF ServeLabel, Registering
  <2>3. NextId \in Notes("change")' /\ messages'[NextId].topic = where
    <3>1. Post[pc].kind = "change" /\ Post[pc].to = where
      BY <1>1, <2>1, PostIs
    <3> QED
      BY <1>1, <3>1, PostLasts
  <2>4. Opened' /\ Placed'
    BY <2>1, <2>2, <2>3 DEF Opened, Placed, Home
  <2> QED
    BY <1>2, <2>2, <2>4 DEF IInv
<1>7. CASE PostOrigin
  <2>1. /\ pc = "post_origin" /\ opening /\ pc' = "post_statement"
        /\ UNCHANGED <<anchor, where, doc, opening>>
    BY <1>4, <1>7 DEF PostOrigin, Placed, recordVars
  <2>2. TypeOK' /\ Asking' = Asking
    BY <1>1, <1>3, <2>1, PostTypes DEF ServeLabel, Registering
  <2>3. NextId \in Notes("origin")' /\ messages'[NextId].topic = where
    <3>1. Post[pc].kind = "origin" /\ Post[pc].to = where
      BY <1>1, <2>1, PostIs
    <3> QED
      BY <1>1, <3>1, PostLasts
  <2>4. anchor \in Notes("change") /\ messages[anchor].topic.base = where.base /\ anchor < NextId
    BY <1>2, <1>4, <2>1 DEF Opened, Notes, Id, NextId
  <2>5. NextId \in After("origin")'
    BY <2>1, <2>3, <2>4 DEF After
  <2>6. Opened' /\ Placed'
    BY <1>2, <1>4, <2>1, <2>2, <2>4, <2>5, AfterLasts DEF Opened, Placed, Home
  <2> QED
    BY <1>2, <2>2, <2>6 DEF IInv
<1>8. CASE PostStatement
  <2>1. /\ pc = "post_statement" /\ pc' = "post_doc" /\ doc' = NextId
        /\ UNCHANGED <<anchor, where, opening>>
    BY <1>8 DEF PostStatement
  <2>2. TypeOK' /\ Asking' = Asking
    BY <1>1, <1>3, <2>1, PostTypes DEF ServeLabel, Registering
  <2>3. NextId \in Notes("statement")' /\ messages'[NextId].topic = where
    <3>1. Post[pc].kind = "statement" /\ Post[pc].to = where
      BY <1>1, <2>1, PostIs
    <3> QED
      BY <1>1, <3>1, PostLasts
  <2>4. opening => anchor \in Notes("change") /\ messages[anchor].topic.base = where.base /\ anchor < NextId
    BY <1>2, <1>4, <2>1 DEF Opened, Notes, Id, NextId
  <2>5. opening => NextId \in After("statement")'
    BY <2>1, <2>3, <2>4 DEF After
  <2>6. Opened' /\ Placed'
    BY <1>2, <1>4, <2>1, <2>2, <2>4, <2>5, AfterLasts DEF Opened, Placed, Home
  <2> QED
    BY <1>2, <2>2, <2>6 DEF IInv
<1>9. CASE PostDoc
  <2>1. pc = "post_doc"
    BY <1>9 DEF PostDoc
  <2>2. CASE ~ opening
    <3>1. pc' = "registered" /\ anchor' = 0 /\ where' = NoTopic /\ doc' = 0 /\ opening' = FALSE
      BY <1>9, <2>2 DEF PostDoc, Return, Forget
    <3>2. TypeOK'
      BY <1>1, <1>3, <3>1, PostTypes DEF ServeLabel
    <3>3. Opened' /\ Placed'
      BY <3>1 DEF Opened, Placed
    <3> QED
      BY <1>2, <3>2, <3>3 DEF IInv
  <2>3. CASE opening
    <3>1. pc' = "post_state" /\ UNCHANGED <<anchor, where, doc, opening>>
      BY <1>9, <2>3 DEF PostDoc
    <3>2. TypeOK' /\ Asking' = Asking
      BY <1>1, <1>3, <3>1, PostTypes DEF ServeLabel, Registering
    <3>3. NextId \in Notes("doc")' /\ messages'[NextId].topic = where
      <4>1. Post[pc].kind = "doc" /\ Post[pc].to = where
        BY <1>1, <2>1, PostIs
      <4> QED
        BY <1>1, <4>1, PostLasts
    <3>4. messages'[NextId].val = doc
      <4>1. Post[pc].val = doc
        BY <1>1, <2>1, PostIs
      <4> QED
        BY <1>1, <4>1, PostLasts
    <3>5. anchor \in Notes("change") /\ messages[anchor].topic.base = where.base /\ anchor < NextId
      BY <1>2, <1>4, <2>1, <2>3 DEF Opened, Notes, Id, NextId
    <3>6. NextId \in After("doc")'
      BY <3>1, <3>3, <3>5 DEF After
    <3>7. Opened' /\ Placed'
      BY <1>2, <1>4, <2>1, <2>3, <3>1, <3>2, <3>4, <3>5, <3>6, AfterLasts DEF Opened, Placed, Home
    <3> QED
      BY <1>2, <3>2, <3>7 DEF IInv
  <2> QED
    BY <2>2, <2>3
<1>10. CASE PostState
  <2>1. /\ pc = "post_state" /\ opening /\ pc' = "post_record"
        /\ UNCHANGED <<anchor, where, doc, opening>>
    BY <1>4, <1>10 DEF PostState, Placed, recordVars
  <2>2. TypeOK' /\ Asking' = Asking
    BY <1>1, <1>3, <2>1, PostTypes DEF ServeLabel, Registering
  <2>3. NextId \in Notes("requested")' /\ messages'[NextId].topic = where
    <3>1. Post[pc].kind = "requested" /\ Post[pc].to = where
      BY <1>1, <2>1, PostIs
    <3> QED
      BY <1>1, <3>1, PostLasts
  <2>4. anchor \in Notes("change") /\ messages[anchor].topic.base = where.base /\ anchor < NextId
    BY <1>2, <1>4, <2>1 DEF Opened, Notes, Id, NextId
  <2>5. NextId \in After("requested")'
    BY <2>1, <2>3, <2>4 DEF After
  <2>6. Opened' /\ Placed'
    BY <1>2, <1>4, <2>1, <2>2, <2>4, <2>5, AfterLasts DEF Opened, Placed, Home
  <2> QED
    BY <1>2, <2>2, <2>6 DEF IInv
<1>11. CASE PostRecord
  <2>1. pc' = "registered" /\ anchor' = 0 /\ where' = NoTopic /\ doc' = 0 /\ opening' = FALSE
    BY <1>11 DEF PostRecord, Return, Forget
  <2>2. TypeOK'
    BY <1>1, <1>3, <2>1, PostTypes DEF ServeLabel
  <2>3. Opened' /\ Placed'
    BY <2>1 DEF Opened, Placed
  <2> QED
    BY <1>2, <2>2, <2>3 DEF IInv
<1> QED
  BY <1>6, <1>7, <1>8, <1>9, <1>10, <1>11

LEMMA CallFailsInv == ASSUME IInv, CallFails, UNCHANGED serveVars PROVE IInv'
<1>1. /\ pc' = "registered" /\ anchor' = 0 /\ where' = NoTopic /\ doc' = 0 /\ opening' = FALSE
      /\ UNCHANGED <<here, seen, files, wrote, sections, heard>>
  BY DEF CallFails, Return, Forget, Go, serveVars
<1>2. TypeOK /\ spent' \in [Event -> Nat] /\ NoTopic \in Topic /\ Len(messages) \in Nat
  BY HappensTypes, LengthIsNat DEF IInv, CallFails, Event, NoTopic, Topic, Base
<1>3. CASE UNCHANGED messages
  <2>1. TypeOK'
    <3>1. 0 \in 0..Len(messages) /\ pc' \in ServeLabel
      BY <1>1, <1>2 DEF ServeLabel
    <3> QED
      BY <1>1, <1>2, <1>3, <3>1 DEF TypeOK, Id
  <2> QED
    BY <1>1, <1>3, <2>1, Unposted DEF Opens, Restates
<1>4. CASE pc \in Posting /\ SendPost
  <2>1. /\ Lasting /\ PointsBack' /\ NotesAreAtHome' /\ LinkedRecordIsComplete'
        /\ Id \subseteq Id' /\ Len(messages') = NextId
    BY <1>2, <1>4, PostLasts, NotesLast
  <2>2. TypeOK'
    <3>1. 0 \in 0..Len(messages')
      BY <1>2, <2>1 DEF NextId
    <3> QED
      BY <1>1, <1>2, <2>1, <3>1 DEF TypeOK, Lasting, ServeLabel
  <2> QED
    BY <1>1, <2>1, <2>2 DEF IInv, Placed, Opened, Opens, Restates
<1> QED
  BY <1>3, <1>4 DEF CallFails

LEMMA StutterInv == ASSUME IInv, UNCHANGED vars PROVE IInv'
<1>1. TypeOK' /\ UNCHANGED messages
  BY DEF IInv, vars, recordVars, serveVars, TypeOK, Id
<1>2. Lasting /\ NothingOfCagent /\ PointsBack'
  BY <1>1 DEF IInv, TypeOK, Lasting, SameButTick, NothingOfCagent, PointsBack, Id
<1>3. Placed'
  BY DEF IInv, vars, recordVars, Placed, Id
<1> QED
  BY <1>1, <1>2, <1>3, QuietNotes, OpenedLasts DEF IInv, vars

LEMMA NextInv == IInv /\ [Next]_vars => IInv'
<1> SUFFICES ASSUME IInv, [Next]_vars PROVE IInv'
  OBVIOUS
<1>1. CASE (RecordStep \/ CallFails) /\ UNCHANGED serveVars
  BY <1>1, RefuseInv, RegisterInv, ReadInv, PostingInv, CallFailsInv DEF RecordStep
<1> QED
  BY <1>1, ServeInv, PeopleInv, StutterInv DEF Next

(* What the records rest on, for any number of messages, failures and      *)
(* kills: every note of a record is where the record is, and one that is   *)
(* being opened has what was written so far.                               *)
THEOREM TopicInvariance == Spec => []IInv
BY InitInv, NextInv, PTL DEF Spec

(* Two requests never get into one record: its origin notes name the       *)
(* message that its topic is named after.                                  *)
THEOREM RequestsStayApart == Spec => []RequestsNeverMerge
<1>1. IInv => RequestsNeverMerge
  BY DEF IInv, NotesAreAtHome, RequestsNeverMerge
<1> QED
  BY <1>1, TopicInvariance, PTL

(* No conversation gets a link to a record that lacks something.           *)
THEOREM LinksAreWhole == Spec => []LinkedRecordIsComplete
<1>1. IInv => LinkedRecordIsComplete
  BY DEF IInv
<1> QED
  BY <1>1, TopicInvariance, PTL

(* Every variable keeps its type, however long the conversations get.      *)
THEOREM TopicsTypeCorrect == Spec => []TypeOK
<1>1. IInv => TypeOK
  BY DEF IInv
<1> QED
  BY <1>1, TopicInvariance, PTL
-----------------------------------------------------------------------------
(* What becomes of the notes that say which record this is.                *)
ChangeStays(i) ==
  /\ messages'[i].topic = messages[i].topic
  /\ messages[i].gone => messages'[i].gone

ChangesStay ==
  /\ \A i \in Notes("change") : i \in Notes("change")' /\ ChangeStays(i)
  /\ \A i \in Notes("change")' : i \in Notes("change") \/ i > Len(messages)

RecordsStayOpen == \A e \in {"resolve_record", "resolve_midway"} : spent'[e] = spent[e]

LEMMA PostedChangesStay ==
  ASSUME TypeOK, PointsBack, NEW by \in {"cagent", "person"}, NEW n \in Topic, NEW kind \in Kind,
         NEW val \in 0..Len(messages), Send(by, n, kind, val)
  PROVE  ChangesStay
<1>1. /\ Len(messages') = NextId
      /\ \A i \in Id : messages'[i] = messages[i]
  BY Sending
<1> QED
  BY <1>1, LengthIsNat DEF ChangesStay, ChangeStays, Notes, Id, NextId

LEMMA MarkedChangesStay ==
  ASSUME TypeOK, NotesAreAtHome, NEW n \in Topic, Resolve(n, ResolveKind(n)), RecordsStayOpen
  PROVE  ChangesStay
<1>1. n.base \in OriginName
  <2>1. ~ IsRecord(n)
    BY DEF Resolve, ResolveKind, Happens, Event, TypeOK, RecordsStayOpen
  <2> QED
    BY <2>1 DEF IsRecord
<1>2. /\ messages' = [i \in Id |->
            IF i \in InTopic(n) THEN [messages[i] EXCEPT !.topic = Twin(n)] ELSE messages[i]]
      /\ messages \in [Id -> Message] /\ Len(messages) \in Nat
  BY LengthIsNat DEF Resolve
<1>3. Id' = Id
  BY <1>2 DEF Id
<1>4. \A i \in Id : messages'[i].by = messages[i].by /\ messages'[i].kind = messages[i].kind
  BY <1>2 DEF Message
<1>5. \A i \in Notes("change") : messages'[i] = messages[i]
  BY <1>1, <1>2, RealmAssumption DEF NotesAreAtHome, InTopic, Notes
<1> QED
  BY <1>3, <1>4, <1>5 DEF ChangesStay, ChangeStays, Notes

LEMMA DeletedChangesStay ==
  ASSUME TypeOK, NEW n \in Topic, Delete(n)
  PROVE  ChangesStay
<1>1. PICK gone \in {InTopic(n)} \cup {{i} : i \in InTopic(n)} :
        messages' = [i \in Id |-> [messages[i] EXCEPT !.gone = @ \/ i \in gone]]
  BY DEF Delete
<1>2. messages \in [Id -> Message] /\ Len(messages) \in Nat
  BY LengthIsNat
<1>3. Id' = Id
  BY <1>1, <1>2 DEF Id
<1>4. \A i \in Id : /\ messages'[i].by = messages[i].by /\ messages'[i].kind = messages[i].kind
                    /\ messages'[i].topic = messages[i].topic
                    /\ messages[i].gone => messages'[i].gone
  BY <1>1, <1>2 DEF Message
<1> QED
  BY <1>3, <1>4 DEF ChangesStay, ChangeStays, Notes

LEMMA PeoplesChangesStay ==
  ASSUME IInv, PeopleAct, RecordsStayOpen
  PROVE  ChangesStay
<1>1. TypeOK /\ PointsBack /\ NotesAreAtHome
  BY DEF IInv
<1>2. PICK n \in Names : Say(n) \/ (\E word \in StateWord : Decide(n, word)) \/ Resolve(n, ResolveKind(n))
          \/ Delete(n)
  BY DEF PeopleAct
<1>3. n \in Topic
  BY <1>1, NamesAreTopics
<1>4. ASSUME NEW kind \in Kind, Send("person", n, kind, 0)
      PROVE  ChangesStay
  <2>1. 0 \in 0..Len(messages) /\ "person" \in {"cagent", "person"}
    BY <1>1, LengthIsNat
  <2> QED
    BY <1>1, <1>3, <1>4, <2>1, PostedChangesStay
<1>5. CASE Say(n)
  BY <1>4, <1>5 DEF Say, Kind
<1>6. CASE \E word \in StateWord : Decide(n, word)
  BY <1>4, <1>6 DEF Decide, Kind
<1> QED
  BY <1>1, <1>2, <1>3, <1>5, <1>6, MarkedChangesStay, DeletedChangesStay

LEMMA StepChangesStay ==
  ASSUME IInv, [Next]_vars, RecordsStayOpen
  PROVE  ChangesStay
<1>1. CASE UNCHANGED messages
  BY <1>1 DEF ChangesStay, ChangeStays, Notes, Id
<1>2. CASE pc \in Posting /\ SendPost
  <2>1. TypeOK /\ PointsBack /\ "cagent" \in {"cagent", "person"}
    BY DEF IInv
  <2>2. Post[pc].to \in Topic /\ Post[pc].kind \in Kind /\ Post[pc].val \in 0..Len(messages)
    BY <1>2, PostIs
  <2> QED
    BY <1>2, <2>1, <2>2, PostedChangesStay DEF SendPost
<1>3. CASE PeopleAct
  BY <1>3, PeoplesChangesStay
<1>4. UNCHANGED messages \/ (pc \in Posting /\ SendPost) \/ PeopleAct
  <2>1. ASSUME RecordStep \/ CallFails
        PROVE  UNCHANGED messages \/ (pc \in Posting /\ SendPost)
    BY <2>1 DEF RecordStep, CallFails, RefuseText, Register, ReadAnchor, ReadRecord, FindLive, PostChange, PostOrigin,
                PostStatement, PostDoc, PostState, PostRecord, Posting
  <2>2. ASSUME \/ \E n \in Names : Serve(n)
               \/ RunFront \/ Answer \/ Recorded \/ RunOperator \/ PostResult \/ ServeFails \/ Kill
        PROVE  UNCHANGED messages
    BY <2>2 DEF Serve, Begin, RunFront, Answer, Recorded, RunOperator, PostResult, ServeFails, Kill
  <2> QED
    BY <2>1, <2>2 DEF Next, People, vars
<1> QED
  BY <1>1, <1>2, <1>3, <1>4

(* The earliest of a set stays the earliest of what is left of it and of   *)
(* what comes after all of it.                                             *)
LEMMA EarliestStays ==
  ASSUME NEW m \in Nat, NEW n \in Nat, NEW S \in SUBSET (1..m), NEW T \in SUBSET (1..n),
         NEW i \in S \cap T, Earliest(S) = i, \A y \in T : y \in S \/ y > m
  PROVE  Earliest(T) = i
<1>1. \A y \in S : i =< y
  BY Least
<1>2. Earliest(T) \in T /\ \A y \in T : Earliest(T) =< y
  BY Least
<1>3. PICK t \in 1..n : t = Earliest(T)
  BY <1>2
<1>4. t =< i
  BY <1>2, <1>3
<1>5. i =< t
  <2>1. CASE t \in S
    BY <1>1, <2>1
  <2>2. CASE t > m
    BY <2>2
  <2> QED
    BY <1>2, <1>3, <2>1, <2>2
<1> QED
  BY <1>3, <1>4, <1>5

LEMMA IdentityStays ==
  ASSUME IInv, IInv', [Next]_vars, RecordsStayOpen,
         NEW i \in Notes("change"), OwnChange(InTopic(messages[i].topic)) = i, ~messages'[i].gone
  PROVE  OwnChange(InTopic(messages[i].topic))' = i
<1> DEFINE S == NotesOf(InTopic(messages[i].topic), "change")
           T == NotesOf(InTopic(messages[i].topic), "change")'
<1>1. Len(messages) \in Nat /\ Len(messages)' \in Nat
  BY LengthIsNat DEF IInv
<1>2. S \subseteq 1..Len(messages) /\ T \subseteq 1..Len(messages)'
  BY DEF NotesOf, InTopic, Id
<1>3. ChangesStay
  BY StepChangesStay
<1>4. messages'[i].topic = messages[i].topic /\ i \in Notes("change")'
  BY <1>3 DEF ChangesStay, ChangeStays
<1>5. i \in T /\ \A y \in T : y \in S \/ y > Len(messages)
  BY <1>3, <1>4 DEF ChangesStay, ChangeStays, NotesOf, InTopic, Notes
<1>6. i \in S
  BY <1>3 DEF ChangesStay, ChangeStays, NotesOf, InTopic, Notes
<1>7. Earliest(S) = i
  BY DEF OwnChange
<1>8. Earliest(T) = i
  <2>1. PICK s, t : s = S /\ t = T
    OBVIOUS
  <2>2. PICK m, n : m = Len(messages) /\ n = Len(messages)'
    OBVIOUS
  <2> HIDE DEF S, T
  <2>3. m \in Nat /\ n \in Nat /\ s \in SUBSET (1..m) /\ t \in SUBSET (1..n)
    BY <1>1, <1>2, <2>1, <2>2
  <2>4. Earliest(s) = i /\ i \in s \cap t /\ \A y \in t : y \in s \/ y > m
    BY <1>5, <1>6, <1>7, <2>1, <2>2
  <2>5. Earliest(t) = i
    BY <2>3, <2>4, EarliestStays
  <2> QED
    BY <2>1, <2>5
<1> QED
  BY <1>8 DEF OwnChange

(* A record is the request it was opened for, whoever posts or deletes     *)
(* there, however often its origin is resolved.                            *)
THEOREM RecordsKeepTheirIdentity == Spec => RecordKeepsItsIdentity
<1> DEFINE Stays ==
      \A i \in Notes("change") :
        /\ OwnChange(InTopic(messages[i].topic)) = i
        /\ ~messages'[i].gone
        /\ \A e \in {"resolve_record", "resolve_midway"} : spent'[e] = spent[e]
        => OwnChange(InTopic(messages[i].topic))' = i
<1>1. IInv /\ IInv' /\ [Next]_vars => [Stays]_vars
  BY IdentityStays DEF RecordsStayOpen
<1> QED
  BY <1>1, TopicInvariance, PTL DEF Spec, RecordKeepsItsIdentity
-----------------------------------------------------------------------------
(* What a serving reports by now of the files its front run wrote.         *)
Reported ==
  /\ pc \in {"idle", "front"} => wrote = {}
  /\ pc = "front" => files = {}
  /\ pc \notin {"idle", "front"} => files = wrote
  /\ pc \in Registering \cup {"registered"} => "requested_change" \in files
  /\ pc \notin {"operator", "post"} => sections = {}
  /\ pc = "operator" => "required_info" \in files /\ sections = files \ {"required_info"}
  /\ pc = "post" => sections = files

LEMMA ReportedNext == IInv /\ Reported /\ [Next]_vars => Reported'
<1> SUFFICES ASSUME IInv, Reported, [Next]_vars PROVE Reported'
  OBVIOUS
<1>1. files \subseteq {"requested_change", "required_info"}
  BY DEF IInv, TypeOK, Handoff
<1>2. CASE \E n \in Names : Serve(n)
  BY <1>2 DEF Serve, Begin, Go, Reported, Registering
<1>3. CASE RunFront
  BY <1>3 DEF RunFront, Go, Reported, Registering
<1>4. CASE Answer
  BY <1>1, <1>4 DEF Answer, AfterRecord, Go, Reported, Registering, serveVars
<1>5. CASE Recorded
  BY <1>1, <1>5 DEF Recorded, AfterRecord, Go, Reported, Registering
<1>6. CASE RunOperator
  BY <1>1, <1>6 DEF RunOperator, Go, Reported, Registering
<1>7. CASE PostResult \/ ServeFails \/ Kill
  BY <1>7 DEF PostResult, ServeFails, Kill, End, Go, Reported, Registering
<1>8. CASE (RecordStep \/ CallFails) /\ UNCHANGED serveVars
  <2>1. pc \in Registering /\ pc' \in Registering \cup {"registered"}
    BY <1>8 DEF RecordStep, CallFails, RefuseText, Register, ReadAnchor, ReadRecord, FindLive, PostChange, PostOrigin,
                PostStatement, PostDoc, PostState, PostRecord, Fresh, Return, Go, Registering
  <2> QED
    BY <1>8, <2>1 DEF Reported, Registering, serveVars
<1>9. CASE People \/ UNCHANGED vars
  BY <1>9 DEF People, Reported, vars, serveVars
<1> QED
  BY <1>2, <1>3, <1>4, <1>5, <1>6, <1>7, <1>8, <1>9 DEF Next

LEMMA ReportedAlways == Spec => []Reported
<1>1. Init => Reported
  BY DEF Init, Reported, Registering
<1> QED
  BY <1>1, ReportedNext, TopicInvariance, PTL DEF Spec

(* A serving acts on what its own front run wrote, ...                     *)
THEOREM HandoffsAreTheRuns == Spec => []HandoffsAreOfThisRun
<1>1. Reported => HandoffsAreOfThisRun
  BY DEF Reported, HandoffsAreOfThisRun, Registering
<1> QED
  BY <1>1, ReportedAlways, PTL

(* ... and one that ends well has reported all of it, whatever became of   *)
(* the registration.                                                       *)
THEOREM AllHandoffsReported == Spec => []HandoffsAreAllReported
<1>1. Reported => HandoffsAreAllReported
  BY DEF Reported, HandoffsAreAllReported
<1> QED
  BY <1>1, ReportedAlways, PTL
-----------------------------------------------------------------------------
(* Nothing is served of an empty topic, and when nothing is served `here`  *)
(* is no origin.                                                           *)
Served == IF pc = "idle" THEN IsRecord(here) ELSE seen # {}

LEMMA ServedNext == IInv /\ Served /\ [Next]_vars => Served'
<1> SUFFICES ASSUME IInv, Served, [Next]_vars PROVE Served'
  OBVIOUS
<1>1. CASE \E n \in Names : Serve(n)
  <2>1. PICK n \in Names : pc' = "front" /\ seen' = History(n) /\ Due(n)
    BY <1>1 DEF Serve, Begin, Go
  <2>2. InTopic(n) # {}
    BY <2>1 DEF Due, Speech
  <2>. QED
    BY <2>1, <2>2 DEF Served, History, LiveName
<1>2. CASE RunFront \/ Answer \/ Recorded \/ RunOperator
  BY <1>2 DEF RunFront, Answer, Recorded, RunOperator, AfterRecord, Go, Served, recordVars
<1>3. CASE PostResult \/ ServeFails \/ Kill
  BY <1>3, RealmAssumption DEF PostResult, ServeFails, Kill, End, Go, NoTopic, Served, IsRecord
<1>4. CASE (RecordStep \/ CallFails) /\ UNCHANGED serveVars
  <2>1. pc # "idle" /\ pc' # "idle" /\ seen' = seen
    BY <1>4 DEF RecordStep, CallFails, RefuseText, Register, ReadAnchor, ReadRecord, FindLive, PostChange, PostOrigin,
                PostStatement, PostDoc, PostState, PostRecord, Fresh, Return, Go, Registering, recordVars
  <2> QED
    BY <2>1 DEF Served
<1>5. CASE People \/ UNCHANGED vars
  BY <1>5 DEF People, Served, vars, recordVars, IsRecord
<1> QED
  BY <1>1, <1>2, <1>3, <1>4, <1>5 DEF Next

LEMMA ServedAlways == Spec => []Served
<1>1. Init => Served
  BY RealmAssumption DEF Init, Served, NoTopic, IsRecord
<1> QED
  BY <1>1, ServedNext, TopicInvariance, PTL DEF Spec
-----------------------------------------------------------------------------
(* Why asking again opens no second record.  While nothing failed, nobody  *)
(* deleted anything and no conversation was torn apart or merged:          *)
Calm == \A e \in {"fail", "kill", "delete", "mix_origin"} : spent[e] = 0

Conversation == {c \in Topic : ~IsRecord(c)}

(* k anchors a record that was asked for in c.                             *)
BaseOf(k) == messages[k].topic.base
From(k, c) == BaseOf(k) \in Id /\ messages[BaseOf(k)].topic = c

(* A link of a conversation leads to the record that was asked for there.  *)
Linked(i) ==
  messages[i].topic \in Conversation =>
    messages[i].val \in Notes("change") /\ From(messages[i].val, messages[i].topic)

(* What an origin note names was said, and there is an anchor for it.      *)
Originated(i) ==
  messages[i].val \in Id /\ \E k \in Notes("change") : BaseOf(k) = messages[i].val

OnePerConversation ==
  \A k, l \in Notes("change") : \A c \in Conversation : From(k, c) /\ From(l, c) => k = l

CalmNotes ==
  /\ \A i \in Id : ~messages[i].gone
  /\ \A k \in Notes("change") : BaseOf(k) \in Id
  /\ \A i \in Notes("record") : Linked(i)
  /\ \A i \in Notes("origin") : Originated(i)
  /\ OnePerConversation

(* What the serving has read is of one conversation, or all of a record.   *)
SeenIsHere ==
  \A i \in seen : IF IsRecord(here) THEN IsRecord(messages[i].topic) ELSE messages[i].topic = here

LinksAreSeen ==
  pc \in {"front", "answer", "register"} /\ here \in Conversation =>
    \A k \in Notes("record") : messages[k].topic = here => k \in seen

(* Who has an anchor has the link, or gets it from this very registration. *)
BeingWritten(k, c) == opening /\ pc # "post_change" /\ here = c /\ anchor = k
HasLink(c) == \E r \in Notes("record") : messages[r].topic = c

LinkedOrWritten ==
  \A k \in Notes("change") : \A c \in Conversation :
    From(k, c) => BeingWritten(k, c) \/ HasLink(c)

(* The record that is looked up is where it was found, or all of it moved  *)
(* under its tick.                                                         *)
LookedUp ==
  /\ pc \in Restates /\ here \in Conversation => anchor \in Notes("change") /\ From(anchor, here)
  /\ pc = "read_record" /\ here \in Conversation =>
       /\ IsRecord(where)
       /\ messages[anchor].topic \in {where, Twin(where)}
       /\ InTopic(where) # {} => messages[anchor].topic = where

(* A record is opened for something said, where none was asked for.        *)
OpenedOnce ==
  /\ opening => Asking # 0
  /\ pc = "post_change" /\ here \in Conversation => \A k \in Notes("change") : ~From(k, here)

CalmInv == CalmNotes /\ SeenIsHere /\ LinksAreSeen /\ LinkedOrWritten /\ LookedUp /\ OpenedOnce

(* A step of a calm realm: conversations stay where they are.              *)
Steady ==
  /\ Lasting
  /\ \A i \in 1..Len(messages') : ~messages'[i].gone
  /\ \A i \in Id : \A c \in Conversation : messages'[i].topic = c <=> messages[i].topic = c

LEMMA RecordTopics ==
  ASSUME IInv
  PROVE  /\ \A c \in Conversation : c \in Topic /\ ~IsRecord(c)
         /\ \A k \in Notes("change") : BaseOf(k) \in Nat /\ IsRecord(messages[k].topic)
         /\ \A i \in Id : messages[i].topic \in Topic
BY LengthIsNat, RealmAssumption
   DEF Conversation, IInv, NotesAreAtHome, BaseOf, IsRecord, Notes, Message

LEMMA NotesStay ==
  ASSUME IInv, CalmNotes, Steady
  PROVE  /\ \A kind : Notes(kind) \subseteq Notes(kind)'
         /\ \A k \in Notes("change") : /\ BaseOf(k)' = BaseOf(k) /\ BaseOf(k) \in Id'
                                       /\ \A c \in Conversation : From(k, c)' <=> From(k, c)
         /\ \A i \in Notes("record") : Linked(i)'
         /\ \A i \in Notes("origin") : Originated(i)'
<1>1. /\ Id \subseteq Id'
      /\ \A kind : Notes(kind) \subseteq Notes(kind)'
      /\ \A i \in Id : SameButTick(i)
  BY NotesLast DEF IInv, Steady, Lasting
<1>2. ASSUME NEW k \in Notes("change")
      PROVE  /\ BaseOf(k)' = BaseOf(k) /\ BaseOf(k) \in Id'
             /\ \A c \in Conversation : From(k, c)' <=> From(k, c)
  <2>1. k \in Id /\ BaseOf(k) \in Id /\ BaseOf(k)' = BaseOf(k)
    BY <1>1 DEF CalmNotes, Notes, SameButTick, BaseOf
  <2>. QED
    BY <1>1, <2>1 DEF From, Steady
<1>3. ASSUME NEW i \in Notes("record") PROVE Linked(i)'
  <2>1. i \in Id /\ messages'[i].val = messages[i].val
    BY <1>1 DEF Notes, SameButTick
  <2>2. ASSUME messages'[i].topic \in Conversation
        PROVE  messages[i].topic = messages'[i].topic /\ messages[i].topic \in Conversation
    BY <2>1, <2>2 DEF Steady
  <2>. QED
    BY <1>1, <1>2, <2>1, <2>2 DEF Linked, CalmNotes
<1>4. ASSUME NEW i \in Notes("origin") PROVE Originated(i)'
  <2>1. i \in Id /\ messages'[i].val = messages[i].val
    BY <1>1 DEF Notes, SameButTick
  <2>. QED
    BY <1>1, <1>2, <2>1 DEF Originated, CalmNotes
<1>. QED
  BY <1>1, <1>2, <1>3, <1>4

(* Nothing is noted.                                                       *)
LEMMA NoNoteIsNew ==
  ASSUME IInv, CalmNotes, Steady, NothingOfCagent
  PROVE  CalmNotes' /\ \A kind : Notes(kind)' = Notes(kind)
<1>1. \A kind : Notes(kind)' = Notes(kind)
  <2>1. \A kind : \A i \in Notes(kind)' : i \in Notes(kind)
    <3>1. \A i \in 1..Len(messages') : messages'[i].by = "cagent" => i \in Id /\ SameButTick(i)
      BY DEF Steady, Lasting, NothingOfCagent
    <3>. QED
      BY <3>1 DEF SameButTick, Notes, Id
  <2>2. \A kind : \A i \in Notes(kind) : i \in Notes(kind)'
    BY NotesStay
  <2>3. ASSUME NEW kind PROVE Notes(kind)' = Notes(kind)
    <3>1. PICK S, T : S = Notes(kind) /\ T = Notes(kind)'
      OBVIOUS
    <3>2. \A i : i \in S <=> i \in T
      BY <2>1, <2>2, <3>1
    <3>. QED
      BY <3>1, <3>2
  <2>. QED
    BY <2>3
<1>2. \A k, l \in Notes("change") : \A c \in Conversation : From(k, c)' /\ From(l, c)' => k = l
  BY NotesStay DEF CalmNotes, OnePerConversation
<1>. QED
  BY <1>1, <1>2, NotesStay DEF CalmNotes, OnePerConversation, Steady, Id

(* What has not happened after a step has not happened in it.              *)
LEMMA UnspentBefore ==
  ASSUME IInv, [Next]_vars, NEW e \in Event, spent'[e] = 0
  PROVE  spent[e] = 0 /\ ~Happens(e)
<1>1. spent \in [Event -> Nat]
  BY DEF IInv, TypeOK
<1>2. ASSUME NEW f \in Event, Happens(f)
      PROVE  spent'[f] = spent[f] + 1 /\ \A g \in Event : g # f => spent'[g] = spent[g]
  BY <1>1, <1>2 DEF Happens
<1>3. spent' = spent \/ \E f \in Event : Happens(f)
  <2>1. CASE People
    BY <2>1 DEF People, PeopleAct, Say, Decide, Resolve, ResolveKind, Delete, Event
  <2>2. CASE ServeFails \/ Kill \/ CallFails
    BY <2>2 DEF ServeFails, Kill, CallFails, Event
  <2>3. CASE RecordStep
    BY <2>3 DEF RecordStep, RefuseText, Register, ReadAnchor, ReadRecord, FindLive, PostChange, PostOrigin,
                PostStatement, PostDoc, PostState, PostRecord
  <2>4. CASE (\E n \in Names : Serve(n)) \/ RunFront \/ Answer \/ Recorded \/ RunOperator \/ PostResult
    BY <2>4 DEF Serve, Begin, RunFront, Answer, Recorded, RunOperator, PostResult
  <2>. QED
    BY <2>1, <2>2, <2>3, <2>4 DEF Next, vars
<1>4. ~Happens(e)
  <2>1. spent[e] \in Nat
    BY <1>1
  <2>. QED
    BY <1>2, <2>1
<1>. QED
  BY <1>2, <1>3, <1>4

(* What nobody does in a calm realm.                                       *)
LEMMA CalmBefore ==
  ASSUME IInv, [Next]_vars, Calm'
  PROVE  /\ Calm
         /\ \A e \in {"fail", "kill", "delete", "mix_origin"} : ~Happens(e)
BY UnspentBefore DEF Calm, Event

(* Nothing is posted.                                                      *)
LEMMA StillIsSteady ==
  ASSUME IInv, CalmNotes, UNCHANGED messages
  PROVE  Steady /\ NothingOfCagent /\ InTopic(where)' = {i \in Id : messages[i].topic = where' /\ ~messages[i].gone}
<1>1. Lasting
  BY LengthIsNat DEF IInv, TypeOK, Lasting, SameButTick
<1>. QED
  BY <1>1 DEF Steady, CalmNotes, NothingOfCagent, Id, InTopic

(* People's posts leave all as it is, ...                                  *)
LEMMA SayingIsSteady ==
  ASSUME IInv, CalmNotes, NEW n \in Topic, NEW kind \in Kind, Send("person", n, kind, 0)
  PROVE  /\ Steady /\ NothingOfCagent
         /\ \A i \in Id : messages'[i] = messages[i]
         /\ \A i \in Id' : i \in Id \/ messages'[i].topic = n
<1>1. 0 \in 0..Len(messages) /\ Len(messages) \in Nat /\ "person" \in {"cagent", "person"}
  BY LengthIsNat DEF IInv
<1>2. /\ Lasting /\ Len(messages') = NextId
      /\ \A i \in Id : messages'[i] = messages[i]
      /\ messages'[NextId] = [by |-> "person", topic |-> n, kind |-> kind, val |-> 0, gone |-> FALSE]
  BY <1>1, Sending DEF IInv
<1>3. messages'[NextId].by = "person" /\ ~messages'[NextId].gone /\ messages'[NextId].topic = n
  BY <1>2
<1>4. \A i \in 1..Len(messages') : i \in Id \/ i = NextId
  BY <1>1, <1>2 DEF Id, NextId
<1>. QED
  BY <1>2, <1>3, <1>4 DEF Steady, CalmNotes, NothingOfCagent, Id

(* ... and so does a resolve of a record, as far as conversations go.      *)
LEMMA ResolvingIsSteady ==
  ASSUME IInv, CalmNotes, NEW n \in Topic, NEW e, Resolve(n, e), IsRecord(n)
  PROVE  /\ Steady /\ NothingOfCagent /\ Id' = Id /\ IsRecord(Twin(n)) /\ Twin(n) \in Topic
         /\ \A i \in Id : messages'[i].topic = IF messages[i].topic = n THEN Twin(n) ELSE messages[i].topic
<1>1. Lasting /\ NothingOfCagent
  BY MarkingLasts DEF IInv
<1>2. /\ messages' = [i \in Id |->
           IF i \in InTopic(n) THEN [messages[i] EXCEPT !.topic = Twin(n)] ELSE messages[i]]
      /\ Len(messages) \in Nat
  BY LengthIsNat DEF Resolve, IInv
<1>3. Len(messages') = Len(messages) /\ Id' = Id
  BY <1>2 DEF Id
<1>4. Twin(n) \in Topic /\ IsRecord(Twin(n))
  BY DEF Twin, Topic, IsRecord
<1>5. ASSUME NEW i \in Id
      PROVE  /\ ~messages'[i].gone
             /\ messages'[i].topic = IF messages[i].topic = n THEN Twin(n) ELSE messages[i].topic
  <2>1. messages[i] \in Message /\ ~messages[i].gone
    BY LengthIsNat DEF IInv, CalmNotes
  <2>2. i \in InTopic(n) <=> messages[i].topic = n
    BY <2>1 DEF InTopic
  <2>3. CASE messages[i].topic = n
    BY <1>2, <2>1, <2>2, <2>3 DEF Message
  <2>4. CASE messages[i].topic # n
    BY <1>2, <2>1, <2>2, <2>4
  <2>. QED
    BY <2>3, <2>4
<1>6. \A i \in Id : \A c \in Conversation : messages'[i].topic = c <=> messages[i].topic = c
  BY <1>4, <1>5 DEF Conversation
<1>. QED
  BY <1>1, <1>3, <1>4, <1>5, <1>6 DEF Steady, Id
-----------------------------------------------------------------------------
LEMMA SeenStays ==
  ASSUME IInv, CalmInv, Steady, UNCHANGED <<here, seen>>
  PROVE  SeenIsHere' /\ Asking' = Asking
<1>1. TypeOK /\ Lasting /\ seen \subseteq Id /\ here \in Topic
  BY DEF IInv, TypeOK, Steady
<1>2. ASSUME NEW i \in seen
      PROVE  IF IsRecord(here) THEN IsRecord(messages'[i].topic) ELSE messages'[i].topic = here
  <2>1. i \in Id /\ messages'[i].topic.base = messages[i].topic.base
    BY <1>1 DEF Lasting, SameButTick
  <2>2. IF IsRecord(here) THEN IsRecord(messages[i].topic) ELSE messages[i].topic = here
    BY DEF CalmInv, SeenIsHere
  <2>3. ~IsRecord(here) => here \in Conversation
    BY <1>1 DEF Conversation
  <2>. QED
    BY <2>1, <2>2, <2>3 DEF IsRecord, Steady
<1>. QED
  BY <1>1, <1>2, AskingLasts DEF SeenIsHere

(* A step that leaves the serving where it is, and notes nothing.          *)
LEMMA ServingWaits ==
  ASSUME IInv, CalmInv, Steady, NothingOfCagent, UNCHANGED <<pc, recordVars>>, LookedUp'
  PROVE  CalmInv'
<1>1. UNCHANGED <<pc, here, seen, anchor, where, opening>>
  BY DEF recordVars
<1>2. CalmNotes' /\ \A kind : Notes(kind)' = Notes(kind)
  BY NoNoteIsNew DEF CalmInv
<1>3. \A k \in Notes("change") : \A c \in Conversation : From(k, c)' <=> From(k, c)
  BY NotesStay DEF CalmInv
<1>4. \A i \in Id : \A c \in Conversation : messages'[i].topic = c <=> messages[i].topic = c
  BY DEF Steady
<1>5. \A r \in Notes("record") : r \in Id
  BY DEF Notes
<1>6. SeenIsHere' /\ Asking' = Asking
  BY <1>1, SeenStays
<1>7. LinksAreSeen'
  BY <1>1, <1>2, <1>4, <1>5 DEF CalmInv, LinksAreSeen
<1>8. \A c \in Conversation : HasLink(c) => HasLink(c)'
  BY <1>2, <1>4, <1>5 DEF HasLink
<1>9. LinkedOrWritten'
  BY <1>1, <1>2, <1>3, <1>8 DEF CalmInv, LinkedOrWritten, BeingWritten
<1>10. OpenedOnce'
  BY <1>1, <1>2, <1>3, <1>6 DEF CalmInv, OpenedOnce
<1>. QED
  BY <1>2, <1>6, <1>7, <1>9, <1>10 DEF CalmInv

(* A conversation that nobody serves is renamed as a whole: what is asked, *)
(* noted and linked in it stays together.                                  *)
LEMMA RenamingCalm ==
  ASSUME IInv, Served, CalmInv, NEW n \in Topic, NEW e, Resolve(n, e), ~IsRecord(n),
         ~AtWork(n), InTopic(Twin(n)) = {}, UNCHANGED <<pc, recordVars>>
  PROVE  CalmInv'
<1> DEFINE Before(c) == IF c = Twin(n) THEN n ELSE c
<1>1. UNCHANGED <<pc, here, seen, anchor, where, opening>> /\ here \in Topic /\ seen \subseteq Id
  BY DEF recordVars, IInv, TypeOK
<1>2. /\ messages' = [i \in Id |->
           IF i \in InTopic(n) THEN [messages[i] EXCEPT !.topic = Twin(n)] ELSE messages[i]]
      /\ Len(messages) \in Nat /\ Lasting /\ TypeOK
  BY LengthIsNat, MarkingLasts DEF Resolve, IInv
<1>3. Id' = Id
  BY <1>2 DEF Id
<1>4. Twin(n) \in Topic /\ Twin(n).base = n.base /\ Twin(n) # n /\ Twin(n) \in Conversation /\ n \in Conversation
  BY DEF Twin, Topic, Conversation, IsRecord
<1>5. ASSUME NEW i \in Id
      PROVE  /\ ~messages[i].gone /\ ~messages'[i].gone /\ messages'[i].by = messages[i].by
             /\ messages'[i].kind = messages[i].kind /\ messages'[i].val = messages[i].val
             /\ messages[i].topic \in Topic /\ messages[i].topic # Twin(n)
             /\ messages'[i].topic = IF messages[i].topic = n THEN Twin(n) ELSE messages[i].topic
             /\ messages'[i].topic.base = messages[i].topic.base
  <2>1. messages[i] \in Message /\ ~messages[i].gone /\ messages[i].topic \in Topic
    BY LengthIsNat DEF IInv, CalmInv, CalmNotes, Message
  <2>2. (i \in InTopic(n) <=> messages[i].topic = n) /\ messages[i].topic # Twin(n)
    BY <2>1 DEF InTopic
  <2>3. CASE messages[i].topic = n
    BY <1>2, <1>4, <2>1, <2>2, <2>3 DEF Message
  <2>4. CASE messages[i].topic # n
    BY <1>2, <2>1, <2>2, <2>4
  <2>. QED
    BY <2>3, <2>4
<1>6. \A kind : Notes(kind)' = Notes(kind) /\ Notes(kind) \subseteq Id
  BY <1>3, <1>5 DEF Notes
<1>7. \A i \in Id : \A c \in Conversation :
        messages'[i].topic = c <=> c # n /\ messages[i].topic = Before(c)
  BY <1>4, <1>5
<1> HIDE DEF Before
<1>8. \A c \in Conversation : Before(c) \in Conversation
  BY <1>4 DEF Before
<1>9. here \in Conversation =>
        /\ here # n /\ Before(here) = here
        /\ \A i \in Id : messages'[i].topic = here <=> messages[i].topic = here
  <2> SUFFICES ASSUME here \in Conversation PROVE here # n /\ here # Twin(n)
    BY <1>7 DEF Before
  <2>1. pc # "idle" /\ seen # {}
    BY DEF Served, Conversation
  <2>2. here # n
    BY <2>1 DEF AtWork
  <2>3. PICK i \in seen : messages[i].topic = here
    BY <2>1 DEF CalmInv, SeenIsHere, Conversation
  <2>. QED
    BY <1>1, <1>5, <2>2, <2>3
<1>10. \A k \in Notes("change") : BaseOf(k) \in Id /\ BaseOf(k)' = BaseOf(k) /\ IsRecord(messages[k].topic)
  BY <1>5, <1>6, RecordTopics DEF CalmInv, CalmNotes, BaseOf
<1>11. \A k \in Notes("change") : \A c \in Conversation : From(k, c)' <=> c # n /\ From(k, Before(c))
  BY <1>3, <1>7, <1>10 DEF From
<1>12. OnePerConversation'
  BY <1>6, <1>8, <1>11 DEF CalmInv, CalmNotes, OnePerConversation
<1>13. ASSUME NEW i \in Notes("record") PROVE Linked(i)'
  <2>1. PICK k, c : k = messages[i].val /\ c = messages'[i].topic
    OBVIOUS
  <2>2. i \in Id /\ messages'[i].val = k
    BY <1>5, <1>6, <2>1
  <2>3. ASSUME c \in Conversation PROVE k \in Notes("change") /\ From(k, c)'
    <3>1. messages[i].topic = Before(c) /\ c # n
      BY <1>7, <2>1, <2>2, <2>3
    <3>2. Linked(i) /\ Before(c) \in Conversation
      BY <1>8, <2>3 DEF CalmInv, CalmNotes
    <3>3. k \in Notes("change") /\ From(k, Before(c))
      BY <2>1, <3>1, <3>2 DEF Linked
    <3>. QED
      BY <1>11, <2>3, <3>1, <3>3
  <2>. QED
    BY <1>6, <2>1, <2>2, <2>3 DEF Linked, From, BaseOf
<1>14. ASSUME NEW i \in Notes("origin") PROVE Originated(i)'
  BY <1>3, <1>5, <1>6, <1>10 DEF CalmInv, CalmNotes, Originated
<1>15. CalmNotes'
  BY <1>3, <1>5, <1>6, <1>10, <1>12, <1>13, <1>14 DEF CalmNotes
<1>16. SeenIsHere' /\ Asking' = Asking
  <2>1. \A i \in seen : IsRecord(messages'[i].topic) <=> IsRecord(messages[i].topic)
    BY <1>1, <1>5 DEF IsRecord
  <2>2. SeenIsHere'
    BY <1>1, <1>9, <2>1 DEF CalmInv, SeenIsHere, Conversation
  <2>. QED
    BY <1>1, <1>2, <2>2, AskingLasts
<1>17. LinksAreSeen'
  BY <1>1, <1>6, <1>9 DEF CalmInv, LinksAreSeen
<1>18. LinkedOrWritten'
  <2> SUFFICES ASSUME NEW k \in Notes("change"), NEW c \in Conversation, From(k, c)'
               PROVE  BeingWritten(k, c)' \/ HasLink(c)'
    BY <1>6 DEF LinkedOrWritten
  <2>1. c # n /\ From(k, Before(c)) /\ Before(c) \in Conversation
    BY <1>8, <1>11
  <2>2. CASE BeingWritten(k, Before(c))
    <3>1. c = here
      BY <1>8, <1>9, <2>1, <2>2 DEF BeingWritten, Before
    <3>. QED
      BY <1>1, <1>9, <2>2, <3>1 DEF BeingWritten
  <2>3. CASE HasLink(Before(c))
    BY <1>6, <1>7, <2>1, <2>3 DEF HasLink
  <2>. QED
    BY <2>1, <2>2, <2>3 DEF CalmInv, LinkedOrWritten
<1>19. LookedUp'
  <2>1. pc \in Restates /\ here \in Conversation => anchor \in Notes("change") /\ From(anchor, here)'
    <3>1. PICK a, h : a = anchor /\ h = here
      OBVIOUS
    <3>2. pc \in Restates /\ h \in Conversation => a \in Notes("change") /\ From(a, h)'
      BY <1>9, <1>11, <3>1 DEF CalmInv, LookedUp
    <3>. QED
      BY <1>1, <3>1, <3>2 DEF From, BaseOf
  <2>2. ASSUME pc = "read_record", here \in Conversation
        PROVE  /\ IsRecord(where)
               /\ messages'[anchor].topic \in {where, Twin(where)}
               /\ InTopic(where)' # {} => messages'[anchor].topic = where
    <3>1. anchor \in Notes("change") /\ IsRecord(where) /\ messages'[anchor].topic = messages[anchor].topic
      BY <1>4, <1>5, <1>6, <1>10, <2>2 DEF CalmInv, LookedUp, Restates, Conversation
    <3>2. InTopic(where)' = InTopic(where)
      BY <1>1, <1>3, <1>4, <1>5, <3>1 DEF InTopic, Conversation
    <3>. QED
      BY <2>2, <3>1, <3>2 DEF CalmInv, LookedUp
  <2>. QED
    BY <1>1, <1>6, <2>1, <2>2 DEF LookedUp
<1>20. OpenedOnce'
  BY <1>1, <1>6, <1>9, <1>11, <1>16 DEF CalmInv, OpenedOnce
<1>. QED
  BY <1>15, <1>16, <1>17, <1>18, <1>19, <1>20 DEF CalmInv

LEMMA PeopleCalm ==
  ASSUME IInv, Served, CalmInv, People, ~Happens("delete"), ~Happens("mix_origin")
  PROVE  CalmInv'
<1>1. UNCHANGED <<pc, recordVars>> /\ UNCHANGED <<pc, here, seen, anchor, where, opening>>
  BY DEF People, recordVars
<1>2. PICK n \in Names : Say(n) \/ (\E word \in StateWord : Decide(n, word)) \/ Resolve(n, ResolveKind(n))
  BY DEF People, PeopleAct, Delete
<1>3. n \in Topic
  BY NamesAreTopics DEF IInv
<1>4. CalmNotes /\ Len(messages) \in Nat
  BY LengthIsNat DEF CalmInv, IInv
<1>5. ASSUME Steady, NothingOfCagent,
             pc = "read_record" /\ here \in Conversation =>
               /\ messages'[anchor].topic \in {where, Twin(where)}
               /\ InTopic(where)' # {} => messages'[anchor].topic = where
      PROVE  CalmInv'
  <2>1. \A k \in Notes("change") : k \in Notes("change")' /\ \A c \in Conversation : From(k, c)' <=> From(k, c)
    BY <1>4, <1>5, NotesStay
  <2>2. LookedUp'
    BY <1>1, <1>5, <2>1 DEF LookedUp, CalmInv
  <2>. QED
    BY <1>1, <1>5, <2>2, ServingWaits
<1>6. pc = "read_record" /\ here \in Conversation =>
        /\ anchor \in Id /\ IsRecord(where) /\ where \in Topic
        /\ messages[anchor].topic \in {where, Twin(where)}
        /\ InTopic(where) # {} => messages[anchor].topic = where
  BY DEF CalmInv, LookedUp, Restates, Notes, IInv, TypeOK
<1>7. ASSUME NEW kind \in Kind, Send("person", n, kind, 0), IsRecord(n) => InTopic(n) # {}
      PROVE  CalmInv'
  <2>1. /\ Steady /\ NothingOfCagent
        /\ \A i \in Id : messages'[i] = messages[i]
        /\ \A i \in Id' : i \in Id \/ messages'[i].topic = n
    BY <1>3, <1>4, <1>7, SayingIsSteady
  <2>2. ASSUME IsRecord(where), InTopic(where)' # {} PROVE InTopic(where) # {}
    <3>1. PICK i \in Id' : messages'[i].topic = where'
      BY <2>2 DEF InTopic
    <3>2. i \in Id => i \in InTopic(where)
      BY <1>1, <1>4, <2>1, <3>1 DEF InTopic, CalmNotes
    <3>3. messages'[i].topic = n => InTopic(where) # {}
      BY <1>1, <1>7, <2>2, <3>1
    <3>. QED
      BY <2>1, <3>2, <3>3
  <2>. QED
    BY <1>5, <1>6, <2>1, <2>2
<1>8. CASE Say(n)
  BY <1>7, <1>8 DEF Say, Kind
<1>9. CASE \E word \in StateWord : Decide(n, word)
  BY <1>7, <1>9 DEF Decide, Kind
<1>10. CASE Resolve(n, ResolveKind(n)) /\ ~IsRecord(n)
  <2>1. ~AtWork(n) /\ InTopic(Twin(n)) = {}
    BY <1>10 DEF Resolve, ResolveKind
  <2>. QED
    BY <1>1, <1>3, <1>10, <2>1, RenamingCalm
<1>11. CASE Resolve(n, ResolveKind(n)) /\ IsRecord(n)
  <2>1. IsRecord(n)
    BY <1>11
  <2>2. /\ Steady /\ NothingOfCagent /\ Id' = Id /\ IsRecord(Twin(n))
        /\ \A i \in Id : messages'[i].topic = IF messages[i].topic = n THEN Twin(n) ELSE messages[i].topic
    BY <1>3, <1>4, <1>11, <2>1, ResolvingIsSteady
  <2>3. ASSUME pc = "read_record", here \in Conversation
        PROVE  /\ messages'[anchor].topic \in {where, Twin(where)}
               /\ InTopic(where)' # {} => messages'[anchor].topic = where
    <3>1. Twin(Twin(where)) = where /\ Twin(where) # where
      BY <1>6, <2>3 DEF Twin, Topic
    <3>2. \A t \in Topic : Twin(t) = where => t = Twin(where)
      BY <1>6, <2>3 DEF Twin, Topic
    <3>3. messages'[anchor].topic = IF messages[anchor].topic = n THEN Twin(n) ELSE messages[anchor].topic
      BY <1>6, <2>2, <2>3
    <3>4. ASSUME NEW i \in InTopic(where)' PROVE i \in Id /\ messages'[i].topic = where
      BY <1>1, <2>2 DEF InTopic
    <3>5. ASSUME NEW i \in Id, messages[i].topic = where PROVE InTopic(where) # {}
      BY <1>4, <3>5 DEF InTopic, CalmNotes
    <3>6. CASE n = where
      <4>1. \A i \in Id : messages'[i].topic # where
        BY <2>2, <3>1, <3>6
      <4>. QED
        BY <1>6, <2>3, <3>1, <3>3, <3>4, <3>6, <4>1
    <3>7. CASE n = Twin(where)
      BY <1>6, <2>3, <3>1, <3>3, <3>7
    <3>8. CASE n # where /\ n # Twin(where)
      <4>1. messages'[anchor].topic = messages[anchor].topic
        BY <1>6, <2>3, <3>3, <3>8
      <4>2. \A i \in Id : messages'[i].topic = where => messages[i].topic = where
        BY <1>3, <2>2, <3>2, <3>8
      <4>. QED
        BY <1>6, <2>3, <3>4, <3>5, <4>1, <4>2
    <3>. QED
      BY <3>6, <3>7, <3>8
  <2>. QED
    BY <1>5, <2>2, <2>3
<1>. QED
  BY <1>2, <1>8, <1>9, <1>10, <1>11

(* A step in which nothing is posted.                                      *)
LEMMA NothingPosted ==
  ASSUME IInv, CalmInv, UNCHANGED messages, SeenIsHere', LinksAreSeen', LookedUp', OpenedOnce',
         \A k, c : BeingWritten(k, c) => BeingWritten(k, c)'
  PROVE  CalmInv'
<1>1. Steady /\ NothingOfCagent
  BY StillIsSteady DEF CalmInv
<1>2. CalmNotes' /\ \A kind : Notes(kind)' = Notes(kind)
  BY <1>1, NoNoteIsNew DEF CalmInv
<1>3. \A k \in Notes("change") : \A c \in Conversation : From(k, c)' <=> From(k, c)
  BY <1>1, NotesStay DEF CalmInv
<1>4. \A c \in Conversation : HasLink(c) => HasLink(c)'
  BY <1>2 DEF HasLink
<1>5. LinkedOrWritten'
  BY <1>2, <1>3, <1>4 DEF CalmInv, LinkedOrWritten
<1>. QED
  BY <1>2, <1>5 DEF CalmInv

LEMMA FromStays ==
  ASSUME IInv, CalmInv, UNCHANGED messages
  PROVE  /\ \A kind : Notes(kind)' = Notes(kind)
         /\ \A k \in Notes("change") : \A c \in Conversation : From(k, c)' <=> From(k, c)
BY StillIsSteady, NoNoteIsNew, NotesStay DEF CalmInv

LEMMA ServeCalm ==
  ASSUME IInv, CalmInv,
         \/ \E n \in Names : Serve(n)
         \/ RunFront \/ Answer \/ Recorded \/ RunOperator \/ PostResult
  PROVE  CalmInv'
<1> USE DEF Go
<1>1. ~opening
  BY DEF IInv, Placed, Posting, Serve, Begin, RunFront, Answer, Recorded, RunOperator, PostResult
<1>2. \A k, c : ~BeingWritten(k, c)
  BY <1>1 DEF BeingWritten
<1>3. CASE \E n \in Names : Serve(n)
  <2>1. PICK n \in Names : Serve(n)
    BY <1>3
  <2>2. InTopic(n) # {}
    BY <2>1 DEF Serve, Begin, Due, Speech
  <2>3. /\ UNCHANGED <<messages, opening>> /\ pc' = "front" /\ here' = n /\ seen' = InTopic(n)
    BY <2>1, <2>2 DEF Serve, Begin, History, LiveName
  <2>4. SeenIsHere'
    BY <2>3 DEF SeenIsHere, InTopic
  <2>5. LinksAreSeen'
    BY <2>3, FromStays DEF LinksAreSeen, InTopic, Notes, CalmInv, CalmNotes
  <2>6. LookedUp' /\ OpenedOnce'
    BY <1>1, <2>3 DEF LookedUp, OpenedOnce, Restates
  <2>. QED
    BY <1>2, <2>3, <2>4, <2>5, <2>6, NothingPosted
<1>4. CASE RunFront \/ Answer
  <2>1. /\ UNCHANGED <<messages, recordVars>> /\ pc \in {"front", "answer"}
        /\ pc' \in {"answer", "register", "operator", "post"}
    BY <1>4 DEF RunFront, Answer, AfterRecord
  <2>2. UNCHANGED <<messages, here, seen, anchor, where, doc, opening>>
    BY <2>1 DEF recordVars
  <2>3. SeenIsHere'
    BY <2>2 DEF CalmInv, SeenIsHere
  <2>4. LinksAreSeen'
    BY <2>1, <2>2, FromStays DEF CalmInv, LinksAreSeen
  <2>5. LookedUp' /\ OpenedOnce'
    BY <1>1, <2>1, <2>2 DEF LookedUp, OpenedOnce, Restates
  <2>. QED
    BY <1>2, <2>2, <2>3, <2>4, <2>5, NothingPosted
<1>5. CASE Recorded \/ RunOperator
  <2>1. /\ UNCHANGED <<messages, recordVars>> /\ pc' \in {"operator", "post"}
    BY <1>5 DEF Recorded, RunOperator, AfterRecord
  <2>2. UNCHANGED <<messages, here, seen, anchor, where, doc, opening>>
    BY <2>1 DEF recordVars
  <2>3. SeenIsHere' /\ LinksAreSeen' /\ LookedUp' /\ OpenedOnce'
    BY <1>1, <2>1, <2>2 DEF CalmInv, SeenIsHere, LinksAreSeen, LookedUp, OpenedOnce, Restates
  <2>. QED
    BY <1>2, <2>2, <2>3, NothingPosted
<1>6. CASE PostResult
  <2>1. UNCHANGED messages /\ pc' = "idle" /\ seen' = {} /\ opening' = FALSE
    BY <1>6 DEF PostResult, End, Forget
  <2>2. SeenIsHere' /\ LinksAreSeen' /\ LookedUp' /\ OpenedOnce'
    BY <2>1 DEF SeenIsHere, LinksAreSeen, LookedUp, OpenedOnce, Restates
  <2>. QED
    BY <1>2, <2>1, <2>2, NothingPosted
<1>. QED
  BY <1>3, <1>4, <1>5, <1>6

(* It opens a record, where none was asked for.                            *)
LEMMA FreshCalm ==
  ASSUME IInv, CalmInv, Fresh, Reads, ~opening,
         here \in Conversation => \A k \in Notes("change") : ~From(k, here)
  PROVE  CalmInv'
<1>1. /\ UNCHANGED <<messages, here, seen>> /\ Asking' = Asking
  BY DEF Reads, Asking
<1>2. \A k, c : ~BeingWritten(k, c)
  BY DEF BeingWritten
<1>3. SeenIsHere'
  BY <1>1 DEF CalmInv, SeenIsHere
<1>4. pc' \in {"registered", "post_change"} /\ (opening' => Asking # 0)
  BY DEF Fresh, Return, Forget, Go
<1>5. LinksAreSeen' /\ LookedUp'
  BY <1>4 DEF LinksAreSeen, LookedUp, Restates
<1>6. OpenedOnce'
  BY <1>1, <1>4, FromStays DEF OpenedOnce
<1>. QED
  BY <1>1, <1>2, <1>3, <1>5, <1>6, NothingPosted

(* It goes on with a record, which it has yet to look up, or with none.    *)
LEMMA RestateCalm ==
  ASSUME IInv, CalmInv, UNCHANGED <<messages, here, seen>>, ~opening, ~opening',
         pc' \in {"post_statement", "read_anchor", "read_record", "find_live", "registered"}, LookedUp'
  PROVE  CalmInv'
<1>1. \A k, c : ~BeingWritten(k, c)
  BY DEF BeingWritten
<1>2. SeenIsHere' /\ LinksAreSeen' /\ OpenedOnce'
  BY DEF CalmInv, SeenIsHere, LinksAreSeen, OpenedOnce
<1>. QED
  BY <1>1, <1>2, NothingPosted

LEMMA RefuseCalm ==
  ASSUME IInv, CalmInv, RefuseText
  PROVE  CalmInv'
<1>1. /\ UNCHANGED <<messages, here, seen>> /\ ~opening /\ opening' = FALSE /\ pc' = "registered"
  BY DEF RefuseText, Return, Forget, Go, IInv, Placed, Posting
<1>2. LookedUp'
  BY <1>1 DEF LookedUp, Restates
<1>. QED
  BY <1>1, <1>2, RestateCalm

LEMMA RegisterCalm ==
  ASSUME IInv, CalmInv, Register, UNCHANGED serveVars
  PROVE  CalmInv'
<1>1. /\ TypeOK /\ seen \in SUBSET Id /\ Reads /\ pc = "register" /\ ~opening
      /\ UNCHANGED <<messages, here, seen>>
  BY DEF IInv, TypeOK, Placed, Posting, Register, Reads
<1>2. CASE OwnChange(seen) # 0
  <2>1. pc' = "post_statement" /\ opening' = FALSE
    BY <1>2 DEF Register, Restate, Go
  <2>2. LookedUp'
    BY <2>1 DEF LookedUp, Restates
  <2>. QED
    BY <1>1, <2>1, <2>2, RestateCalm
<1>3. CASE OwnChange(seen) = 0 /\ OwnRecord(seen) # 0
  <2>1. PICK k : k = Newest(NotesOf(seen, "record"))
    OBVIOUS
  <2>2. k \in Notes("record") /\ k \in seen /\ OwnRecord(seen) = messages[k].val
    <3>1. k # 0 /\ OwnRecord(seen) = messages[k].val
      BY <1>3, <2>1 DEF OwnRecord
    <3>2. NotesOf(seen, "record") \subseteq 1..Len(messages) /\ Len(messages) \in Nat
      BY <1>1, LengthIsNat DEF NotesOf, Id
    <3>3. k \in NotesOf(seen, "record")
      BY <2>1, <3>1, <3>2, Greatest
    <3>. QED
      BY <1>1, <3>1, <3>3 DEF NotesOf, Notes
  <2>3. pc' = "read_anchor" /\ opening' = FALSE /\ anchor' = messages[k].val
    BY <1>3, <2>2 DEF Register, Restate, Go
  <2>4. here \in Conversation => messages[k].val \in Notes("change") /\ From(messages[k].val, here)
    <3>1. here \in Conversation => messages[k].topic = here
      BY <2>2 DEF CalmInv, SeenIsHere, Conversation
    <3>. QED
      BY <2>2, <3>1 DEF CalmInv, CalmNotes, Linked
  <2>5. LookedUp'
    BY <1>1, <2>3, <2>4, FromStays DEF LookedUp
  <2>. QED
    BY <1>1, <2>3, <2>5, RestateCalm
<1>4. CASE OwnChange(seen) = 0 /\ OwnRecord(seen) = 0
  <2>1. Fresh
    BY <1>4 DEF Register
  <2>2. ASSUME here \in Conversation, HasLink(here) PROVE FALSE
    <3>1. PICK r \in Notes("record") : messages[r].topic = here
      BY <2>2 DEF HasLink
    <3>2. r \in seen /\ r \in Id
      BY <1>1, <2>2, <3>1 DEF CalmInv, LinksAreSeen, Notes
    <3>3. PICK k : k = Newest(NotesOf(seen, "record"))
      OBVIOUS
    <3>4. NotesOf(seen, "record") \subseteq 1..Len(messages) /\ Len(messages) \in Nat
      BY <1>1, LengthIsNat DEF NotesOf, Id
    <3>5. r \in NotesOf(seen, "record")
      BY <3>1, <3>2 DEF NotesOf, Notes
    <3>6. k # 0 /\ k \in NotesOf(seen, "record")
      BY <3>3, <3>4, <3>5, Greatest
    <3>7. k \in Notes("record") /\ k \in seen /\ OwnRecord(seen) = messages[k].val
      BY <1>1, <3>3, <3>6 DEF OwnRecord, NotesOf, Notes
    <3>8. messages[k].val \in Id
      <4>1. messages[k].topic = here
        BY <2>2, <3>7 DEF CalmInv, SeenIsHere, Conversation
      <4>. QED
        BY <2>2, <3>7, <4>1 DEF CalmInv, CalmNotes, Linked, Notes
    <3>. QED
      BY <1>4, <3>7, <3>8 DEF Id
  <2>3. here \in Conversation => \A k \in Notes("change") : ~From(k, here)
    BY <1>1, <2>2 DEF CalmInv, LinkedOrWritten, BeingWritten
  <2>. QED
    BY <1>1, <2>1, <2>3, FreshCalm
<1>. QED
  BY <1>2, <1>3, <1>4

(* The record that is looked up is found: it is one, and it is whole where *)
(* its anchor is.                                                          *)
LEMMA AnchorIsFound ==
  ASSUME IInv, CalmInv, pc = "read_record", here \in Conversation
  PROVE  OwnChange(History(where)) = anchor
<1>1. /\ anchor \in Notes("change") /\ From(anchor, here) /\ anchor \in Id
      /\ messages[anchor].topic \in {where, Twin(where)}
      /\ InTopic(where) # {} => messages[anchor].topic = where
      /\ ~messages[anchor].gone
  BY DEF CalmInv, CalmNotes, LookedUp, Restates, Notes
<1>2. LiveName(where) = messages[anchor].topic
  <2>1. anchor \in InTopic(messages[anchor].topic)
    BY <1>1 DEF InTopic
  <2>. QED
    BY <1>1, <2>1 DEF LiveName
<1> DEFINE S == NotesOf(History(where), "change")
<1>3. S \subseteq 1..Len(messages) /\ Len(messages) \in Nat
  BY LengthIsNat DEF IInv, NotesOf, History, InTopic, Id
<1>4. anchor \in S
  BY <1>1, <1>2 DEF NotesOf, History, InTopic, Notes
<1>5. ASSUME NEW k \in S PROVE k = anchor
  <2>1. k \in Notes("change") /\ BaseOf(k) = BaseOf(anchor)
    BY <1>2 DEF NotesOf, History, InTopic, Notes, BaseOf
  <2>2. From(k, here)
    BY <1>1, <2>1 DEF From
  <2>. QED
    BY <1>1, <2>1, <2>2 DEF CalmInv, CalmNotes, OnePerConversation
<1>6. Earliest(S) = anchor
  <2> HIDE DEF S
  <2>1. Earliest(S) \in S
    BY <1>3, <1>4, Least
  <2>. QED
    BY <1>5, <2>1
<1>. QED
  BY <1>6 DEF OwnChange

LEMMA ReadCalm ==
  ASSUME IInv, CalmInv, ReadAnchor \/ ReadRecord \/ FindLive, UNCHANGED serveVars
  PROVE  CalmInv'
<1>1. /\ TypeOK /\ pc \in Restates /\ anchor \in Id /\ ~opening
      /\ UNCHANGED <<messages, here, seen>>
  BY DEF IInv, Placed, Restates, Posting, ReadAnchor, ReadRecord, FindLive
<1>2. here \in Conversation => anchor \in Notes("change") /\ From(anchor, here)
  BY <1>1 DEF CalmInv, LookedUp
<1>3. CASE ReadAnchor
  <2>1. /\ ~messages[anchor].gone
        /\ pc' = "read_record" /\ where' = messages[anchor].topic /\ anchor' = anchor /\ opening' = FALSE
    BY <1>1, <1>3 DEF ReadAnchor, Restate, Go, CalmInv, CalmNotes
  <2>2. here \in Conversation => IsRecord(messages[anchor].topic)
    BY <1>2, RecordTopics
  <2>3. LookedUp'
    BY <1>1, <1>2, <2>1, <2>2, FromStays DEF LookedUp
  <2>. QED
    BY <1>1, <2>1, <2>3, RestateCalm
<1>4. CASE ReadRecord /\ OwnChange(History(where)) = anchor
  <2>1. pc' = "find_live" /\ UNCHANGED <<anchor, where, opening>>
    BY <1>4 DEF ReadRecord, Go
  <2>2. LookedUp'
    BY <1>1, <1>2, <2>1, FromStays DEF LookedUp
  <2>. QED
    BY <1>1, <2>1, <2>2, RestateCalm
<1>5. CASE ReadRecord /\ OwnChange(History(where)) # anchor
  <2>1. Fresh /\ Reads /\ here \notin Conversation
    BY <1>5, AnchorIsFound DEF ReadRecord, Reads
  <2>. QED
    BY <1>1, <2>1, FreshCalm
<1>6. CASE FindLive
  <2>1. pc' = "post_statement" /\ opening' = opening
    BY <1>6 DEF FindLive, Go
  <2>2. LookedUp'
    BY <2>1 DEF LookedUp, Restates
  <2>. QED
    BY <1>1, <2>1, <2>2, RestateCalm
<1>. QED
  BY <1>3, <1>4, <1>5, <1>6
-----------------------------------------------------------------------------
(* The posts of a registration.                                            *)
LEMMA PostIsSteady ==
  ASSUME IInv, CalmInv, pc \in Posting, SendPost, UNCHANGED <<here, seen>>,
         NEW n, NEW kind, NEW val, n = Post[pc].to, kind = Post[pc].kind, val = Post[pc].val
  PROVE  /\ Steady /\ SeenIsHere' /\ Asking' = Asking
         /\ NextId \in Notes(kind)' /\ NextId \notin Id
         /\ messages'[NextId].topic = n /\ messages'[NextId].val = val
         /\ \A i \in Id : messages'[i] = messages[i]
         /\ \A other : \A i \in Notes(other)' : i \in Notes(other) \/ (i = NextId /\ other = kind)
<1>1. /\ Send("cagent", n, kind, val)
      /\ n \in Topic /\ kind \in Kind /\ val \in 0..Len(messages)
      /\ kind = "origin" => n.base = val
      /\ kind = "change" => n.base \in Nat
  BY PostIs DEF SendPost
<1>2. TypeOK /\ PointsBack /\ Len(messages) \in Nat /\ "cagent" \in {"cagent", "person"}
  BY LengthIsNat DEF IInv
<1>3. /\ Lasting /\ Len(messages') = NextId
      /\ \A i \in Id : messages'[i] = messages[i]
      /\ messages'[NextId] = [by |-> "cagent", topic |-> n, kind |-> kind, val |-> val, gone |-> FALSE]
  BY <1>1, <1>2, Sending
<1>4. ~messages'[NextId].gone /\ messages'[NextId].topic = n /\ messages'[NextId].val = val
  BY <1>3
<1>5. \A i \in 1..Len(messages') : i \in Id \/ i = NextId
  BY <1>2, <1>3 DEF Id, NextId
<1>6. Steady
  BY <1>3, <1>4, <1>5 DEF Steady, CalmInv, CalmNotes
<1>7. /\ NextId \in Notes(kind)' /\ NextId \notin Id
      /\ \A other : \A i \in Notes(other)' : i \in Notes(other) \/ (i = NextId /\ other = kind)
  BY <1>1, <1>2, NewNote DEF NextId, Id
<1>. QED
  BY <1>3, <1>4, <1>6, <1>7, SeenStays

(* A post that is no anchor, origin or link.                               *)
LEMMA PlainPostCalm ==
  ASSUME IInv, CalmInv, pc \in Posting, SendPost, UNCHANGED <<here, seen>>,
         Post[pc].kind \notin {"change", "origin", "record"}, pc # "post_change",
         \/ UNCHANGED <<opening, anchor>>
         \/ ~opening /\ ~opening',
         pc' \in {"post_doc", "post_state", "post_record", "registered"}
  PROVE  CalmInv'
<1>1. PICK n, kind, val : n = Post[pc].to /\ kind = Post[pc].kind /\ val = Post[pc].val
  OBVIOUS
<1>2. /\ Steady /\ SeenIsHere' /\ Asking' = Asking
      /\ \A other : \A i \in Notes(other)' : i \in Notes(other) \/ (i = NextId /\ other = kind)
  BY <1>1, PostIsSteady
<1>3. \A other \in {"change", "origin", "record"} : Notes(other)' = Notes(other)
  BY <1>1, <1>2, NotesStay DEF CalmInv
<1>4. /\ \A k \in Notes("change") : /\ BaseOf(k)' = BaseOf(k) /\ BaseOf(k) \in Id'
                                    /\ \A c \in Conversation : From(k, c)' <=> From(k, c)
      /\ \A i \in Notes("record") : Linked(i)'
      /\ \A i \in Notes("origin") : Originated(i)'
  BY <1>2, NotesStay DEF CalmInv
<1>5. CalmNotes'
  BY <1>2, <1>3, <1>4 DEF CalmInv, CalmNotes, OnePerConversation, Steady, Id
<1>6. \A c \in Conversation : HasLink(c) => HasLink(c)'
  BY <1>2, <1>3 DEF HasLink, Steady, Notes
<1>7. LinkedOrWritten'
  BY <1>3, <1>4, <1>6 DEF CalmInv, LinkedOrWritten, BeingWritten
<1>8. LinksAreSeen' /\ LookedUp' /\ OpenedOnce'
  BY <1>2 DEF CalmInv, LinksAreSeen, LookedUp, OpenedOnce, Restates
<1>. QED
  BY <1>2, <1>5, <1>7, <1>8 DEF CalmInv

LEMMA PostChangeCalm == ASSUME IInv, CalmInv, PostChange PROVE CalmInv'
<1>1. /\ pc = "post_change" /\ pc \in Posting /\ opening /\ where = Home(Asking) /\ SendPost
      /\ anchor' = NextId /\ pc' = "post_origin" /\ UNCHANGED <<here, seen, where, doc, opening>>
  BY DEF PostChange, Go, IInv, Placed, Opens, Opened, Posting
<1>2. PICK n, kind, val, new : n = Post[pc].to /\ kind = Post[pc].kind /\ val = Post[pc].val /\ new = NextId
  OBVIOUS
<1>3. kind = "change" /\ n = where
  BY <1>1, <1>2, PostIs
<1>4. /\ Steady /\ SeenIsHere' /\ Asking' = Asking
      /\ new \in Notes("change")' /\ new \notin Id /\ messages'[new].topic = where
      /\ \A other : \A i \in Notes(other)' : i \in Notes(other) \/ (i = new /\ other = "change")
  BY <1>1, <1>2, <1>3, PostIsSteady
<1>5. /\ Notes("change") \subseteq Notes("change")'
      /\ \A k \in Notes("change") : /\ BaseOf(k)' = BaseOf(k) /\ BaseOf(k) \in Id'
                                    /\ \A c \in Conversation : From(k, c)' <=> From(k, c)
      /\ \A i \in Notes("record") : Linked(i)'
      /\ \A i \in Notes("origin") : Originated(i)'
  BY <1>4, NotesStay DEF CalmInv
<1>6. /\ \A other \in {"origin", "record"} : Notes(other)' = Notes(other)
      /\ \A k \in Notes("change")' : k \in Notes("change") \/ k = new
  <2>1. ASSUME NEW other \in {"origin", "record"} PROVE Notes(other)' = Notes(other)
    <3>1. \A i \in Notes(other)' : i \in Notes(other)
      BY <1>4
    <3>2. \A i \in Notes(other) : i \in Notes(other)'
      BY <1>4, NotesStay DEF CalmInv
    <3>. QED
      BY <3>1, <3>2
  <2>. QED
    BY <1>4, <2>1
<1>7. Asking \in seen /\ Asking \in Id /\ Id \subseteq Id'
  <2>1. Asking # 0 /\ TypeOK
    BY <1>1 DEF CalmInv, OpenedOnce, IInv
  <2>2. {i \in seen : messages[i].by # "cagent" /\ messages[i].kind = "speech"} \subseteq 1..Len(messages)
    BY <2>1 DEF TypeOK, Id
  <2>3. Asking \in seen
    BY <2>1, <2>2, Greatest, LengthIsNat DEF Asking
  <2>. QED
    BY <1>4, <2>1, <2>3, NotesLast DEF TypeOK, Steady
<1>8. BaseOf(new)' = Asking
  BY <1>1, <1>4 DEF BaseOf, Home
<1>9. \A c \in Conversation : From(new, c)' => c = here /\ here \in Conversation
  <2> SUFFICES ASSUME NEW c \in Conversation, messages'[Asking].topic = c PROVE c = here /\ here \in Conversation
    BY <1>8 DEF From
  <2>1. messages[Asking].topic = c
    BY <1>4, <1>7 DEF Steady
  <2>2. here \in Topic
    BY DEF IInv, TypeOK
  <2>. QED
    BY <1>7, <2>1, <2>2 DEF CalmInv, SeenIsHere, Conversation
<1>10. here \in Conversation => \A k \in Notes("change") : ~From(k, here)
  BY <1>1 DEF CalmInv, OpenedOnce
<1>11. OnePerConversation'
  BY <1>5, <1>6, <1>9, <1>10 DEF CalmInv, CalmNotes, OnePerConversation
<1>12. CalmNotes'
  BY <1>4, <1>5, <1>6, <1>7, <1>8, <1>11 DEF CalmNotes, Steady, Id
<1>13. \A c \in Conversation : HasLink(c) => HasLink(c)'
  BY <1>4, <1>6 DEF HasLink, Steady, Notes
<1>14. LinkedOrWritten'
  <2>1. ASSUME NEW k \in Notes("change"), NEW c \in Conversation, From(k, c)' PROVE HasLink(c)'
    BY <1>1, <1>5, <1>13, <2>1 DEF CalmInv, LinkedOrWritten, BeingWritten
  <2>2. \A c \in Conversation : From(new, c)' => BeingWritten(new, c)'
    BY <1>1, <1>2, <1>9 DEF BeingWritten
  <2>. QED
    BY <1>6, <2>1, <2>2 DEF LinkedOrWritten
<1>15. LinksAreSeen' /\ LookedUp' /\ OpenedOnce'
  BY <1>1, <1>4 DEF CalmInv, LinksAreSeen, LookedUp, OpenedOnce, Restates
<1>. QED
  BY <1>4, <1>12, <1>14, <1>15 DEF CalmInv

LEMMA PostOriginCalm == ASSUME IInv, CalmInv, PostOrigin PROVE CalmInv'
<1>1. /\ pc = "post_origin" /\ pc \in Posting /\ opening /\ where = Home(Asking) /\ SendPost
      /\ pc' = "post_statement" /\ UNCHANGED <<here, seen, anchor, where, doc, opening>>
      /\ anchor \in Notes("change") /\ messages[anchor].topic.base = where.base
  BY DEF PostOrigin, Go, recordVars, IInv, Placed, Opens, Opened, Posting
<1>2. PICK n, kind, val, new : n = Post[pc].to /\ kind = Post[pc].kind /\ val = Post[pc].val /\ new = NextId
  OBVIOUS
<1>3. kind = "origin" /\ n = where /\ n.base = val
  BY <1>1, <1>2, PostIs
<1>4. /\ Steady /\ SeenIsHere' /\ Asking' = Asking
      /\ new \in Notes("origin")' /\ messages'[new].val = val
      /\ \A other : \A i \in Notes(other)' : i \in Notes(other) \/ (i = new /\ other = "origin")
  BY <1>1, <1>2, <1>3, PostIsSteady
<1>5. /\ Notes("origin") \subseteq Notes("origin")'
      /\ \A k \in Notes("change") : /\ BaseOf(k)' = BaseOf(k) /\ BaseOf(k) \in Id'
                                    /\ \A c \in Conversation : From(k, c)' <=> From(k, c)
      /\ \A i \in Notes("record") : Linked(i)'
      /\ \A i \in Notes("origin") : Originated(i)'
  BY <1>4, NotesStay DEF CalmInv
<1>6. /\ \A other \in {"change", "record"} : Notes(other)' = Notes(other)
      /\ \A k \in Notes("origin")' : k \in Notes("origin") \/ k = new
  <2>1. ASSUME NEW other \in {"change", "record"} PROVE Notes(other)' = Notes(other)
    <3>1. \A i \in Notes(other)' : i \in Notes(other)
      BY <1>4
    <3>2. \A i \in Notes(other) : i \in Notes(other)'
      BY <1>4, NotesStay DEF CalmInv
    <3>. QED
      BY <3>1, <3>2
  <2>. QED
    BY <1>4, <2>1
<1>7. Originated(new)'
  BY <1>1, <1>3, <1>4, <1>5, <1>6 DEF Originated, BaseOf
<1>8. CalmNotes'
  BY <1>4, <1>5, <1>6, <1>7 DEF CalmInv, CalmNotes, OnePerConversation, Steady, Id
<1>9. \A c \in Conversation : HasLink(c) => HasLink(c)'
  BY <1>4, <1>6 DEF HasLink, Steady, Notes
<1>10. LinkedOrWritten'
  BY <1>1, <1>5, <1>6, <1>9 DEF CalmInv, LinkedOrWritten, BeingWritten
<1>11. LinksAreSeen' /\ LookedUp' /\ OpenedOnce'
  BY <1>1, <1>4 DEF CalmInv, LinksAreSeen, LookedUp, OpenedOnce, Restates
<1>. QED
  BY <1>4, <1>8, <1>10, <1>11 DEF CalmInv

LEMMA PostRecordCalm == ASSUME IInv, CalmInv, PostRecord PROVE CalmInv'
<1>1. /\ pc = "post_record" /\ pc \in Posting /\ opening /\ where = Home(Asking) /\ SendPost
      /\ pc' = "registered" /\ opening' = FALSE /\ UNCHANGED <<here, seen>>
      /\ anchor \in Notes("change") /\ messages[anchor].topic.base = where.base
  BY DEF PostRecord, Go, Return, Forget, IInv, Placed, Opens, Opened, Posting
<1>2. PICK n, kind, val, new : n = Post[pc].to /\ kind = Post[pc].kind /\ val = Post[pc].val /\ new = NextId
  OBVIOUS
<1>3. kind = "record" /\ n = here /\ val = anchor
  BY <1>1, <1>2, PostIs
<1>4. /\ Steady /\ SeenIsHere' /\ Asking' = Asking
      /\ new \in Notes("record")' /\ messages'[new].topic = here /\ messages'[new].val = anchor
      /\ \A other : \A i \in Notes(other)' : i \in Notes(other) \/ (i = new /\ other = "record")
  BY <1>1, <1>2, <1>3, PostIsSteady
<1>5. /\ Notes("record") \subseteq Notes("record")'
      /\ \A k \in Notes("change") : /\ BaseOf(k)' = BaseOf(k) /\ BaseOf(k) \in Id'
                                    /\ \A c \in Conversation : From(k, c)' <=> From(k, c)
      /\ \A i \in Notes("record") : Linked(i)'
      /\ \A i \in Notes("origin") : Originated(i)'
  BY <1>4, NotesStay DEF CalmInv
<1>6. /\ \A other \in {"change", "origin"} : Notes(other)' = Notes(other)
      /\ \A k \in Notes("record")' : k \in Notes("record") \/ k = new
  <2>1. ASSUME NEW other \in {"change", "origin"} PROVE Notes(other)' = Notes(other)
    <3>1. \A i \in Notes(other)' : i \in Notes(other)
      BY <1>4
    <3>2. \A i \in Notes(other) : i \in Notes(other)'
      BY <1>4, NotesStay DEF CalmInv
    <3>. QED
      BY <3>1, <3>2
  <2>. QED
    BY <1>4, <2>1
<1>7. here \in Conversation => From(anchor, here)
  <2>1. Asking # 0 /\ TypeOK
    BY <1>1 DEF CalmInv, OpenedOnce, IInv
  <2>2. {i \in seen : messages[i].by # "cagent" /\ messages[i].kind = "speech"} \subseteq 1..Len(messages)
    BY <2>1 DEF TypeOK, Id
  <2>3. Asking \in seen
    BY <2>1, <2>2, Greatest, LengthIsNat DEF Asking
  <2>4. here \in Conversation => messages[Asking].topic = here
    BY <2>3 DEF CalmInv, SeenIsHere, Conversation
  <2>5. BaseOf(anchor) = Asking /\ BaseOf(anchor) \in Id
    BY <1>1 DEF BaseOf, Home, CalmInv, CalmNotes
  <2>. QED
    BY <2>4, <2>5 DEF From
<1>8. Linked(new)'
  BY <1>1, <1>4, <1>5, <1>6, <1>7 DEF Linked
<1>9. CalmNotes'
  BY <1>4, <1>5, <1>6, <1>8 DEF CalmInv, CalmNotes, OnePerConversation, Steady, Id
<1>10. \A c \in Conversation : HasLink(c) \/ c = here => HasLink(c)'
  BY <1>4, <1>5 DEF HasLink, Steady, Notes
<1>11. LinkedOrWritten'
  BY <1>5, <1>6, <1>10 DEF CalmInv, LinkedOrWritten, BeingWritten
<1>12. LinksAreSeen' /\ LookedUp' /\ OpenedOnce'
  BY <1>1 DEF LinksAreSeen, LookedUp, OpenedOnce, Restates
<1>. QED
  BY <1>4, <1>9, <1>11, <1>12 DEF CalmInv

LEMMA PostingCalm ==
  ASSUME IInv, CalmInv, PostStatement \/ PostDoc \/ PostState
  PROVE  CalmInv'
<1>1. pc \in {"post_statement", "post_doc", "post_state"} /\ SendPost /\ UNCHANGED <<here, seen>>
  BY DEF PostStatement, PostDoc, PostState, recordVars
<1>2. pc \in Posting /\ pc # "post_change"
  BY <1>1 DEF Posting
<1>3. Post[pc].kind \notin {"change", "origin", "record"}
  BY <1>1, <1>2, PostIs
<1>4. /\ UNCHANGED <<opening, anchor>> \/ (~opening /\ ~opening')
      /\ pc' \in {"post_doc", "post_state", "post_record", "registered"}
  BY DEF PostStatement, PostDoc, PostState, Return, Forget, Go, recordVars
<1>. QED
  BY <1>1, <1>2, <1>3, <1>4, PlainPostCalm

LEMMA CalmNext == IInv /\ Served /\ (Calm => CalmInv) /\ [Next]_vars => (Calm => CalmInv)'
<1> SUFFICES ASSUME IInv, Served, Calm => CalmInv, [Next]_vars, Calm' PROVE CalmInv'
  OBVIOUS
<1>1. CalmInv /\ \A e \in {"fail", "kill", "delete", "mix_origin"} : ~Happens(e)
  BY CalmBefore
<1>2. CASE (RecordStep \/ CallFails) /\ UNCHANGED serveVars
  BY <1>1, <1>2, RefuseCalm, RegisterCalm, ReadCalm, PostChangeCalm, PostOriginCalm, PostRecordCalm, PostingCalm
     DEF RecordStep, CallFails
<1>3. CASE ServeFails \/ Kill
  BY <1>1, <1>3 DEF ServeFails, Kill
<1>4. CASE People
  BY <1>1, <1>4, PeopleCalm
<1>5. CASE UNCHANGED vars
  <2>1. UNCHANGED <<messages, pc, recordVars>>
    BY <1>5 DEF vars
  <2>2. Steady /\ NothingOfCagent
    BY <1>1, <2>1, StillIsSteady DEF CalmInv
  <2>3. LookedUp'
    <3>1. UNCHANGED <<here, seen, anchor, where, doc, opening>>
      BY <2>1 DEF recordVars
    <3>. QED
      BY <1>1, <2>1, <3>1 DEF CalmInv, LookedUp, Notes, From, BaseOf, InTopic, Id
  <2>. QED
    BY <1>1, <2>1, <2>2, <2>3, ServingWaits
<1>. QED
  BY <1>1, <1>2, <1>3, <1>4, <1>5, ServeCalm DEF Next

-----------------------------------------------------------------------------
(* Why asking in a record opens none, whatever failed.  While nobody       *)
(* deleted anything, or resolved a record in which a serving was at work:  *)
Undisturbed == \A e \in {"delete", "resolve_midway"} : spent[e] = 0

HasAnchor(n) == \E k \in Notes("change") : messages[k].topic = n

(* Every topic of a record has an anchor: its first post is one.           *)
Anchored ==
  /\ \A i \in Id : ~messages[i].gone
  /\ \A i \in Id : IsRecord(messages[i].topic) => HasAnchor(messages[i].topic)
  /\ \A i \in Notes("origin") : messages[i].val \in Id /\ ~IsRecord(AskedIn(i))

(* A serving of a record has seen its anchor, and so restates it; what is  *)
(* opened or written goes where an anchor is.                              *)
AnchorIsSeen ==
  /\ pc # "idle" /\ IsRecord(here) => HasAnchor(here)
  /\ pc \in Posting \ {"post_change"} /\ IsRecord(where) => HasAnchor(where)
  /\ pc \in {"front", "answer", "register"} /\ IsRecord(here) => NotesOf(seen, "change") # {}
  /\ pc \in Registering /\ IsRecord(here) =>
       pc \in {"register", "post_statement", "post_doc"} /\ ~opening
  /\ pc \in {"read_record", "find_live"} => messages[anchor].topic.base = where.base
  /\ \A k \in seen : messages[k].topic.base = here.base
  /\ opening => Asking \in seen

(* A step in which the serving waits.                                      *)
LEMMA ServingIsStill ==
  ASSUME IInv, AnchorIsSeen, Lasting, UNCHANGED <<pc, recordVars>>,
         pc # "idle" /\ IsRecord(here) => HasAnchor(here)',
         pc \in Posting \ {"post_change"} /\ IsRecord(where) => HasAnchor(where)'
  PROVE  AnchorIsSeen'
<1>1. /\ UNCHANGED <<pc, here, seen, anchor, where, doc, opening>>
      /\ TypeOK /\ seen \subseteq Id /\ \A i \in Id : SameButTick(i)
  BY DEF recordVars, IInv, TypeOK, Lasting
<1>2. Asking' = Asking
  BY <1>1, AskingLasts
<1>3. NotesOf(seen, "change")' = NotesOf(seen, "change")
  BY <1>1 DEF NotesOf, SameButTick
<1>4. \A k \in seen : messages'[k].topic.base = messages[k].topic.base
  BY <1>1 DEF SameButTick
<1>5. pc \in {"read_record", "find_live"} => messages'[anchor].topic.base = messages[anchor].topic.base
  BY <1>1 DEF IInv, Placed, Restates, SameButTick
<1>. QED
  BY <1>1, <1>2, <1>3, <1>4, <1>5 DEF AnchorIsSeen

(* A message is sent, to an origin, to where an anchor is, or as one.      *)
LEMMA SendingKeepsAnchors ==
  ASSUME IInv, Anchored, NEW by \in {"cagent", "person"}, NEW n \in Topic, NEW kind \in Kind,
         NEW val \in 0..Len(messages), Send(by, n, kind, val),
         IsRecord(n) => HasAnchor(n) \/ (by = "cagent" /\ kind = "change"),
         by = "cagent" /\ kind = "origin" => val \in Id /\ ~IsRecord(messages[val].topic)
  PROVE  /\ Lasting /\ Anchored'
         /\ \A m \in Topic : HasAnchor(m) => HasAnchor(m)'
         /\ kind = "change" /\ by = "cagent" => HasAnchor(n)'
<1>1. /\ Lasting /\ Len(messages') = NextId /\ Len(messages) \in Nat
      /\ \A i \in Id : messages'[i] = messages[i]
      /\ messages'[NextId] = [by |-> by, topic |-> n, kind |-> kind, val |-> val, gone |-> FALSE]
  BY Sending, LengthIsNat DEF IInv
<1>2. \A i \in Id' : i \in Id \/ i = NextId
  BY <1>1 DEF Id, NextId
<1>3. Id \subseteq Id' /\ NextId \in Id'
  BY <1>1 DEF Id, NextId
<1>4. /\ messages'[NextId].by = by /\ messages'[NextId].kind = kind /\ messages'[NextId].topic = n
      /\ messages'[NextId].val = val /\ ~messages'[NextId].gone
  BY <1>1
<1>5. \A other : \A i \in Notes(other) : i \in Notes(other)' /\ messages'[i] = messages[i]
  BY <1>1, <1>3 DEF Notes
<1>6. \A m : HasAnchor(m) => HasAnchor(m)'
  BY <1>5 DEF HasAnchor
<1>7. kind = "change" /\ by = "cagent" => HasAnchor(n)'
  BY <1>3, <1>4 DEF HasAnchor, Notes
<1>8. \A i \in Id' : ~messages'[i].gone
  BY <1>1, <1>2, <1>4 DEF Anchored
<1>9. ASSUME NEW i \in Id', IsRecord(messages'[i].topic)
      PROVE  \E k \in Notes("change")' : messages'[k].topic = messages'[i].topic
  <2>1. CASE i \in Id
    BY <1>1, <1>5, <1>9, <2>1 DEF Anchored, HasAnchor
  <2>2. CASE i = NextId
    <3>1. messages'[i].topic = n
      BY <1>4, <2>2
    <3>2. HasAnchor(n)'
      BY <1>6, <1>7, <1>9, <3>1
    <3>. QED
      BY <3>1, <3>2 DEF HasAnchor
  <2>. QED
    BY <1>2, <1>9, <2>1, <2>2
<1>10. ASSUME NEW i \in Notes("origin")'
       PROVE  messages'[i].val \in Id' /\ ~IsRecord(messages'[messages'[i].val].topic)
  <2>1. CASE i \in Id
    <3>1. i \in Notes("origin") /\ messages'[i].val = messages[i].val
      BY <1>1, <1>10, <2>1 DEF Notes
    <3>. QED
      BY <1>1, <1>3, <3>1 DEF Anchored, AskedIn
  <2>2. CASE i = NextId
    <3>1. by = "cagent" /\ kind = "origin"
      BY <1>4, <1>10, <2>2 DEF Notes
    <3>. QED
      BY <1>1, <1>3, <1>4, <2>2, <3>1
  <2>3. i \in Id'
    BY <1>10 DEF Notes
  <2>. QED
    BY <1>2, <2>1, <2>2, <2>3
<1>11. Anchored'
  BY <1>8, <1>9, <1>10 DEF Anchored, AskedIn, HasAnchor
<1>. QED
  BY <1>1, <1>6, <1>7, <1>11

(* A topic gets its tick, or loses it.                                     *)
LEMMA ResolvingKeepsAnchors ==
  ASSUME IInv, Anchored, NEW n \in Topic, NEW e, Resolve(n, e)
  PROVE  /\ Lasting /\ Anchored'
         /\ \A m \in Topic : m # n /\ HasAnchor(m) => HasAnchor(m)'
<1>1. Lasting /\ TypeOK
  BY MarkingLasts DEF IInv
<1>2. /\ messages' = [i \in Id |->
           IF i \in InTopic(n) THEN [messages[i] EXCEPT !.topic = Twin(n)] ELSE messages[i]]
      /\ Len(messages) \in Nat
  BY LengthIsNat DEF Resolve, IInv
<1>3. Id' = Id
  BY <1>2 DEF Id
<1>4. Twin(n) \in Topic /\ Twin(n).base = n.base
  BY DEF Twin, Topic
<1>5. ASSUME NEW i \in Id
      PROVE  /\ ~messages'[i].gone /\ messages'[i].by = messages[i].by
             /\ messages'[i].kind = messages[i].kind /\ messages'[i].val = messages[i].val
             /\ messages'[i].topic = IF messages[i].topic = n THEN Twin(n) ELSE messages[i].topic
  <2>1. messages[i] \in Message /\ ~messages[i].gone
    BY LengthIsNat DEF IInv, Anchored
  <2>2. i \in InTopic(n) <=> messages[i].topic = n
    BY <2>1 DEF InTopic
  <2>3. CASE messages[i].topic = n
    BY <1>2, <2>1, <2>2, <2>3 DEF Message
  <2>4. CASE messages[i].topic # n
    BY <1>2, <2>1, <2>2, <2>4
  <2>. QED
    BY <2>3, <2>4
<1>6. \A kind : Notes(kind)' = Notes(kind)
  BY <1>3, <1>5 DEF Notes
<1>7. \A m : m # n /\ HasAnchor(m) => HasAnchor(m)'
  BY <1>5, <1>6 DEF HasAnchor, Notes
<1>9. ASSUME NEW i \in Id, IsRecord(messages'[i].topic)
      PROVE  \E k \in Notes("change")' : messages'[k].topic = messages'[i].topic
  <2>1. HasAnchor(messages[i].topic)
    BY <1>4, <1>5, <1>9 DEF Anchored, IsRecord
  <2>2. PICK k \in Notes("change") : messages[k].topic = messages[i].topic
    BY <2>1 DEF HasAnchor
  <2>3. k \in Id /\ k \in Notes("change")'
    BY <1>6 DEF Notes
  <2>4. messages'[k].topic = messages'[i].topic
    BY <1>5, <2>2, <2>3
  <2>. QED
    BY <2>3, <2>4
<1>10. \A i \in Id : IsRecord(messages'[i].topic) <=> IsRecord(messages[i].topic)
  BY <1>4, <1>5 DEF IsRecord
<1>11. \A i \in Notes("origin") : messages'[i].val \in Id /\ ~IsRecord(messages'[messages'[i].val].topic)
  BY <1>5, <1>10 DEF Anchored, AskedIn, Notes
<1>12. Anchored'
  BY <1>3, <1>5, <1>6, <1>9, <1>11 DEF Anchored, AskedIn, HasAnchor
<1>. QED
  BY <1>1, <1>7, <1>12

LEMMA PeopleKeepAnchors ==
  ASSUME IInv, Anchored, AnchorIsSeen, People, ~Happens("delete"), ~Happens("resolve_midway")
  PROVE  Anchored' /\ AnchorIsSeen'
<1>1. UNCHANGED <<pc, recordVars>> /\ here \in Topic /\ where \in Topic
  BY DEF People, IInv, TypeOK
<1>2. PICK n \in Names : Say(n) \/ (\E word \in StateWord : Decide(n, word)) \/ Resolve(n, ResolveKind(n))
  BY DEF People, PeopleAct, Delete
<1>3. n \in Topic
  BY NamesAreTopics DEF IInv
<1>4. ASSUME NEW kind \in Kind, Send("person", n, kind, 0), IsRecord(n) => InTopic(n) # {}
      PROVE  Anchored' /\ AnchorIsSeen'
  <2>1. IsRecord(n) => HasAnchor(n)
    BY <1>4 DEF Anchored, InTopic
  <2>2. 0 \in 0..Len(messages) /\ "person" \in {"cagent", "person"} /\ "person" # "cagent"
    BY LengthIsNat DEF IInv
  <2>3. /\ Lasting /\ Anchored'
        /\ \A m \in Topic : HasAnchor(m) => HasAnchor(m)'
    BY <1>3, <1>4, <2>1, <2>2, SendingKeepsAnchors
  <2>4. /\ pc # "idle" /\ IsRecord(here) => HasAnchor(here)'
        /\ pc \in Posting \ {"post_change"} /\ IsRecord(where) => HasAnchor(where)'
    BY <1>1, <2>3 DEF AnchorIsSeen, HasAnchor, recordVars
  <2>. QED
    BY <1>1, <2>3, <2>4, ServingIsStill
<1>5. CASE Say(n)
  BY <1>4, <1>5 DEF Say, Kind
<1>6. CASE \E word \in StateWord : Decide(n, word)
  BY <1>4, <1>6 DEF Decide, Kind
<1>7. CASE Resolve(n, ResolveKind(n))
  <2>1. ~IsRecord(n) \/ ~AtWork(n)
    BY <1>7 DEF Resolve, ResolveKind
  <2>2. /\ Lasting /\ Anchored'
        /\ \A m \in Topic : m # n /\ HasAnchor(m) => HasAnchor(m)'
    BY <1>3, <1>7, ResolvingKeepsAnchors
  <2>3. /\ pc # "idle" /\ IsRecord(here) => here # n
        /\ pc \in Posting \ {"post_change"} /\ IsRecord(where) => where # n
    BY <2>1 DEF AtWork, Posting
  <2>4. /\ pc # "idle" /\ IsRecord(here) => HasAnchor(here)'
        /\ pc \in Posting \ {"post_change"} /\ IsRecord(where) => HasAnchor(where)'
    BY <1>1, <2>2, <2>3 DEF AnchorIsSeen, HasAnchor, recordVars
  <2>. QED
    BY <1>1, <2>2, <2>4, ServingIsStill
<1>. QED
  BY <1>2, <1>5, <1>6, <1>7

(* A post of a registration, whether or not it is known to have arrived.   *)
LEMMA PostKeepsAnchors ==
  ASSUME IInv, Anchored, AnchorIsSeen, pc \in Posting, SendPost
  PROVE  /\ Lasting /\ Anchored'
         /\ \A m \in Topic : HasAnchor(m) => HasAnchor(m)'
         /\ pc = "post_change" => \A m \in Topic : m = where => HasAnchor(m)'
<1>1. PICK n, kind, val : n = Post[pc].to /\ kind = Post[pc].kind /\ val = Post[pc].val
  OBVIOUS
<1>2. /\ Send("cagent", n, kind, val) /\ "cagent" \in {"cagent", "person"}
      /\ n \in Topic /\ kind \in Kind /\ val \in 0..Len(messages)
      /\ pc = "post_record" => n = here
      /\ pc # "post_record" => n = where
      /\ kind = "change" <=> pc = "post_change"
      /\ kind = "origin" <=> pc = "post_origin"
  BY <1>1, PostIs DEF SendPost, Posting
<1>3. IsRecord(n) => HasAnchor(n) \/ kind = "change"
  BY <1>2 DEF AnchorIsSeen, Posting
<1>4. ASSUME kind = "origin" PROVE val \in Id /\ ~IsRecord(messages[val].topic)
  <2>1. pc = "post_origin" /\ opening /\ val = Asking
    BY <1>1, <1>2, <1>4 DEF Post, Posting, IInv, Placed, Opens
  <2>2. Asking \in seen /\ seen \subseteq Id /\ ~IsRecord(here)
    BY <2>1 DEF AnchorIsSeen, Registering, IInv, TypeOK
  <2>. QED
    BY <2>1, <2>2 DEF AnchorIsSeen, IsRecord
<1>5. /\ Lasting /\ Anchored'
      /\ \A m \in Topic : HasAnchor(m) => HasAnchor(m)'
      /\ kind = "change" => HasAnchor(n)'
  BY <1>2, <1>3, <1>4, SendingKeepsAnchors
<1>6. pc = "post_change" => \A m \in Topic : m = where => HasAnchor(m)'
  BY <1>2, <1>5
<1>. QED
  BY <1>5, <1>6

(* A step that sends no message.                                           *)
LEMMA NothingSent ==
  ASSUME Anchored, UNCHANGED messages
  PROVE  Anchored' /\ \A m : HasAnchor(m)' <=> HasAnchor(m)
BY DEF Anchored, HasAnchor, AskedIn, Notes, Id

LEMMA ServingKeepsAnchors ==
  ASSUME IInv, Anchored, AnchorIsSeen,
         \/ \E n \in Names : Serve(n)
         \/ RunFront \/ Answer \/ Recorded \/ RunOperator \/ PostResult \/ ServeFails \/ Kill
  PROVE  Anchored' /\ AnchorIsSeen'
<1> USE DEF Go
<1>1. UNCHANGED messages /\ ~opening'
  BY DEF IInv, Placed, Posting, Serve, Begin, RunFront, Answer, Recorded, RunOperator, PostResult,
         ServeFails, Kill, End, Forget, recordVars
<1>2. Anchored' /\ \A m : HasAnchor(m)' <=> HasAnchor(m)
  BY <1>1, NothingSent
<1>3. CASE \E n \in Names : Serve(n)
  <2>1. PICK n \in Names : Serve(n)
    BY <1>3
  <2>2. InTopic(n) # {}
    BY <2>1 DEF Serve, Begin, Due, Speech
  <2>3. here' = n /\ seen' = InTopic(n) /\ pc' = "front"
    BY <2>1, <2>2 DEF Serve, Begin, History, LiveName
  <2>4. IsRecord(n) => HasAnchor(n)
    BY <2>2 DEF Anchored, InTopic
  <2>5. IsRecord(n) => HasAnchor(here)' /\ NotesOf(seen, "change")' # {}
    <3> SUFFICES ASSUME IsRecord(n) PROVE HasAnchor(here)' /\ NotesOf(seen, "change")' # {}
      OBVIOUS
    <3>1. PICK k \in Notes("change") : messages[k].topic = n
      BY <2>4 DEF HasAnchor
    <3>2. k \in InTopic(n)
      BY <3>1 DEF Anchored, InTopic, Notes
    <3>3. k \in NotesOf(seen, "change")'
      BY <1>1, <2>3, <3>2 DEF NotesOf, Notes
    <3>. QED
      BY <1>1, <2>3, <3>1, <3>3 DEF HasAnchor, Notes, Id
  <2>6. \A k \in seen' : messages'[k].topic.base = here'.base
    BY <1>1, <2>3 DEF InTopic
  <2>. QED
    BY <1>1, <1>2, <2>3, <2>5, <2>6 DEF AnchorIsSeen, Registering, Posting
<1>4. CASE RunFront \/ Answer \/ Recorded \/ RunOperator
  <2>1. /\ UNCHANGED <<messages, here, seen, anchor, where, opening>>
        /\ pc # "idle" /\ pc' \in {"answer", "register", "operator", "post"}
        /\ pc' \in {"answer", "register"} => pc \in {"front", "answer"}
    BY <1>4 DEF RunFront, Answer, Recorded, RunOperator, AfterRecord, recordVars
  <2>2. NotesOf(seen, "change")' = NotesOf(seen, "change") /\ HasAnchor(here)' = HasAnchor(here)
    BY <2>1 DEF NotesOf, HasAnchor, Notes, Id
  <2>. QED
    BY <1>1, <1>2, <2>1, <2>2 DEF AnchorIsSeen, Registering, Posting
<1>5. CASE PostResult \/ ServeFails \/ Kill
  <2>1. pc' = "idle" /\ seen' = {}
    BY <1>5 DEF PostResult, ServeFails, Kill, End
  <2>. QED
    BY <1>1, <1>2, <2>1 DEF AnchorIsSeen, Registering, Posting
<1>. QED
  BY <1>3, <1>4, <1>5

(* The registration up to its first post.  It looks for the anchor in what *)
(* was read of this conversation, and only an origin gets further.         *)
LEMMA ReadingKeepsAnchors ==
  ASSUME IInv, Anchored, AnchorIsSeen, RefuseText \/ Register \/ ReadAnchor \/ ReadRecord \/ FindLive
  PROVE  Anchored' /\ AnchorIsSeen'
<1>1. /\ UNCHANGED <<messages, here, seen>> /\ TypeOK /\ seen \in SUBSET Id /\ ~opening
      /\ Len(messages) \in Nat /\ pc # "idle"
  BY LengthIsNat DEF IInv, TypeOK, Placed, Posting, RefuseText, Register, ReadAnchor, ReadRecord, FindLive
<1>2. Anchored' /\ \A m : HasAnchor(m)' <=> HasAnchor(m)
  BY <1>1, NothingSent
<1>3. /\ HasAnchor(here)' = HasAnchor(here) /\ Asking' = Asking
      /\ \A k \in seen' : messages'[k].topic.base = here'.base
  BY <1>1 DEF HasAnchor, Notes, Id, Asking, AnchorIsSeen
<1>4. ASSUME pc' = "registered", opening' = FALSE PROVE AnchorIsSeen'
  BY <1>1, <1>3, <1>4 DEF AnchorIsSeen, Registering, Posting
<1>5. ASSUME Fresh, ~IsRecord(here) PROVE AnchorIsSeen'
  <2>1. CASE Asking = 0
    BY <1>4, <1>5, <2>1 DEF Fresh, Return, Forget, Go
  <2>2. CASE Asking # 0
    <3>1. {i \in seen : messages[i].by # "cagent" /\ messages[i].kind = "speech"} \subseteq 1..Len(messages)
      BY <1>1 DEF Id
    <3>2. Asking \in seen
      BY <1>1, <2>2, <3>1, Greatest DEF Asking
    <3>3. pc' = "post_change"
      BY <1>5, <2>2 DEF Fresh, Go
    <3>. QED
      BY <1>1, <1>3, <1>5, <3>2, <3>3 DEF AnchorIsSeen
  <2>. QED
    BY <2>1, <2>2
<1>6. CASE RefuseText
  BY <1>2, <1>4, <1>6 DEF RefuseText, Return, Forget, Go
<1>7. CASE Register
  <2>1. CASE OwnChange(seen) # 0
    <3>1. pc' = "post_statement" /\ where' = here /\ ~opening' /\ pc = "register"
      BY <1>7, <2>1 DEF Register, Restate, Go
    <3>2. HasAnchor(where)' = HasAnchor(here)
      BY <1>1, <3>1 DEF HasAnchor, Notes, Id
    <3>. QED
      BY <1>1, <1>2, <1>3, <3>1, <3>2 DEF AnchorIsSeen
  <2>2. CASE OwnChange(seen) = 0
    <3>1. ~IsRecord(here)
      <4>1. NotesOf(seen, "change") \subseteq 1..Len(messages)
        BY <1>1 DEF NotesOf, Id
      <4>2. NotesOf(seen, "change") = {}
        BY <1>1, <2>2, <4>1, Least DEF OwnChange
      <4>. QED
        BY <1>7, <4>2 DEF AnchorIsSeen, Register
    <3>2. CASE Fresh
      BY <1>2, <1>5, <3>1, <3>2
    <3>3. CASE pc' = "read_anchor" /\ ~opening'
      BY <1>1, <1>2, <1>3, <3>1, <3>3 DEF AnchorIsSeen, Posting
    <3>. QED
      BY <1>7, <2>2, <3>2, <3>3 DEF Register, Restate, Go
  <2>. QED
    BY <2>1, <2>2
<1>8. CASE ReadAnchor
  <2>1. ~IsRecord(here)
    BY <1>8 DEF ReadAnchor, AnchorIsSeen, Registering
  <2>2. CASE Fresh
    BY <1>2, <1>5, <2>1, <2>2
  <2>3. CASE /\ pc' = "read_record" /\ ~opening' /\ anchor' = anchor
             /\ where' = messages[anchor].topic
    BY <1>1, <1>2, <1>3, <2>1, <2>3 DEF AnchorIsSeen, Posting
  <2>. QED
    BY <1>8, <2>2, <2>3 DEF ReadAnchor, Restate, Go
<1>9. CASE ReadRecord
  <2>1. ~IsRecord(here)
    BY <1>9 DEF ReadRecord, AnchorIsSeen, Registering
  <2>2. CASE Fresh
    BY <1>2, <1>5, <2>1, <2>2
  <2>3. CASE pc = "read_record" /\ pc' = "find_live" /\ UNCHANGED <<anchor, where, opening>>
    BY <1>1, <1>2, <1>3, <2>1, <2>3 DEF AnchorIsSeen, Posting
  <2>. QED
    BY <1>9, <2>2, <2>3 DEF ReadRecord, Go
<1>10. CASE FindLive
  <2>1. /\ pc = "find_live" /\ pc' = "post_statement" /\ where' = LiveName(where)
        /\ opening' = opening /\ ~IsRecord(here) /\ where \in Topic
    BY <1>1, <1>10 DEF FindLive, Go, AnchorIsSeen, Registering, TypeOK
  <2>2. anchor \in Id /\ messages[anchor].topic.base = where.base /\ ~messages[anchor].gone
    BY <2>1 DEF AnchorIsSeen, Anchored, IInv, Placed, Restates
  <2>3. messages[anchor].topic \in {where, Twin(where)}
    <3>1. messages[anchor].topic \in Topic
      BY <1>1, <2>2, LengthIsNat DEF Message
    <3>. QED
      BY <2>1, <2>2, <3>1 DEF Twin, Topic
  <2>4. InTopic(LiveName(where)) # {}
    BY <2>2, <2>3 DEF LiveName, InTopic
  <2>5. IsRecord(LiveName(where)) => HasAnchor(LiveName(where))
    BY <2>4 DEF Anchored, InTopic
  <2>6. IsRecord(where') => HasAnchor(where)'
    BY <1>1, <2>1, <2>5 DEF HasAnchor, Notes, Id
  <2>. QED
    BY <1>1, <1>2, <1>3, <2>1, <2>6 DEF AnchorIsSeen
<1>. QED
  BY <1>6, <1>7, <1>8, <1>9, <1>10

LEMMA PostingKeepsAnchors ==
  ASSUME IInv, Anchored, AnchorIsSeen,
         PostChange \/ PostOrigin \/ PostStatement \/ PostDoc \/ PostState \/ PostRecord
  PROVE  Anchored' /\ AnchorIsSeen'
<1>1. /\ pc \in Posting /\ SendPost /\ UNCHANGED <<here, seen>> /\ pc \in Registering /\ pc # "idle"
      /\ TypeOK /\ here \in Topic /\ where \in Topic /\ seen \subseteq Id
  BY DEF PostChange, PostOrigin, PostStatement, PostDoc, PostState, PostRecord, recordVars, Posting,
         Registering, IInv, TypeOK
<1>2. /\ Lasting /\ Anchored'
      /\ \A m \in Topic : HasAnchor(m) => HasAnchor(m)'
      /\ pc = "post_change" => \A m \in Topic : m = where => HasAnchor(m)'
  BY <1>1, PostKeepsAnchors
<1>3. HasAnchor(here) => HasAnchor(here)'
  BY <1>1, <1>2 DEF HasAnchor
<1>4. Asking' = Asking
  BY <1>1, <1>2, AskingLasts
<1>5. \A k \in seen' : messages'[k].topic.base = here'.base
  BY <1>1, <1>2 DEF AnchorIsSeen, Lasting, SameButTick
<1>6. CASE pc' = "registered" /\ opening' = FALSE
  BY <1>1, <1>2, <1>3, <1>5, <1>6 DEF AnchorIsSeen, Registering, Posting
<1>7. CASE /\ UNCHANGED <<where, opening>>
           /\ pc' \in Posting \ {"post_change"} /\ pc' \in Registering
           /\ pc' \in {"post_statement", "post_doc"} \/ opening
  <2>1. IsRecord(where) => HasAnchor(where)'
    BY <1>1, <1>2, <1>7 DEF AnchorIsSeen, HasAnchor
  <2>. QED
    BY <1>1, <1>2, <1>3, <1>4, <1>5, <1>7, <2>1 DEF AnchorIsSeen, Posting
<1>8. \/ pc' = "registered" /\ opening' = FALSE
      \/ /\ UNCHANGED <<where, opening>>
         /\ pc' \in Posting \ {"post_change"} /\ pc' \in Registering
         /\ pc' \in {"post_statement", "post_doc"} \/ opening
  BY DEF PostChange, PostOrigin, PostStatement, PostDoc, PostState, PostRecord, recordVars, Posting,
         Registering, Return, Forget, Go, IInv, Placed, Opens
<1>. QED
  BY <1>6, <1>7, <1>8

LEMMA FailingKeepsAnchors ==
  ASSUME IInv, Anchored, AnchorIsSeen, CallFails
  PROVE  Anchored' /\ AnchorIsSeen'
<1>1. /\ pc' = "registered" /\ opening' = FALSE /\ UNCHANGED <<here, seen>>
      /\ pc # "idle" /\ TypeOK /\ here \in Topic /\ seen \subseteq Id
  BY DEF CallFails, Return, Forget, Go, Registering, IInv, TypeOK
<1>2. /\ Anchored' /\ \A m \in Topic : HasAnchor(m) => HasAnchor(m)'
      /\ \A k \in seen : messages'[k].topic.base = messages[k].topic.base
  <2>1. CASE UNCHANGED messages
    BY <2>1, NothingSent
  <2>2. CASE pc \in Posting /\ SendPost
    BY <1>1, <2>2, PostKeepsAnchors DEF Lasting, SameButTick
  <2>. QED
    BY <2>1, <2>2 DEF CallFails
<1>3. HasAnchor(here) => HasAnchor(here)'
  BY <1>1, <1>2 DEF HasAnchor
<1>. QED
  BY <1>1, <1>2, <1>3 DEF AnchorIsSeen, Registering, Posting

LEMMA AnchoredNext ==
  IInv /\ (Undisturbed => Anchored /\ AnchorIsSeen) /\ [Next]_vars => (Undisturbed => Anchored /\ AnchorIsSeen)'
<1> SUFFICES ASSUME IInv, Undisturbed => Anchored /\ AnchorIsSeen, [Next]_vars, Undisturbed'
             PROVE  Anchored' /\ AnchorIsSeen'
  OBVIOUS
<1>1. Anchored /\ AnchorIsSeen /\ ~Happens("delete") /\ ~Happens("resolve_midway")
  BY UnspentBefore DEF Undisturbed, Event
<1>2. CASE People
  BY <1>1, <1>2, PeopleKeepAnchors
<1>3. CASE UNCHANGED vars
  <2>1. UNCHANGED <<messages, pc, recordVars>>
    BY <1>3 DEF vars
  <2>2. Anchored' /\ \A m : HasAnchor(m)' <=> HasAnchor(m)
    BY <1>1, <2>1, NothingSent
  <2>3. Lasting
    BY <2>1, LengthIsNat DEF IInv, TypeOK, Lasting, SameButTick
  <2>4. HasAnchor(here)' = HasAnchor(here) /\ HasAnchor(where)' = HasAnchor(where)
    BY <2>1 DEF HasAnchor, Notes, Id, recordVars
  <2>5. /\ pc # "idle" /\ IsRecord(here) => HasAnchor(here)'
        /\ pc \in Posting \ {"post_change"} /\ IsRecord(where) => HasAnchor(where)'
    BY <1>1, <2>4 DEF AnchorIsSeen
  <2>. QED
    BY <1>1, <2>1, <2>2, <2>3, <2>5, ServingIsStill
<1>. QED
  BY <1>1, <1>2, <1>3, ServingKeepsAnchors, ReadingKeepsAnchors, PostingKeepsAnchors, FailingKeepsAnchors
     DEF Next, RecordStep

(* "Registering again does not fork it", however many messages, servings,  *)
(* resolves and decisions there are.  Asked at the origin, a conversation  *)
(* opens one record, while nothing failed, was deleted or killed and no    *)
(* origin was renamed while it was served or into a topic that was there.  *)
(* Asked in a record, none is opened, whatever failed or was killed,       *)
(* unless something was deleted or a record resolved while a serving was   *)
(* at work in it.                                                          *)
THEOREM NoFork == Spec => []RegisteringAgainDoesNotFork
<1>1. Init => (Calm => CalmInv)
  <2> SUFFICES ASSUME Init PROVE CalmInv
    OBVIOUS
  <2>1. Id = {} /\ \A kind : Notes(kind) = {}
    BY DEF Init, Id, Notes
  <2>. QED
    BY <2>1 DEF Init, CalmInv, CalmNotes, OnePerConversation, SeenIsHere, LinksAreSeen, LinkedOrWritten,
                LookedUp, OpenedOnce, Restates
<1>2. IInv /\ (Calm => CalmInv) => OriginOpensOne
  <2> SUFFICES ASSUME IInv, CalmInv, NEW i \in Notes("origin"), NEW j \in Notes("origin"),
                      AskedIn(i) = AskedIn(j), ~IsRecord(AskedIn(i))
               PROVE  messages[i].val = messages[j].val
    BY DEF OriginOpensOne, Calm
  <2>1. PICK k \in Notes("change") : BaseOf(k) = messages[i].val /\ BaseOf(k) \in Id
    BY DEF CalmInv, CalmNotes, Originated
  <2>2. PICK l \in Notes("change") : BaseOf(l) = messages[j].val /\ BaseOf(l) \in Id
    BY DEF CalmInv, CalmNotes, Originated
  <2>3. PICK c : c = messages[BaseOf(k)].topic
    OBVIOUS
  <2>4. c \in Conversation
    BY <2>1, <2>3, RecordTopics DEF Conversation, AskedIn
  <2>5. From(k, c) /\ From(l, c)
    BY <2>1, <2>2, <2>3 DEF From, AskedIn
  <2>. QED
    BY <2>1, <2>2, <2>4, <2>5 DEF CalmInv, CalmNotes, OnePerConversation
<1>3. Init => (Undisturbed => Anchored /\ AnchorIsSeen)
  <2> SUFFICES ASSUME Init PROVE Anchored /\ AnchorIsSeen
    OBVIOUS
  <2>1. Id = {} /\ \A kind : Notes(kind) = {}
    BY DEF Init, Id, Notes
  <2>. QED
    BY <2>1 DEF Init, Anchored, AnchorIsSeen, Posting, Registering
<1>4. (Undisturbed => Anchored /\ AnchorIsSeen) => RecordOpensNone
  BY DEF Undisturbed, Anchored, RecordOpensNone
<1>5. OriginOpensOne /\ RecordOpensNone => RegisteringAgainDoesNotFork
  BY DEF RegisteringAgainDoesNotFork
<1>. QED
  BY <1>1, <1>2, <1>3, <1>4, <1>5, CalmNext, AnchoredNext, ServedAlways, TopicInvariance, PTL DEF Spec
=============================================================================
