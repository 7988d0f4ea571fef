------------------------------ MODULE AuthProofs ------------------------------
(***************************************************************************)
(* Nobody is admitted whom the ledger, or Nautobot, has kept out during    *)
(* the whole request: for any number of certificates, calls and changes.   *)
(***************************************************************************)
EXTENDS Auth, LedgerProofs

Inv == TypeOK /\ AskedInv /\ LedgerInv
-----------------------------------------------------------------------------
LEMMA InitInv == Init => Inv
<1> SUFFICES ASSUME Init PROVE Inv
  OBVIOUS
<1> USE AuthAssumption DEF Init, NoCall
<1>1. LedgerInv /\ LedgerTypeOK /\ Len(log) = 0
  BY LedgerInitInv DEF LedgerInv, LedgerInit
<1>2. TypeOK
  <2>1. PICK nodes \in [Uuid -> Lifecycle] : nautobot = <<nodes>>
    OBVIOUS
  <2>. QED
    BY <1>1, <2>1 DEF TypeOK
<1>3. AskedInv
  BY DEF AskedInv
<1>. QED
  BY <1>1, <1>2, <1>3 DEF Inv

(* A call of `cagent-ledger` adds an event, or none: what was active at a  *)
(* moment of a request was active at that moment.                          *)
LEMMA CliInv ==
  ASSUME Inv, NEW c \in Cli, CliStep(c), UNCHANGED <<nautobot, call>>
  PROVE  Inv'
<1>1. LedgerInv'
  BY CallsKeepLedger DEF Inv
<1>2. UNCHANGED log \/ \E e \in Event : log' = Append(log, e)
  <2>1. CASE AppendTo(c)
    <3>1. cli[c] # Idle
      BY <2>1 DEF AppendTo, Idle
    <3>2. [action |-> cli[c].action, serial |-> cli[c].serial] \in Event
      BY <3>1 DEF Inv, TypeOK, LedgerTypeOK, Event
    <3>. QED
      BY <2>1, <3>2 DEF AppendTo
  <2>. QED
    BY <2>1 DEF CliStep, Command, Check, Report, CliDies
<1>3. log \in Seq(Event) /\ log' \in Seq(Event) /\ Len(log) =< Len(log')
      /\ \A n \in 0..Len(log) : SubSeq(log', 1, n) = SubSeq(log, 1, n)
  <2>1. log \in Seq(Event)
    BY DEF Inv, TypeOK, LedgerTypeOK
  <2>. QED
    BY <1>2, <2>1, PastIsPast
<1>4. TypeOK'
  BY <1>1, <1>3 DEF Inv, TypeOK, LedgerInv
<1>5. ASSUME NEW h \in Handler, ActiveMeanwhile(h) PROVE ActiveMeanwhile(h)'
  <2>1. PICK n \in call[h].events..Len(log) : GetAt(call[h].serial, n) = "active"
    BY <1>5 DEF ActiveMeanwhile
  <2>2. n \in 0..Len(log) /\ n \in call[h].events..Len(log')
    BY <1>3 DEF Inv, TypeOK
  <2>3. GetAt(call[h].serial, n)' = "active"
    BY <1>3, <2>1, <2>2 DEF GetAt
  <2>. QED
    BY <2>2, <2>3 DEF ActiveMeanwhile
<1>6. AskedInv'
  BY <1>5 DEF Inv, AskedInv, ValidMeanwhile, IsValidAt
<1>. QED
  BY <1>1, <1>4, <1>6 DEF Inv

(* A handler asks the ledger, then Nautobot, and believes what it is told. *)
LEMMA HandlerInv ==
  ASSUME TypeOK, AskedInv, NEW h \in Handler,
         (\E s \in Serial : Arrive(h, s)) \/ AskLedger(h) \/ AskNautobot(h) \/ Done(h)
  PROVE  TypeOK' /\ AskedInv'
<1> USE AuthAssumption
<1>1. UNCHANGED <<log, cli, nautobot>>
  BY DEF Arrive, AskLedger, AskLedgerOf, AskNautobot, Done, ledgerVars
<1>2. \A g \in Handler \ {h} : call'[g] = call[g]
  BY DEF Arrive, AskLedger, AskLedgerOf, AskNautobot, Done, Goes, TypeOK
<1>3. ASSUME NEW g \in Handler, call'[g] = call[g]
      PROVE  /\ call'[g].at \in {"node", "admitted"} => ActiveMeanwhile(g)'
             /\ call'[g].at = "admitted" => ValidMeanwhile(g)'
  BY <1>1, <1>3 DEF AskedInv, ActiveMeanwhile, ValidMeanwhile, GetAt, IsValidAt
<1> DEFINE CallType == [at: {"idle", "ledger", "node", "admitted", "refused"},
                        serial: Serial \cup {"none"}, events: Nat, changes: Nat]
<1>0. ASSUME NEW r \in CallType, call' = [call EXCEPT ![h] = r],
             r.at # "idle" => r.serial \in Serial /\ r.changes > 0,
             r.events =< Len(log), r.changes =< Len(nautobot)
      PROVE  TypeOK'
  <2>1. call' \in [Handler -> CallType] /\ call'[h] = r
    BY <1>0 DEF TypeOK
  <2>2. \A g \in Handler :
          /\ call'[g].at # "idle" => call'[g].serial \in Serial /\ call'[g].changes > 0
          /\ call'[g].events =< Len(log) /\ call'[g].changes =< Len(nautobot)
    BY <1>0, <1>2, <2>1 DEF TypeOK
  <2>. QED
    BY <1>1, <2>1, <2>2 DEF TypeOK, LedgerTypeOK
<1>9. ASSUME NEW step \in {"node", "admitted", "refused"}, Goes(h, step), call[h].at # "idle"
      PROVE  TypeOK'
  <2>. DEFINE r == [call[h] EXCEPT !.at = step]
  <2>1. r \in CallType /\ call' = [call EXCEPT ![h] = r]
    BY <1>9 DEF TypeOK, Goes
  <2>2. r.serial = call[h].serial /\ r.events = call[h].events /\ r.changes = call[h].changes
    BY DEF TypeOK
  <2>3. /\ call[h].serial \in Serial /\ call[h].changes > 0
        /\ call[h].events =< Len(log) /\ call[h].changes =< Len(nautobot)
    BY <1>9 DEF TypeOK
  <2>. HIDE DEF r
  <2>. QED
    BY <1>0, <2>1, <2>2, <2>3
<1>4. CASE \E s \in Serial : Arrive(h, s)
  <2>1. PICK s \in Serial : Arrive(h, s)
    BY <1>4
  <2>2. TypeOK'
    <3>. DEFINE r == [at |-> "ledger", serial |-> s, events |-> Len(log), changes |-> Len(nautobot)]
    <3>1. Len(log) \in Nat /\ Len(nautobot) \in Nat /\ Len(nautobot) > 0
      BY DEF TypeOK
    <3>2. r \in CallType /\ call' = [call EXCEPT ![h] = r]
      BY <2>1, <3>1 DEF Arrive
    <3>3. /\ r.serial \in Serial /\ r.changes > 0
          /\ r.events =< Len(log) /\ r.changes =< Len(nautobot)
      BY <2>1, <3>1
    <3>. HIDE DEF r
    <3>. QED
      BY <1>0, <3>2, <3>3
  <2>3. call'[h].at = "ledger"
    BY <2>1 DEF TypeOK, Arrive
  <2>. QED
    BY <1>2, <1>3, <2>2, <2>3 DEF AskedInv
<1>5. CASE AskLedger(h)
  <2>1. TypeOK'
    <3>1. PICK step \in {"node", "refused"} : Goes(h, step)
      BY <1>5 DEF AskLedger, AskLedgerOf
    <3>2. call[h].at # "idle"
      BY <1>5 DEF AskLedger, AskLedgerOf
    <3>. QED
      BY <1>9, <3>1, <3>2
  <2>2. call'[h].at \in {"node", "refused"} /\ call'[h].serial = call[h].serial
        /\ call'[h].events = call[h].events
    BY <1>5 DEF TypeOK, AskLedger, AskLedgerOf, Goes
  <2>3. ASSUME call'[h].at = "node" PROVE ActiveMeanwhile(h)'
    <3>1. Fold(log)[call[h].serial] = "active"
      BY <1>5, <2>3 DEF TypeOK, AskLedger, AskLedgerOf, Goes
    <3>2. SubSeq(log', 1, Len(log')) = log
      BY <1>1, PresentIsLast DEF TypeOK, LedgerTypeOK
    <3>3. GetAt(call[h].serial, Len(log))' = "active"
      BY <1>1, <2>2, <3>1, <3>2 DEF GetAt
    <3>4. Len(log') \in call'[h].events..Len(log')
      BY <2>1 DEF TypeOK
    <3>. QED
      BY <3>3, <3>4 DEF ActiveMeanwhile
  <2>. QED
    BY <1>2, <1>3, <2>1, <2>2, <2>3 DEF AskedInv
<1>6. CASE AskNautobot(h)
  <2>. PICK step \in {"admitted", "refused"} : Goes(h, step)
    BY <1>6 DEF AskNautobot
  <2>1. TypeOK'
    <3>1. call[h].at # "idle"
      BY <1>6 DEF AskNautobot
    <3>. QED
      BY <1>9, <3>1
  <2>2. /\ call[h].at = "node" /\ call'[h].at \in {"admitted", "refused"}
        /\ call'[h].serial = call[h].serial
        /\ call'[h].events = call[h].events /\ call'[h].changes = call[h].changes
    BY <1>6 DEF TypeOK, AskNautobot, Goes
  <2>3. ActiveMeanwhile(h)'
    BY <1>1, <2>2 DEF AskedInv, ActiveMeanwhile, GetAt
  <2>4. ASSUME call'[h].at = "admitted" PROVE ValidMeanwhile(h)'
    <3>1. IsValidAt(NodeOf[call[h].serial], Len(nautobot))
      BY <1>6, <2>4 DEF TypeOK, AskNautobot, Goes
    <3>2. Len(nautobot') \in call'[h].changes..Len(nautobot')
      BY <2>1 DEF TypeOK
    <3>. QED
      BY <1>1, <2>2, <3>1, <3>2 DEF ValidMeanwhile, IsValidAt
  <2>. QED
    BY <1>2, <1>3, <2>1, <2>2, <2>3, <2>4 DEF AskedInv
<1>7. CASE Done(h)
  <2>1. TypeOK'
    BY <1>1, <1>7 DEF TypeOK, LedgerTypeOK, Done, NoCall
  <2>2. call'[h].at = "idle"
    BY <1>7 DEF TypeOK, Done, NoCall
  <2>. QED
    BY <1>2, <1>3, <2>1, <2>2 DEF AskedInv
<1>. QED
  BY <1>4, <1>5, <1>6, <1>7

(* A node changes.                                                         *)
LEMMA ChangeNodeInv ==
  ASSUME TypeOK, AskedInv, NEW u \in Uuid, NEW lifecycle \in Lifecycle, ChangeNode(u, lifecycle)
  PROVE  TypeOK' /\ AskedInv'
<1> DEFINE nodes == [nautobot[Len(nautobot)] EXCEPT ![u] = lifecycle]
<1>1. UNCHANGED <<log, cli, call>> /\ nautobot' = Append(nautobot, nodes)
  BY DEF ChangeNode, ledgerVars
<1>2. nautobot \in Seq([Uuid -> Lifecycle]) /\ nodes \in [Uuid -> Lifecycle]
  <2>1. nautobot[Len(nautobot)] \in [Uuid -> Lifecycle]
    BY DEF TypeOK
  <2>. QED
    BY <2>1 DEF TypeOK
<1>. HIDE DEF nodes
<1>3. /\ nautobot' \in Seq([Uuid -> Lifecycle]) /\ nautobot' # <<>>
      /\ Len(nautobot') = Len(nautobot) + 1
      /\ \A n \in 1..Len(nautobot) : nautobot'[n] = nautobot[n]
  BY <1>1, <1>2
<1>4. TypeOK'
  BY <1>1, <1>3 DEF TypeOK, LedgerTypeOK
<1>5. ASSUME NEW h \in Handler, ValidMeanwhile(h), call[h].at = "admitted" PROVE ValidMeanwhile(h)'
  BY <1>1, <1>3, <1>5 DEF TypeOK, ValidMeanwhile, IsValidAt
<1>. QED
  BY <1>1, <1>4, <1>5 DEF AskedInv, ActiveMeanwhile, GetAt
-----------------------------------------------------------------------------
LEMMA NextInv == Inv /\ [Next]_vars => Inv'
<1> SUFFICES ASSUME Inv, [Next]_vars PROVE Inv'
  OBVIOUS
<1>1. CASE UNCHANGED vars
  <2>1. LedgerInv'
    BY <1>1, LedgerRests DEF Inv, vars
  <2>. QED
    BY <1>1, <2>1 DEF Inv, vars, ledgerVars, TypeOK, LedgerTypeOK, AskedInv, ActiveMeanwhile,
                      ValidMeanwhile, GetAt, IsValidAt
<1>2. ASSUME NEW h \in Handler,
             (\E s \in Serial : Arrive(h, s)) \/ AskLedger(h) \/ AskNautobot(h) \/ Done(h)
      PROVE  Inv'
  <2>1. UNCHANGED ledgerVars
    BY <1>2 DEF Arrive, AskLedger, AskLedgerOf, AskNautobot, Done
  <2>. QED
    BY <1>2, <2>1, HandlerInv, LedgerRests DEF Inv
<1>3. ASSUME NEW u \in Uuid, NEW lifecycle \in Lifecycle, ChangeNode(u, lifecycle) PROVE Inv'
  BY <1>3, ChangeNodeInv, LedgerRests DEF Inv, ChangeNode
<1>. QED
  BY <1>1, <1>2, <1>3, CliInv DEF Next

(* The invariant of Auth: every variable keeps its type, and what a        *)
(* handler was told was so at some moment of its request.                  *)
THEOREM AuthInvariance == Spec => []Inv
BY InitInv, NextInv, PTL DEF Spec

(* auth.py: an admitted certificate was active during the request.         *)
THEOREM RevocationHolds == Spec => []RevocationIsImmediate
<1>1. Inv => RevocationIsImmediate
  BY DEF Inv, AskedInv, RevocationIsImmediate
<1>. QED
  BY <1>1, AuthInvariance, PTL

(* auth.py: an admitted node was valid during the request.                 *)
THEOREM PruneHolds == Spec => []PruneIsRevocation
<1>1. Inv => PruneIsRevocation
  BY DEF Inv, AskedInv, PruneIsRevocation
<1>. QED
  BY <1>1, AuthInvariance, PTL

(* ledger.py, ledger_cli.py: an event never falls on a serial without an   *)
(* entry, although the check before it is not locked with it.              *)
THEOREM NoEventIsDropped == Spec => []NothingFallsOnNothing
<1>1. Inv => NothingFallsOnNothing
  BY DEF Inv, LedgerInv
<1>. QED
  BY <1>1, AuthInvariance, PTL

(* ledger.py, _fold: whatever calls wrote, the last event of a serial is   *)
(* its state.                                                              *)
THEOREM LastEventCounts == Spec => []EntryIsLastEvent
<1>1. Inv => EntryIsLastEvent
  BY DEF Inv, LedgerInv
<1>. QED
  BY <1>1, AuthInvariance, PTL
=============================================================================
