----------------------------- MODULE LedgerProofs ------------------------------
(***************************************************************************)
(* What the ledger keeps, whoever uses it: for any certificates, any       *)
(* number of calls side by side and any number of events.                  *)
(***************************************************************************)
EXTENDS Ledger, FiniteSetTheorems, SequenceTheorems, WellFoundedInduction, TLAPS

(* Induction over the natural numbers, for a set of them.                  *)
LEMMA NatHasLeast ==
  ASSUME NEW T, T \subseteq Nat, T # {}
  PROVE  \E x \in T : \A y \in T : x =< y
<1> DEFINE Below == {0..x : x \in T}
<1>1. Below \subseteq FiniteSubsetsOf(Nat)
  <2>1. \A x \in T : IsFiniteSet(0..x)
    BY FS_Interval
  <2>. QED
    BY <2>1 DEF FiniteSubsetsOf
<1>2. PICK S \in Below : \A R \in Below : ~ (<<R, S>> \in StrictSubsetOrdering(Nat))
  <2>1. Below # {}
    OBVIOUS
  <2> HIDE DEF Below
  <2>. QED
    BY <1>1, <2>1, FS_StrictSubsetOrderingWellFounded, WFMin
<1>3. PICK x \in T : S = 0..x
  OBVIOUS
<1>4. ASSUME NEW y \in T, y < x PROVE FALSE
  <2>1. 0..y \subseteq 0..x /\ x \in 0..x /\ x \notin 0..y
    BY <1>4
  <2>2. <<0..y, 0..x>> \in StrictSubsetOrdering(Nat)
    BY <2>1 DEF StrictSubsetOrdering
  <2>. QED
    BY <1>2, <1>3, <2>2
<1>. QED
  BY <1>4

LEMMA SetInduction ==
  ASSUME NEW S, 0 \in S, \A n \in Nat : n \in S => n + 1 \in S
  PROVE  Nat \subseteq S
<1> SUFFICES ASSUME Nat \ S # {} PROVE FALSE
  OBVIOUS
<1>1. PICK n \in Nat \ S : \A m \in Nat \ S : n =< m
  BY NatHasLeast
<1>2. n # 0 /\ n - 1 \in Nat /\ n - 1 \in S
  BY <1>1
<1>. QED
  BY <1>2

LEMMA Greatest ==
  ASSUME NEW n \in Nat, NEW T, T \subseteq 1..n, T # {}
  PROVE  Max(T) \in T /\ \A x \in T : Max(T) >= x
<1> DEFINE Rest == {n - x : x \in T}
<1>1. PICK y \in Rest : \A z \in Rest : y =< z
  <2>1. \A x \in T : n - x \in Nat
    OBVIOUS
  <2>2. Rest \subseteq Nat /\ Rest # {}
    BY <2>1
  <2>. QED
    BY <2>2, NatHasLeast
<1>2. n - y \in T /\ \A x \in T : n - y >= x
  BY <1>1
<1>. QED
  BY <1>2 DEF Max
LEMMA GreatestIs ==
  ASSUME NEW n \in Nat, NEW T, T \subseteq 1..n, n \in T
  PROVE  Max(T) = n
<1>1. Max(T) \in 1..n /\ Max(T) >= n
  BY Greatest
<1>. QED
  BY <1>1

-----------------------------------------------------------------------------
(* _fold reads the events one by one: f is what it makes of any of the     *)
(* first n of them.                                                        *)
Nothing == [s \in Serial |-> "none"]

IsFold(f, events, n) ==
  f = [I \in SUBSET (1..n) |->
         IF I = {} THEN Nothing ELSE Applied(f[I \ {Max(I)}], events[Max(I)])]

LEMMA FoldExists ==
  ASSUME NEW events, NEW n \in Nat
  PROVE  \E f : IsFold(f, events, n)
<1> DEFINE S == {k \in Nat : \E f : IsFold(f, events, k)}
<1>1. 0 \in S
  <2>1. 1..0 = {} /\ SUBSET (1..0) = {{}}
    OBVIOUS
  <2>2. IsFold([I \in {{}} |-> Nothing], events, 0)
    BY <2>1 DEF IsFold
  <2>. QED
    BY <2>2
<1>2. ASSUME NEW k \in Nat, k \in S PROVE k + 1 \in S
  <2>1. PICK f : IsFold(f, events, k)
    BY <1>2
  <2> DEFINE Value(I) == IF k + 1 \in I THEN Applied(f[I \ {k + 1}], events[k + 1]) ELSE f[I]
             g == [I \in SUBSET (1..k+1) |-> Value(I)]
  <2>2. ASSUME NEW I \in SUBSET (1..k+1)
        PROVE  g[I] = IF I = {} THEN Nothing ELSE Applied(g[I \ {Max(I)}], events[Max(I)])
    <3>1. CASE k + 1 \in I
      <4>1. Max(I) = k + 1
        <5>1. k + 1 \in Nat /\ I \subseteq 1..k+1
          OBVIOUS
        <5>. QED
          BY <3>1, <5>1, GreatestIs
      <4>2. I \ {k + 1} \in SUBSET (1..k+1) /\ k + 1 \notin I \ {k + 1}
        OBVIOUS
      <4>3. g[I \ {k + 1}] = f[I \ {k + 1}]
        BY <4>2
      <4>4. g[I] = Applied(f[I \ {k + 1}], events[k + 1])
        BY <3>1
      <4>. QED
        BY <3>1, <4>1, <4>3, <4>4
    <3>2. CASE I # {} /\ k + 1 \notin I
      <4>1. I \in SUBSET (1..k)
        BY <3>2
      <4>2. Max(I) \in I
        BY <3>2, <4>1, Greatest
      <4>3. I \ {Max(I)} \in SUBSET (1..k+1) /\ k + 1 \notin I \ {Max(I)}
        BY <3>2
      <4>4. g[I \ {Max(I)}] = f[I \ {Max(I)}] /\ g[I] = f[I]
        BY <3>2, <4>3
      <4>5. f[I] = Applied(f[I \ {Max(I)}], events[Max(I)])
        BY <2>1, <3>2, <4>1 DEF IsFold
      <4>. QED
        BY <3>2, <4>4, <4>5
    <3>3. CASE I = {}
      <4>1. f[{}] = Nothing
        BY <2>1 DEF IsFold
      <4>. QED
        BY <3>3, <4>1
    <3>. QED
      BY <3>1, <3>2, <3>3
  <2>3. g = [I \in SUBSET (1..k+1) |-> g[I]]
    OBVIOUS
  <2> HIDE DEF g
  <2>4. IsFold(g, events, k + 1)
    BY <2>2, <2>3 DEF IsFold
  <2>. QED
    BY <2>4
<1>. QED
  <2> HIDE DEF S
  <2>1. Nat \subseteq S
    BY <1>1, <1>2, SetInduction
  <2>. QED
    BY <2>1 DEF S

(* Events after the first n do not change what it makes of those.          *)
LEMMA FoldIsOne ==
  ASSUME NEW n \in Nat, NEW m \in Nat, n =< m, NEW f, NEW g, NEW events, NEW more,
         IsFold(f, events, n), IsFold(g, more, m), \A i \in 1..n : events[i] = more[i]
  PROVE  f[1..n] = g[1..n]
<1> DEFINE S == {k \in Nat : k =< n => f[1..k] = g[1..k]}
<1>1. 0 \in S
  <2>1. 1..0 = {} /\ f[{}] = Nothing /\ g[{}] = Nothing
    BY DEF IsFold
  <2>. QED
    BY <2>1
<1>2. ASSUME NEW k \in Nat, k \in S PROVE k + 1 \in S
  <2> SUFFICES ASSUME k + 1 =< n PROVE f[1..k+1] = g[1..k+1]
    OBVIOUS
  <2>1. Max(1..k+1) = k + 1
    BY GreatestIs
  <2>2. (1..k+1) \ {k + 1} = 1..k /\ 1..k+1 # {} /\ 1..k+1 \subseteq 1..n /\ 1..k+1 \subseteq 1..m
    OBVIOUS
  <2>3. f[1..k+1] = Applied(f[(1..k+1) \ {Max(1..k+1)}], events[Max(1..k+1)])
    BY <2>1, <2>2 DEF IsFold
  <2>4. g[1..k+1] = Applied(g[(1..k+1) \ {Max(1..k+1)}], more[Max(1..k+1)])
    BY <2>1, <2>2 DEF IsFold
  <2>5. events[k + 1] = more[k + 1] /\ f[1..k] = g[1..k]
    BY <1>2
  <2>. QED
    BY <2>1, <2>2, <2>3, <2>4, <2>5, Zenon
<1>. QED
  <2> HIDE DEF S
  <2>1. n \in S
    BY <1>1, <1>2, SetInduction
  <2>. QED
    BY <2>1 DEF S

LEMMA FoldIs ==
  ASSUME NEW T, NEW events \in Seq(T)
  PROVE  \E f : IsFold(f, events, Len(events)) /\ Fold(events) = f[1..Len(events)]
<1>1. DOMAIN events = 1..Len(events) /\ Len(events) \in Nat
  BY LenProperties
<1>2. Fold(events) = (CHOOSE f : IsFold(f, events, Len(events)))[1..Len(events)]
  BY <1>1 DEF Fold, FoldLeft, MapThenFoldSet, IsFold, Nothing
<1>. QED
  BY <1>1, <1>2, FoldExists

LEMMA FoldOfNone == Fold(<<>>) = Nothing
<1>1. <<>> \in Seq(Event) /\ Len(<<>>) = 0 /\ 1..0 = {}
  OBVIOUS
<1>2. PICK f : IsFold(f, <<>>, 0) /\ Fold(<<>>) = f[{}]
  BY <1>1, FoldIs
<1>. QED
  BY <1>2 DEF IsFold

LEMMA FoldOfAppend ==
  ASSUME NEW events \in Seq(Event), NEW e \in Event
  PROVE  Fold(Append(events, e)) = Applied(Fold(events), e)
<1> DEFINE more == Append(events, e)
           n == Len(events)
<1>1. more \in Seq(Event) /\ n \in Nat /\ Len(more) = n + 1 /\ more[n + 1] = e
      /\ \A i \in 1..n : events[i] = more[i]
  OBVIOUS
<1>2. PICK f : IsFold(f, events, n) /\ Fold(events) = f[1..n]
  BY FoldIs
<1>3. PICK g : IsFold(g, more, n + 1) /\ Fold(more) = g[1..n+1]
  BY <1>1, FoldIs
<1> HIDE DEF more, n
<1>4. Max(1..n+1) = n + 1 /\ (1..n+1) \ {n + 1} = 1..n /\ 1..n+1 # {}
  <2>1. n + 1 \in 1..n+1 /\ n + 1 \in Nat
    BY <1>1
  <2>2. Max(1..n+1) = n + 1
    BY <2>1, GreatestIs
  <2>3. \A k \in Nat : (1..k+1) \ {k + 1} = 1..k
    OBVIOUS
  <2>. QED
    BY <1>1, <2>1, <2>2, <2>3, Zenon
<1>5. g[1..n+1] = Applied(g[1..n], e)
  BY <1>1, <1>3, <1>4 DEF IsFold
<1>6. g[1..n] = f[1..n]
  BY <1>1, <1>2, <1>3, FoldIsOne
<1>. QED
  BY <1>2, <1>3, <1>5, <1>6 DEF more
-----------------------------------------------------------------------------
(* What was appended to a sequence changes no earlier moment of it.        *)
LEMMA PastIsPast ==
  ASSUME NEW S, NEW seq \in Seq(S), NEW e \in S, NEW n \in 0..Len(seq)
  PROVE  SubSeq(Append(seq, e), 1, n) = SubSeq(seq, 1, n)
OBVIOUS

(* The present is the last moment.                                         *)
LEMMA PresentIsLast ==
  ASSUME NEW S, NEW seq \in Seq(S)
  PROVE  SubSeq(seq, 1, Len(seq)) = seq
OBVIOUS

(* An entry that was checked stays, and no event takes it away.            *)
CheckedInv ==
  /\ Fold(log) \in [Serial -> EntryState]
  /\ \A c \in Cli : cli[c].at = "append" /\ cli[c].action # "register" => Get(cli[c].serial) # "none"

LedgerInv == LedgerTypeOK /\ CheckedInv /\ NothingFallsOnNothing /\ EntryIsLastEvent

LEMMA LedgerInitInv == LedgerInit => LedgerInv
<1> SUFFICES ASSUME LedgerInit PROVE LedgerInv
  OBVIOUS
<1>1. log = <<>> /\ log \in Seq(Event) /\ Len(log) = 0 /\ Fold(log) = Nothing
  BY FoldOfNone DEF LedgerInit
<1>2. cli \in [Cli -> CliCall] /\ \A c \in Cli : cli[c] = Idle /\ cli[c].at = "idle"
  BY DEF LedgerInit, Idle, CliCall
<1>3. LedgerTypeOK /\ NothingFallsOnNothing
  BY <1>1, <1>2 DEF LedgerTypeOK, NothingFallsOnNothing
<1>4. CheckedInv
  BY <1>1, <1>2 DEF CheckedInv, Nothing, EntryState
<1>5. EntryIsLastEvent
  <2>1. \A s : {i \in 1..Len(log) : log[i].serial = s} = {}
    BY <1>1
  <2>. QED
    BY <1>1, <2>1 DEF EntryIsLastEvent, Get, Nothing
<1>. QED
  BY <1>3, <1>4, <1>5 DEF LedgerInv

(* An event that somebody was free to write is the last of its serial, and *)
(* the entries of the others stay.                                         *)
LEMMA EventInv ==
  ASSUME LedgerInv, NEW e \in Event, log' = Append(log, e),
         e.action # "register" => Get(e.serial) # "none"
  PROVE  /\ log' \in Seq(Event)
         /\ Fold(log') \in [Serial -> EntryState]
         /\ \A s \in Serial : Get(s) # "none" => Get(s)' # "none"
         /\ Get(e.serial)' # "none"
         /\ \A i \in 1..Len(log') : log'[i].action # "register" => GetAt(log[i].serial, i - 1)' # "none"
         /\ EntryIsLastEvent'
<1> DEFINE n == Len(log)
           state == IF e.action = "revoke" THEN "revoked" ELSE "active"
<1>1. /\ log \in Seq(Event) /\ n \in Nat
      /\ Fold(log) \in [Serial -> EntryState] /\ e.serial \in Serial
  BY DEF LedgerInv, LedgerTypeOK, CheckedInv, Event
<1>2. /\ log' \in Seq(Event) /\ Len(log') = n + 1 /\ log'[n + 1] = e
      /\ \A i \in 1..n : log'[i] = log[i]
  BY <1>1
<1>3. Fold(log') = [Fold(log) EXCEPT ![e.serial] = state]
  <2>1. Fold(log') = Applied(Fold(log), e)
    BY <1>1, FoldOfAppend
  <2>2. e.action = "register" \/ Fold(log)[e.serial] # "none"
    BY DEF Get
  <2>. QED
    BY <2>1, <2>2 DEF Applied
<1>4. /\ Fold(log') \in [Serial -> EntryState]
      /\ Get(e.serial)' = state
      /\ \A s \in Serial \ {e.serial} : Get(s)' = Get(s)
  BY <1>1, <1>3 DEF Get, EntryState
<1>5. ASSUME NEW i \in 1..Len(log'), log'[i].action # "register"
      PROVE  GetAt(log[i].serial, i - 1)' # "none"
  <2>1. CASE i \in 1..n
    <3>1. i - 1 \in 0..n
      BY <1>1, <2>1
    <3>2. SubSeq(log', 1, i - 1) = SubSeq(log, 1, i - 1)
      BY <1>1, <3>1, PastIsPast
    <3>. QED
      BY <1>2, <1>5, <2>1, <3>2 DEF LedgerInv, NothingFallsOnNothing, GetAt
  <2>2. CASE i = n + 1
    <3>1. n \in 0..n /\ i - 1 = n
      BY <1>1, <2>2
    <3>2. SubSeq(log', 1, i - 1) = log
      BY <1>1, <3>1, PastIsPast, PresentIsLast
    <3>. QED
      BY <1>2, <1>5, <2>2, <3>2 DEF GetAt, Get
  <2>. QED
    BY <1>1, <1>2, <2>1, <2>2
<1>6. ASSUME NEW s \in Serial
      PROVE  LET events == {i \in 1..Len(log') : log'[i].serial = s}
             IN Get(s)' = IF events = {} THEN "none"
                          ELSE IF log'[Max(events)].action = "revoke" THEN "revoked" ELSE "active"
  <2> DEFINE before == {i \in 1..n : log[i].serial = s}
             events == {i \in 1..Len(log') : log'[i].serial = s}
  <2>1. CASE s = e.serial
    <3>1. n + 1 \in events /\ events \subseteq 1..n+1 /\ n + 1 \in Nat
      BY <1>1, <1>2, <2>1
    <3> HIDE DEF events
    <3>2. Max(events) = n + 1
      BY <3>1, GreatestIs
    <3>. QED
      BY <1>2, <1>4, <2>1, <3>1, <3>2 DEF events
  <2>2. CASE s # e.serial
    <3>1. events = before
      BY <1>1, <1>2, <2>2
    <3>2. before # {} => log'[Max(before)] = log[Max(before)]
      <4> HIDE DEF before
      <4>1. before \subseteq 1..n
        BY DEF before
      <4>2. before # {} => Max(before) \in before
        BY <1>1, <4>1, Greatest
      <4>. QED
        BY <1>2, <4>1, <4>2
    <3>3. Get(s) = IF before = {} THEN "none"
                   ELSE IF log[Max(before)].action = "revoke" THEN "revoked" ELSE "active"
      BY DEF LedgerInv, EntryIsLastEvent
    <3> HIDE DEF before, events
    <3>4. Get(s)' = Get(s)
      BY <1>4, <2>2
    <3>. QED
      BY <3>1, <3>2, <3>3, <3>4 DEF events
  <2>. QED
    BY <2>1, <2>2
<1>. QED
  BY <1>2, <1>4, <1>5, <1>6 DEF EntryIsLastEvent

(* A call changes its own place only.                                      *)
LEMMA CallInv ==
  ASSUME LedgerTypeOK, NEW c \in Cli, NEW new \in CliCall, cli' = [cli EXCEPT ![c] = new],
         new # Idle => new.action \in Action /\ new.serial \in Serial
  PROVE  /\ cli' \in [Cli -> CliCall]
         /\ \A b \in Cli : cli'[b] # Idle => cli'[b].action \in Action /\ cli'[b].serial \in Serial
         /\ cli'[c] = new /\ \A b \in Cli \ {c} : cli'[b] = cli[b]
BY DEF LedgerTypeOK

LEMMA CallsKeepLedger ==
  ASSUME LedgerInv, NEW c \in Cli, CliStep(c)
  PROVE  LedgerInv'
<1> DEFINE Goes(new) ==
      /\ new \in CliCall /\ cli' = [cli EXCEPT ![c] = new]
      /\ new # Idle => new.action \in Action /\ new.serial \in Serial
<1>1. LedgerTypeOK /\ cli[c] \in CliCall /\ Idle \in CliCall /\ Idle.at = "idle"
  BY DEF LedgerInv, LedgerTypeOK, CliCall, Idle
<1>2. ASSUME NEW new, Goes(new), UNCHANGED log,
             new.at = "append" /\ new.action # "register" => Get(new.serial) # "none",
             new.at # "report"
      PROVE  LedgerInv'
  <2>1. /\ cli' \in [Cli -> CliCall]
        /\ \A b \in Cli : cli'[b] # Idle => cli'[b].action \in Action /\ cli'[b].serial \in Serial
        /\ cli'[c] = new /\ \A b \in Cli \ {c} : cli'[b] = cli[b]
    BY <1>1, <1>2, CallInv
  <2>2. LedgerTypeOK'
    BY <1>2, <2>1 DEF LedgerInv, LedgerTypeOK
  <2>3. CheckedInv' /\ NothingFallsOnNothing'
    BY <1>2, <2>1 DEF LedgerInv, CheckedInv, NothingFallsOnNothing, Get, GetAt
  <2>4. EntryIsLastEvent'
    BY <1>2 DEF LedgerInv, EntryIsLastEvent, Get
  <2>. QED
    BY <2>2, <2>3, <2>4 DEF LedgerInv
<1>3. ASSUME NEW action \in Action, NEW s \in Serial, Command(c, action, s) PROVE LedgerInv'
  <2> DEFINE new == [at |-> IF action = "register" THEN "append" ELSE "check",
                     action |-> action, serial |-> s]
  <2>1. /\ new \in CliCall /\ new.action \in Action /\ new.serial \in Serial
        /\ new.at # "report" /\ (new.at = "append" => new.action = "register")
    BY DEF CliCall
  <2>2. UNCHANGED log /\ cli' = [cli EXCEPT ![c] = new]
    BY <1>3 DEF Command
  <2> HIDE DEF new
  <2>. QED
    BY <1>2, <2>1, <2>2
<1>4. ASSUME UNCHANGED log, cli' = [cli EXCEPT ![c] = Idle] PROVE LedgerInv'
  BY <1>1, <1>2, <1>4
<1>5. ASSUME NEW step \in {"append", "report"}, cli[c] # Idle
      PROVE  LET new == [cli[c] EXCEPT !.at = step]
             IN /\ new \in CliCall /\ new.at = step
                /\ new.action = cli[c].action /\ new.serial = cli[c].serial
                /\ new.action \in Action /\ new.serial \in Serial
  BY <1>1, <1>5 DEF LedgerTypeOK, CliCall
<1>6. CASE Check(c)
  <2>1. CASE Get(cli[c].serial) = "none"
    BY <1>4, <1>6, <2>1 DEF Check
  <2>2. CASE Get(cli[c].serial) # "none"
    <3> DEFINE new == [cli[c] EXCEPT !.at = "append"]
    <3>1. UNCHANGED log /\ cli' = [cli EXCEPT ![c] = new] /\ cli[c] # Idle
      BY <1>1, <1>6, <2>2 DEF Check, AtStep
    <3>2. /\ new \in CliCall /\ new.at = "append" /\ new.serial = cli[c].serial
          /\ new.action \in Action /\ new.serial \in Serial
      BY <1>5, <3>1
    <3> HIDE DEF new
    <3>. QED
      BY <1>2, <2>2, <3>1, <3>2
  <2>. QED
    BY <2>1, <2>2
<1>7. CASE AppendTo(c)
  <2> PICK e : e = [action |-> cli[c].action, serial |-> cli[c].serial]
    OBVIOUS
  <2> DEFINE new == [cli[c] EXCEPT !.at = "report"]
  <2>1. cli[c] # Idle /\ cli[c].at = "append"
    BY <1>1, <1>7 DEF AppendTo
  <2>2. e \in Event /\ log' = Append(log, e) /\ e.action = cli[c].action /\ e.serial = cli[c].serial
    BY <1>1, <1>7, <2>1 DEF AppendTo, Event, LedgerTypeOK
  <2>3. /\ new \in CliCall /\ new.at = "report" /\ new.serial = cli[c].serial
        /\ new.action \in Action /\ new.serial \in Serial
    BY <1>5, <2>1
  <2>4. cli' = [cli EXCEPT ![c] = new]
    BY <1>7 DEF AppendTo, AtStep
  <2> HIDE DEF new
  <2>5. /\ log' \in Seq(Event)
        /\ Fold(log') \in [Serial -> EntryState]
        /\ \A s \in Serial : Get(s) # "none" => Get(s)' # "none"
        /\ Get(e.serial)' # "none"
        /\ \A i \in 1..Len(log') : log'[i].action # "register" => GetAt(log[i].serial, i - 1)' # "none"
        /\ EntryIsLastEvent'
    <3>1. e.action # "register" => Get(e.serial) # "none"
      BY <2>1, <2>2 DEF LedgerInv, CheckedInv
    <3>. QED
      BY <2>2, <3>1, EventInv
  <2>6. /\ cli' \in [Cli -> CliCall]
        /\ \A b \in Cli : cli'[b] # Idle => cli'[b].action \in Action /\ cli'[b].serial \in Serial
        /\ cli'[c] = new /\ \A b \in Cli \ {c} : cli'[b] = cli[b]
    BY <1>1, <2>3, <2>4, CallInv
  <2>7. LedgerTypeOK'
    BY <2>5, <2>6 DEF LedgerTypeOK
  <2>8. \A b \in Cli : cli[b].at # "idle" => cli[b].serial \in Serial
    BY <1>1 DEF LedgerTypeOK
  <2>9. CheckedInv'
    <3>1. ASSUME NEW b \in Cli, cli'[b].at = "append", cli'[b].action # "register"
          PROVE  Get(cli[b].serial)' # "none"
      <4>1. b # c /\ cli'[b] = cli[b]
        BY <2>3, <2>6, <3>1
      <4>2. cli[b].serial \in Serial /\ Get(cli[b].serial) # "none"
        BY <2>8, <3>1, <4>1 DEF LedgerInv, CheckedInv
      <4>. QED
        BY <2>5, <4>1, <4>2
    <3>. QED
      BY <2>5, <3>1 DEF CheckedInv
  <2>10. NothingFallsOnNothing'
    <3>1. ASSUME NEW b \in Cli, cli'[b].at = "report"
          PROVE  Get(cli[b].serial)' # "none"
      <4>1. CASE b = c
        BY <2>2, <2>3, <2>5, <2>6, <4>1 DEF Get
      <4>2. CASE b # c
        <5>1. cli'[b] = cli[b] /\ cli[b].serial \in Serial /\ Get(cli[b].serial) # "none"
          BY <2>6, <2>8, <3>1, <4>2 DEF LedgerInv, NothingFallsOnNothing
        <5>. QED
          BY <2>5, <5>1
      <4>. QED
        BY <4>1, <4>2
    <3>. QED
      BY <2>5, <3>1 DEF NothingFallsOnNothing
  <2>. QED
    BY <2>5, <2>7, <2>9, <2>10 DEF LedgerInv
<1>. QED
  BY <1>3, <1>4, <1>6, <1>7 DEF CliStep, Report, CliDies

(* Nobody else writes either.                                              *)
LEMMA LedgerRests == LedgerInv /\ UNCHANGED ledgerVars => LedgerInv'
BY DEF ledgerVars, LedgerInv, LedgerTypeOK, CheckedInv, NothingFallsOnNothing, EntryIsLastEvent, Get, GetAt
=============================================================================
