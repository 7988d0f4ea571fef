--------------------------- MODULE AgentTurnProofs ----------------------------
(***************************************************************************)
(* What holds of every history, budget and call: the turns shown are the   *)
(* newest that fit, and the note accounts for the others; a call is        *)
(* accepted exactly if it is in the surface, and so is what the `cagent`   *)
(* command composes.  And why a report keeps its file, for any number of   *)
(* reports, names and suffixes.                                            *)
(***************************************************************************)
EXTENDS AgentTurn, FiniteSetTheorems, SequenceTheorems, WellFoundedInduction, TLAPS

(* The incident files.                                                     *)
Steps == {"unwritten", "exists", "open", "write", "recorded", "dead"}

IncidentTypeOK ==
  /\ writer \in [Report -> [at: Steps, suffix: Nat \ {0}]]
  /\ beside \in [Report -> SUBSET Report]

Opened(p) == writer[p].at \in {"write", "recorded"}

(* A file that was opened is there: none is ever removed.                  *)
OpenedIsThere == \A p \in Report : Opened(p) => path_exists(PathOf(p))

(* Of two calls at work, each is beside the other.                         *)
AtWorkTogether ==
  \A p, q \in Report : p # q /\ AtWork(p) /\ AtWork(q) => q \in beside[p]

(* Who chose a name that another call opened did so before it was opened.  *)
RivalsAreBeside ==
  \A p, q \in Report :
    p # q /\ Opened(p) /\ writer[q].at \in {"open", "write"} /\ PathOf(q) = PathOf(p)
      => q \in beside[p]

(* ReportIsKept, and of a report not written yet that its file is empty,   *)
(* both of a rival whose name is final.                                    *)
Past(q) == writer[q].at \in {"write", "recorded", "dead"}
TakenFrom(p, q) ==
  /\ Past(q) /\ PathOf(q) = PathOf(p)
  /\ \E text \in {q, Empty, Mixed} : Holds(PathOf(p), text)
KeptOrTaken(p) ==
  \/ At(p, "write") /\ Holds(PathOf(p), Empty)
  \/ At(p, "recorded") /\ Holds(PathOf(p), p)
  \/ \E q \in beside[p] : TakenFrom(p, q)
Kept == \A p \in Report : Opened(p) => KeptOrTaken(p)

IncidentInv ==
  IncidentTypeOK /\ OpenedIsThere /\ AtWorkTogether /\ RivalsAreBeside /\ Kept
-----------------------------------------------------------------------------
LEMMA IncidentInitInv == IncidentInit => IncidentInv
<1> SUFFICES ASSUME IncidentInit PROVE IncidentInv
  OBVIOUS
<1>1. IncidentTypeOK
  BY DEF IncidentInit, IncidentTypeOK, Steps
<1>2. \A p \in Report : writer[p].at = "unwritten"
  BY DEF IncidentInit
<1> QED
  BY <1>1, <1>2 DEF IncidentInv, OpenedIsThere, AtWorkTogether, RivalsAreBeside, Kept,
     Opened, AtWork, At

(* A step of p to `next` under a name it keeps, and with the same calls    *)
(* beside it.                                                              *)
LEMMA StepOf ==
  ASSUME IncidentTypeOK, NEW p \in Report, NEW next \in Steps, WriterGoes(p, next), UNCHANGED beside
  PROVE  /\ IncidentTypeOK'
         /\ \A q \in Report : PathOf(q)' = PathOf(q)
         /\ \A q \in Report : q # p => writer'[q] = writer[q]
         /\ writer'[p].at = next
BY DEF IncidentTypeOK, WriterGoes, PathOf

(* What Put does to what is there.                                         *)
LEMMA PutKeeps ==
  ASSUME NEW f, NEW text, Put(f, text)
  PROVE  /\ \A g : path_exists(g)' <=> path_exists(g) \/ g = f
         /\ [path |-> f, text |-> text] \in files'
         /\ \A x \in files : x.path # f => x \in files'
<1>1. files' = {x \in files : x.path # f} \cup {[path |-> f, text |-> text]}
  BY DEF Put
<1>2. [path |-> f, text |-> text].path = f
  OBVIOUS
<1>3. \A x \in files : x.path # f => x \in files'
  BY <1>1
<1>4. \A x \in files' : x \in files \/ x.path = f
  BY <1>1, <1>2
<1>5. [path |-> f, text |-> text] \in files'
  BY <1>1
<1> QED
  BY <1>2, <1>3, <1>4, <1>5 DEF path_exists

LEMMA IncidentNextInv == IncidentInv /\ IncidentStep => IncidentInv'
<1> SUFFICES ASSUME IncidentInv, NEW p \in Report,
                    write_incident(p) \/ exists(p) \/ open(p) \/ write_text(p) \/ writer_dies(p)
             PROVE  IncidentInv'
  BY DEF IncidentStep
<1> USE DEF IncidentInv
<1>1. CASE write_incident(p)
  <2>1. IncidentTypeOK'
    BY <1>1 DEF write_incident, WriterGoes, IncidentTypeOK, Steps
  <2>2. /\ \A q \in Report : PathOf(q)' = PathOf(q)
        /\ \A q \in Report : q # p => writer'[q] = writer[q]
        /\ writer[p].at = "unwritten" /\ writer'[p].at = "exists" /\ files' = files
    BY <1>1 DEF write_incident, WriterGoes, IncidentTypeOK, PathOf, At
  <2>3. beside'[p] = {o \in Report : AtWork(o)}
    BY <1>1 DEF write_incident
  <2>4. \A q \in Report : q # p => beside'[q] = IF AtWork(q) THEN beside[q] \cup {p} ELSE beside[q]
    BY <1>1 DEF write_incident
  <2>5. OpenedIsThere'
    BY <2>2 DEF OpenedIsThere, Opened, path_exists
  <2>6. AtWorkTogether'
    BY <2>2, <2>3, <2>4 DEF AtWorkTogether, AtWork
  <2>7. RivalsAreBeside'
    <3> SUFFICES ASSUME NEW q \in Report, NEW r \in Report, q # r, Opened(q)',
                        writer'[r].at \in {"open", "write"}, PathOf(r) = PathOf(q)
                 PROVE  r \in beside'[q]
      BY <2>2 DEF RivalsAreBeside
    <3>1. q # p /\ r # p
      BY <2>2 DEF Opened
    <3>2. r \in beside[q]
      BY <2>2, <3>1 DEF RivalsAreBeside, Opened
    <3> QED
      BY <2>4, <3>1, <3>2
  <2>8. Kept'
    <3> SUFFICES ASSUME NEW q \in Report, Opened(q)' PROVE KeptOrTaken(q)'
      BY DEF Kept
    <3>1. q # p /\ writer'[q] = writer[q] /\ PathOf(q)' = PathOf(q) /\ beside[q] \subseteq beside'[q]
      BY <2>2, <2>4 DEF Opened
    <3>2. KeptOrTaken(q)
      BY <3>1 DEF Kept, Opened
    <3>3. \A r \in beside[q] : TakenFrom(q, r) => TakenFrom(q, r)'
      BY <2>2, <3>1 DEF IncidentTypeOK, Past, TakenFrom, Holds
    <3> QED
      BY <2>2, <3>1, <3>2, <3>3 DEF KeptOrTaken, At, Holds
  <2> QED
    BY <2>1, <2>5, <2>6, <2>7, <2>8
<1>2. CASE exists(p)
  <2>1. IncidentTypeOK'
    BY <1>2 DEF exists, At, IncidentTypeOK, Steps
  <2>2. /\ \A q \in Report : q # p => writer'[q] = writer[q] /\ PathOf(q)' = PathOf(q)
        /\ writer[p].at = "exists" /\ writer'[p].at \in {"exists", "open"}
        /\ beside' = beside /\ files' = files
    BY <1>2 DEF exists, IncidentTypeOK, PathOf, At
  <2>3. writer'[p].at = "open" => ~ path_exists(PathOf(p)) /\ PathOf(p)' = PathOf(p)
    BY <1>2 DEF exists, IncidentTypeOK, PathOf
  <2>4. OpenedIsThere'
    BY <2>2 DEF OpenedIsThere, Opened, path_exists
  <2>5. AtWorkTogether'
    BY <2>2 DEF AtWorkTogether, AtWork
  <2>6. RivalsAreBeside'
    BY <2>2, <2>3 DEF RivalsAreBeside, Opened, OpenedIsThere
  <2>7. Kept'
    <3> SUFFICES ASSUME NEW q \in Report, Opened(q)' PROVE KeptOrTaken(q)'
      BY DEF Kept
    <3>1. q # p /\ writer'[q] = writer[q] /\ PathOf(q)' = PathOf(q)
      BY <2>2 DEF Opened
    <3>2. KeptOrTaken(q)
      BY <3>1 DEF Kept, Opened
    <3>3. \A r \in beside[q] : TakenFrom(q, r) => TakenFrom(q, r)'
      BY <2>2, <3>1 DEF IncidentTypeOK, Past, TakenFrom, Holds
    <3> QED
      BY <2>2, <3>1, <3>2, <3>3 DEF KeptOrTaken, At, Holds
  <2> QED
    BY <2>1, <2>4, <2>5, <2>6, <2>7
<1>3. ASSUME NEW next \in {"write", "recorded"}, NEW text,
             WriterGoes(p, next), Put(PathOf(p), text), UNCHANGED beside,
             \/ At(p, "open") /\ next = "write" /\ text = Empty
             \/ At(p, "write") /\ next = "recorded" /\ text = p
             \/ At(p, "write") /\ next = "recorded" /\ text = Mixed /\ ~ Holds(PathOf(p), Empty)
      PROVE  IncidentInv'
  <2>1. /\ IncidentTypeOK'
        /\ \A q \in Report : PathOf(q)' = PathOf(q)
        /\ \A q \in Report : q # p => writer'[q] = writer[q]
        /\ writer'[p].at = next
    BY <1>3, StepOf DEF Steps
  <2>2. /\ \A g : path_exists(g)' <=> path_exists(g) \/ g = PathOf(p)
        /\ [path |-> PathOf(p), text |-> text] \in files'
        /\ \A x \in files : x.path # PathOf(p) => x \in files'
    BY <1>3, PutKeeps
  <2>3. OpenedIsThere'
    BY <2>1, <2>2 DEF OpenedIsThere, Opened
  <2>4. AtWorkTogether'
    BY <1>3, <2>1 DEF AtWorkTogether, AtWork, At
  <2>5. RivalsAreBeside'
    <3> SUFFICES ASSUME NEW q \in Report, NEW r \in Report, q # r, Opened(q)',
                        writer'[r].at \in {"open", "write"}, PathOf(r) = PathOf(q)
                 PROVE  r \in beside[q]
      BY <1>3, <2>1 DEF RivalsAreBeside
    <3>1. CASE q # p /\ r # p
      BY <2>1, <3>1 DEF RivalsAreBeside, Opened
    <3>2. CASE r = p
      BY <1>3, <2>1, <3>2 DEF RivalsAreBeside, Opened, At
    <3>3. CASE q = p
      <4>1. AtWork(p) /\ AtWork(r)
        BY <1>3, <2>1, <3>3 DEF AtWork, At
      <4> QED
        BY <3>3, <4>1 DEF AtWorkTogether
    <3> QED
      BY <3>1, <3>2, <3>3
  <2>6. Kept'
    <3> SUFFICES ASSUME NEW q \in Report, Opened(q)' PROVE KeptOrTaken(q)'
      BY DEF Kept
    <3>1. CASE q = p /\ (next = "write" \/ text = p)
      BY <1>3, <2>1, <2>2, <3>1 DEF KeptOrTaken, At, Holds
    <3>2. CASE q = p /\ next = "recorded" /\ text # p
      <4>1. PICK r \in beside[p] : TakenFrom(p, r)
        BY <1>3, <3>2 DEF Kept, KeptOrTaken, Opened, At, Empty, Mixed
      <4>2. Past(r)' /\ PathOf(r)' = PathOf(r) /\ r \in Report
        BY <2>1, <4>1 DEF IncidentTypeOK, Past, TakenFrom
      <4>3. TakenFrom(p, r)'
        BY <1>3, <2>1, <2>2, <3>2, <4>1, <4>2 DEF TakenFrom, Holds
      <4> QED
        BY <1>3, <3>2, <4>1, <4>3 DEF KeptOrTaken
    <3>3. CASE q # p /\ PathOf(q) = PathOf(p)
      <4>1. Opened(q)
        BY <2>1, <3>3 DEF Opened
      <4>2. p \in beside[q]
        BY <1>3, <3>3, <4>1 DEF RivalsAreBeside, At
      <4>3. TakenFrom(q, p)'
        BY <1>3, <2>1, <2>2, <3>3 DEF TakenFrom, Past, Holds
      <4> QED
        BY <1>3, <4>2, <4>3 DEF KeptOrTaken
    <3>4. CASE q # p /\ PathOf(q) # PathOf(p)
      <4>1. PathOf(q)' = PathOf(q) /\ writer'[q] = writer[q] /\ KeptOrTaken(q)
        BY <2>1, <3>4 DEF Kept, Opened
      <4>2. \A t : Holds(PathOf(q), t) => Holds(PathOf(q), t)'
        BY <2>2, <3>4, <4>1 DEF Holds
      <4>3. \A r \in beside[q] : TakenFrom(q, r) => TakenFrom(q, r)'
        BY <2>1, <4>1, <4>2 DEF IncidentTypeOK, Past, TakenFrom
      <4> QED
        BY <1>3, <4>1, <4>2, <4>3 DEF KeptOrTaken, At
    <3> QED
      BY <3>1, <3>2, <3>3, <3>4
  <2> QED
    BY <2>1, <2>3, <2>4, <2>5, <2>6
<1>4. CASE open(p)
  BY <1>3, <1>4 DEF open
<1>5. CASE write_text(p)
  BY <1>3, <1>5 DEF write_text
<1>6. CASE writer_dies(p)
  <2>1. WriterGoes(p, "dead") /\ UNCHANGED <<files, beside>> /\ AtWork(p)
    BY <1>6 DEF writer_dies
  <2>2. /\ IncidentTypeOK'
        /\ \A q \in Report : PathOf(q)' = PathOf(q)
        /\ \A q \in Report : q # p => writer'[q] = writer[q]
        /\ writer'[p].at = "dead"
    BY <2>1, StepOf DEF Steps
  <2>3. OpenedIsThere'
    BY <2>1, <2>2 DEF OpenedIsThere, Opened, path_exists
  <2>4. AtWorkTogether'
    BY <2>1, <2>2 DEF AtWorkTogether, AtWork
  <2>5. RivalsAreBeside'
    BY <2>1, <2>2 DEF RivalsAreBeside, Opened
  <2>6. Kept'
    <3> SUFFICES ASSUME NEW q \in Report, Opened(q)' PROVE KeptOrTaken(q)'
      BY DEF Kept
    <3>1. q # p /\ writer'[q] = writer[q] /\ PathOf(q)' = PathOf(q)
      BY <2>2 DEF Opened
    <3>2. KeptOrTaken(q)
      BY <3>1 DEF Kept, Opened
    <3>3. \A r \in beside[q] : TakenFrom(q, r) => TakenFrom(q, r)'
      BY <2>1, <2>2, <3>1 DEF IncidentTypeOK, Past, TakenFrom, Holds
    <3> QED
      BY <2>1, <3>1, <3>2, <3>3 DEF KeptOrTaken, At, Holds
  <2> QED
    BY <2>2, <2>3, <2>4, <2>5, <2>6
<1> QED
  BY <1>1, <1>2, <1>4, <1>5, <1>6

(* Nothing about the reports changes while none of their variables does.   *)
LEMMA IncidentQuiet == ASSUME IncidentInv, UNCHANGED incidentVars PROVE IncidentInv'
BY DEF IncidentInv, incidentVars, IncidentTypeOK, OpenedIsThere, AtWorkTogether,
       RivalsAreBeside, Kept, KeptOrTaken, TakenFrom, Opened, AtWork, At, Past, PathOf,
       path_exists, Holds

LEMMA KeptSuffices == IncidentInv => ReportIsKept
BY DEF IncidentInv, ReportIsKept, Kept, KeptOrTaken, TakenFrom, Taken, Opened, At
-----------------------------------------------------------------------------
(* The composed task and the vetted call.                                  *)
(* compose_task's loop: every turn is kept, dropped or still before it.    *)
Counted ==
  /\ turn =< Len(history)
  /\ task = NoTask => turn >= TooOld /\ Len(kept) + dropped + turn = Len(history)
  /\ NothingForgottenSilently

(* The token at i is the value of an option among `values`' others.        *)
FollowsOption(values, i) ==
  i > 1 /\ i - 1 \notin values /\ IsOption(Rest[i - 1]) /\ ~ Rest[i - 1].sep

(* validate's loop: `values` are the values among the tokens it is past,   *)
(* which it has accounted for, and the token before it is not one.         *)
PositionalsPast(values) ==
  {i \in DOMAIN Rest \ values : i < index /\ IsPositional(Rest[i])}

ReadSoFar(values) ==
  /\ \A i \in values : i < index
  /\ \A i \in DOMAIN Rest : i =< index => (i \in values <=> FollowsOption(values, i))
  /\ \A i \in DOMAIN Rest \ values : i < index =>
       IsSwitch(Rest[i]) \/ IsOption(Rest[i]) \/ IsPositional(Rest[i])
  /\ Cardinality(PositionalsPast(values)) = positionals

NctlInv ==
  /\ verdict = "none" => index = 1 /\ positionals = 0
  /\ verdict = "reading" =>
       /\ match \in NCTL_SUBCOMMANDS /\ IsPrefix(Plain(match.words), parts)
       /\ positionals =< match.extra
       /\ \E values \in SUBSET DOMAIN Rest : ReadSoFar(values)
  /\ SurfaceIsSound

IInv == TurnTypeOK /\ Counted /\ NctlInv
-----------------------------------------------------------------------------
LEMMA InitInv == Init => IInv
<1> SUFFICES ASSUME Init PROVE IInv
  OBVIOUS
<1> PICK turns \in SeqOf(BlockLength, MaxHistory) : ComposeBegins(turns)
  BY DEF Init
<1>1. turns \in Seq(BlockLength)
  BY DEF SeqOf
<1>2. TurnTypeOK
  BY <1>1, ComposeAssumption DEF Init, ComposeBegins, NctlIdle, TurnTypeOK, NoTask
<1>3. Counted
  BY <1>1, ComposeAssumption DEF ComposeBegins, Counted, TooOld, NothingForgottenSilently
<1>4. NctlInv
  BY DEF Init, NctlIdle, NctlInv, SurfaceIsSound
<1> QED
  BY <1>2, <1>3, <1>4 DEF IInv

(* While no call is under way nothing changes about it.                    *)
LEMMA NctlQuiet == ASSUME NctlInv, UNCHANGED nctlVars PROVE NctlInv'
<1>1. Rest' = Rest /\ UNCHANGED <<parts, match, index, positionals, verdict>>
  BY DEF nctlVars, Rest
<1>2. ASSUME NEW values PROVE ReadSoFar(values)' <=> ReadSoFar(values)
  BY <1>1 DEF ReadSoFar, FollowsOption, PositionalsPast
<1>3. SurfaceIsSound'
  BY <1>1 DEF NctlInv, SurfaceIsSound, InSurface
<1> QED
  BY <1>1, <1>2, <1>3 DEF NctlInv

(* A step of compose_task.                                                 *)
LEMMA ComposeInv ==
  ASSUME IInv, ComposeStep, UNCHANGED <<nctlVars, agent>>
  PROVE  IInv'
<1> USE DEF IInv, nctlVars
<1>1. history' = history /\ TooOld \in Nat /\ TooOld' = TooOld
  BY ComposeAssumption DEF ComposeStep, Keep, Drop, Return, Returns, TurnTypeOK, TooOld
<1>2. NctlInv'
  BY NctlQuiet
<1>3. CASE Keep
  <2>1. history[turn] \in Nat
    <3>1. turn \in 1..Len(history)
      BY <1>1, <1>3 DEF Keep, Looks, TurnTypeOK, Counted
    <3>2. history[turn] \in BlockLength
      BY <3>1 DEF TurnTypeOK
    <3> QED
      BY <3>2, ComposeAssumption
  <2>2. TurnTypeOK'
    <3>1. turn' \in Nat /\ kept' \in Seq(Nat)
      BY <1>1, <1>3 DEF Keep, Looks, TurnTypeOK
    <3>2. budget' \in Nat
      BY <1>3, <2>1 DEF Keep, TurnTypeOK
    <3> QED
      BY <1>3, <3>1, <3>2 DEF Keep, TurnTypeOK
  <2>3. Counted'
    <3>1. Len(kept') = Len(kept) + 1 /\ turn' = turn - 1 /\ turn > TooOld
      BY <1>3 DEF Keep, Looks, TurnTypeOK
    <3>2. task' = task /\ task = NoTask /\ dropped' = dropped
      BY <1>3 DEF Keep, Looks
    <3>3. Len(history) \in Nat /\ turn \in Nat /\ dropped \in Nat /\ Len(kept) \in Nat
      BY DEF TurnTypeOK
    <3>4. turn' =< Len(history) /\ turn' >= TooOld /\ Len(kept') + dropped' + turn' = Len(history)
      BY <1>1, <3>1, <3>2, <3>3 DEF Counted
    <3> QED
      BY <1>1, <3>2, <3>4 DEF Counted, NothingForgottenSilently
  <2> QED
    BY <1>2, <2>2, <2>3
<1>4. CASE Drop
  <2>1. TurnTypeOK'
    <3>1. turn' \in Nat /\ dropped' \in Nat
      BY <1>1, <1>4 DEF Drop, Looks, TurnTypeOK
    <3> QED
      BY <1>4, <3>1 DEF Drop, TurnTypeOK
  <2>2. Counted'
    BY <1>1, <1>4 DEF Drop, Looks, TurnTypeOK, Counted, NothingForgottenSilently
  <2> QED
    BY <1>2, <2>1, <2>2
<1>5. CASE Return
  <2>1. Reverse(kept) \in Seq(Nat) /\ Len(Reverse(kept)) = Len(kept)
    BY DEF Reverse, TurnTypeOK
  <2>2. task' = [turns |-> Reverse(kept), notShown |-> IF kept = <<>> THEN 0 ELSE dropped + TooOld]
    BY <1>5 DEF Return, Returns
  <2>3. TurnTypeOK'
    <3>1. task' \in [turns: Seq(Nat), notShown: Nat \cup {-1}]
      BY <1>1, <2>1, <2>2 DEF TurnTypeOK
    <3> QED
      BY <1>5, <3>1 DEF Return, Returns, TurnTypeOK
  <2>4. NothingForgottenSilently'
    <3> SUFFICES ASSUME Reverse(kept) # <<>>
                 PROVE  Len(Reverse(kept)) + task.notShown' = Len(history)
      BY <1>1, <2>2 DEF NothingForgottenSilently
    <3>1. kept # <<>>
      BY DEF Reverse
    <3>2. Len(kept) + dropped + TooOld = Len(history)
      BY <1>5 DEF Return, Returns, Counted
    <3> QED
      BY <1>1, <2>1, <2>2, <3>1, <3>2 DEF TurnTypeOK
  <2>5. Counted'
    BY <1>1, <1>5, <2>2, <2>4 DEF Return, Returns, Counted, NoTask, TurnTypeOK
  <2> QED
    BY <1>2, <2>3, <2>5
<1> QED
  BY <1>3, <1>4, <1>5 DEF ComposeStep

(* The run has the task.                                                   *)
LEMMA RunInv == ASSUME IInv, run PROVE IInv'
<1>1. TurnTypeOK'
  BY ComposeAssumption DEF IInv, run, TurnTypeOK, NoTask, nctlVars
<1>2. Counted'
  BY ComposeAssumption DEF run, Counted, TooOld, NothingForgottenSilently
<1>3. NctlInv'
  BY NctlQuiet DEF IInv, run
<1> QED
  BY <1>1, <1>2, <1>3 DEF IInv
-----------------------------------------------------------------------------
LEMMA SeqOfIsSeq ==
  ASSUME NEW S, NEW n \in Nat PROVE SeqOf(S, n) \subseteq Seq(S) /\ <<>> \in Seq(S)
<1> SUFFICES ASSUME NEW s \in SeqOf(S, n) PROVE s \in Seq(S)
  OBVIOUS
<1> PICK m \in 0..n : s \in [1..m -> S]
  BY DEF SeqOf
<1> QED
  OBVIOUS

(* What the command composes: the words of an entry, no more ids than it   *)
(* takes, switches, and an option with its value.                          *)
LEMMA PlainTokens ==
  ASSUME NEW names \in Seq(Name)
  PROVE  /\ Plain(names) \in Seq(Tok) /\ Len(Plain(names)) = Len(names)
         /\ \A i \in 1..Len(names) : Plain(names)[i] = Token(names[i], FALSE)
<1>1. \A i \in 1..Len(names) : Token(names[i], FALSE) \in Tok
  BY DEF Token, Tok
<1>2. Plain(names) = [i \in 1..Len(names) |-> Token(names[i], FALSE)]
  BY DEF Plain
<1>3. Plain(names) \in [1..Len(names) -> Tok]
  BY <1>1, <1>2
<1>4. Len(names) \in Nat
  OBVIOUS
<1>5. Plain(names) \in Seq(Tok)
  BY <1>3, <1>4
<1>6. Len(Plain(names)) = Len(names)
  BY <1>2, <1>4
<1> QED
  BY <1>2, <1>5, <1>6

Switches(flags) == \A i \in DOMAIN flags : IsSwitch(flags[i])

Composed(f, entry, json, detail, option) ==
  /\ entry.words = f.words /\ Plain(f.words) \in Seq(Tok) /\ Len(Plain(f.words)) = Len(f.words)
  /\ f.id \in Seq(Tok) /\ Len(f.id) =< entry.extra
  /\ compose(f) = Plain(f.words) \o f.id \o json \o detail \o option
  /\ Switches(json) /\ Switches(detail)
  /\ option = <<>> \/ (Len(option) = 2 /\ IsOption(option[1]) /\ ~ option[1].sep)

LEMMA ComposedPieces ==
  ASSUME NEW f \in Parsed(Values)
  PROVE  \E entry \in NCTL_SUBCOMMANDS, json, detail, option \in Seq(Tok) :
            Composed(f, entry, json, detail, option)
<1> PICK c \in build_parser :
      f \in [words : {c.words},
             id : IF c.id THEN SeqOf(Values, 1) ELSE {<<>>},
             switches : SUBSET c.switches,
             option : {<<>>} \cup (c.options \X Values)]
  BY DEF Parsed
<1>0. c.words \in Seq(Name) /\ c.options \subseteq Name /\ c.options \subseteq NCTL_OPTIONS
  <2>1. \A a, b \in Name : <<a>> \in Seq(Name) /\ <<a, b>> \in Seq(Name)
    OBVIOUS
  <2>2. {"status", "drift", "relations", "actual", "ops", "list", "show", "--host", "--limit",
         "--after-seq"} \subseteq Name
    BY DEF Name, NCTL_OPTIONS
  <2>3. \/ c.words \in {<<"status">>, <<"drift">>, <<"relations">>, <<"actual">>}
        \/ c.words \in {<<"ops", "list">>, <<"ops", "show">>}
    BY DEF build_parser, Command
  <2>5. {<<"status">>, <<"drift">>, <<"relations">>, <<"actual">>} \subseteq Seq(Name)
    BY <2>1, <2>2
  <2>6. {<<"ops", "list">>, <<"ops", "show">>} \subseteq Seq(Name)
    BY <2>1, <2>2
  <2>4. c.options \subseteq NCTL_OPTIONS /\ NCTL_OPTIONS \subseteq Name
    BY <2>2 DEF build_parser, Command, NCTL_OPTIONS
  <2> QED
    BY <2>3, <2>4, <2>5, <2>6
<1>1. f.words \in Seq(Name) /\ f.id \in Seq(Values) /\ Len(f.id) =< IF c.id THEN 1 ELSE 0
  <2>1. SeqOf(Values, 1) \subseteq Seq(Values) /\ <<>> \in Seq(Values)
    BY SeqOfIsSeq
  <2>2. ASSUME NEW id \in SeqOf(Values, 1) PROVE Len(id) =< 1
    <3>1. PICK m \in 0..1 : id \in [1..m -> Values]
      BY DEF SeqOf
    <3>2. Len(id) = m
      BY <3>1
    <3> QED
      BY <3>2
  <2>3. Len(<<>>) = 0
    OBVIOUS
  <2>4. IF c.id THEN f.id \in SeqOf(Values, 1) ELSE f.id = <<>>
    OBVIOUS
  <2>5. f.words = c.words
    OBVIOUS
  <2>6. CASE c.id
    BY <1>0, <2>1, <2>2, <2>4, <2>5, <2>6
  <2>7. CASE ~ c.id
    <3>1. f.id = <<>>
      BY <2>4, <2>7
    <3>2. f.id \in Seq(Values) /\ Len(f.id) = 0
      BY <2>1, <2>3, <3>1, Zenon
    <3> QED
      BY <1>0, <2>5, <2>7, <3>2
  <2> QED
    BY <2>6, <2>7
<1>2. f.option = <<>> \/ (f.option[1] \in NCTL_OPTIONS /\ f.option[1] \in Name /\ f.option[2] \in Values)
  BY <1>0
<1>3. Values \subseteq Tok
  BY DEF Values, Tok, Name
<1>4. PICK entry \in NCTL_SUBCOMMANDS : entry.words = c.words /\ entry.extra = IF c.id THEN 1 ELSE 0
  <2>1. PICK e : e = [words |-> c.words, extra |-> IF c.id THEN 1 ELSE 0]
    OBVIOUS
  <2>2. e \in NCTL_SUBCOMMANDS
    BY <2>1 DEF build_parser, Command, NCTL_SUBCOMMANDS
  <2> QED
    BY <2>1, <2>2
<1>5. /\ Plain(f.words) \in Seq(Tok) /\ Len(Plain(f.words)) = Len(f.words)
      /\ f.id \in Seq(Tok)
  <2>1. \A names \in Seq(Name) : Plain(names) \in Seq(Tok) /\ Len(Plain(names)) = Len(names)
    BY PlainTokens
  <2> QED
    BY <1>1, <1>3, <2>1
<1> DEFINE json == IF "--json" \in f.switches THEN Plain(<<"--json">>) ELSE <<>>
           detail == IF "--detail" \in f.switches THEN Plain(<<"--detail">>) ELSE <<>>
           option == IF f.option = <<>> THEN <<>> ELSE <<Token(f.option[1], FALSE), f.option[2]>>
<1>6. ASSUME NEW name \in NCTL_SWITCHES
      PROVE  Plain(<<name>>) \in Seq(Tok) /\ Switches(Plain(<<name>>))
  <2>1. <<name>> \in Seq(Name) /\ Len(<<name>>) = 1 /\ <<name>>[1] = name
    BY DEF Name
  <2>2. PICK names \in Seq(Name) : names = <<name>> /\ Len(names) = 1 /\ names[1] = name
    BY <2>1
  <2>3. PICK plain : plain = Plain(names)
    OBVIOUS
  <2>4. plain \in Seq(Tok) /\ Len(plain) = 1 /\ plain[1] = Token(name, FALSE)
    <3>1. /\ plain \in Seq(Tok) /\ Len(plain) = Len(names)
          /\ \A i \in 1..Len(names) : plain[i] = Token(names[i], FALSE)
      BY <2>3, PlainTokens, Zenon
    <3>2. 1 \in 1..Len(names) /\ Len(plain) = 1 /\ names[1] = name
      BY <2>2, <3>1
    <3> QED
      BY <3>1, <3>2, Zenon
  <2>5. IsSwitch(Token(name, FALSE))
    BY DEF IsSwitch, Token
  <2>6. \A i \in DOMAIN plain : i = 1
    BY <2>4
  <2> QED
    BY <2>2, <2>3, <2>4, <2>5, <2>6 DEF Switches
<1>7. /\ json \in Seq(Tok) /\ Switches(json)
      /\ detail \in Seq(Tok) /\ Switches(detail)
  <2>1. <<>> \in Seq(Tok) /\ Switches(<<>>)
    BY DEF Switches
  <2>2. "--json" \in NCTL_SWITCHES /\ "--detail" \in NCTL_SWITCHES
    BY DEF NCTL_SWITCHES
  <2> QED
    BY <1>6, <2>1, <2>2
<1>8. /\ option \in Seq(Tok)
      /\ option = <<>> \/ (Len(option) = 2 /\ IsOption(option[1]) /\ ~ option[1].sep)
  <2>1. CASE f.option = <<>>
    BY <2>1
  <2>2. CASE f.option # <<>>
    <3>1. PICK a, b : a = Token(f.option[1], FALSE) /\ b = f.option[2]
      OBVIOUS
    <3>2. a \in Tok /\ b \in Tok /\ IsOption(a) /\ ~ a.sep
      BY <1>2, <1>3, <2>2, <3>1 DEF Token, Tok, IsOption
    <3>3. option = <<a, b>>
      BY <2>2, <3>1
    <3> HIDE DEF option
    <3> QED
      BY <3>2, <3>3
  <2> QED
    BY <2>1, <2>2
<1>9. compose(f) = Plain(f.words) \o f.id \o json \o detail \o option
  BY DEF compose
<1> HIDE DEF json, detail, option
<1>10. f.words = c.words
  OBVIOUS
<1>11. Len(f.id) =< entry.extra
  BY <1>1, <1>4
<1>12. Composed(f, entry, json, detail, option)
  BY <1>4, <1>5, <1>7, <1>8, <1>9, <1>10, <1>11 DEF Composed
<1> QED
  BY <1>7, <1>8, <1>12

LEMMA ComposedTokens ==
  ASSUME NEW f \in Parsed(Values)
  PROVE  compose(f) \in Seq(Tok)
<1>1. PICK entry \in NCTL_SUBCOMMANDS, json, detail, option \in Seq(Tok) :
         Composed(f, entry, json, detail, option)
  BY ComposedPieces
<1> QED
  BY <1>1, ConcatProperties DEF Composed

LEMMA RestTokens ==
  ASSUME NEW tokens \in Seq(Tok), NEW entry \in NCTL_SUBCOMMANDS \cup {NoMatch}
  PROVE  /\ SubSeq(tokens, Len(entry.words) + 1, Len(tokens)) \in Seq(Tok)
         /\ Len(entry.words) \in Nat
<1>1. \A a, b : Len(<<a>>) = 1 /\ Len(<<a, b>>) = 2
  OBVIOUS
<1>2. Len(entry.words) \in Nat
  <2>1. CASE \E w \in {"status", "drift", "relations", "actual"} :
               entry = [words |-> <<w>>, extra |-> 0]
    BY <2>1, <1>1
  <2>2. CASE entry = [words |-> <<"ops", "list">>, extra |-> 0]
    BY <2>2, <1>1
  <2>3. CASE entry = [words |-> <<"ops", "show">>, extra |-> 1]
    BY <2>3, <1>1
  <2>4. CASE entry = NoMatch
    BY <2>4 DEF NoMatch
  <2> QED
    BY <2>1, <2>2, <2>3, <2>4 DEF NCTL_SUBCOMMANDS
<1> QED
  BY <1>2, SubSeqProperties

(* A call that begins.                                                     *)
LEMMA ValidateInv ==
  ASSUME IInv, NEW tokens \in Seq(Tok), NEW parsed \in {<<>>} \cup Parsed(Values),
         verdict = "none", Validate(tokens, parsed), UNCHANGED <<composeVars, agent>>
  PROVE  IInv'
<1>1. Counted'
  BY DEF IInv, composeVars, Counted, TooOld, NothingForgottenSilently
<1>2. index' = 1 /\ positionals' = 0 /\ parts' = tokens /\ form' = parsed
  BY DEF IInv, NctlInv, Validate
<1>3. CASE verdict' = "refused" /\ UNCHANGED match
  <2>1. TurnTypeOK'
    BY <1>2, <1>3 DEF IInv, TurnTypeOK, composeVars
  <2>2. NctlInv'
    BY <1>3 DEF NctlInv, SurfaceIsSound
  <2> QED
    BY <1>1, <2>1, <2>2 DEF IInv
<1>4. ASSUME NEW entry \in NCTL_SUBCOMMANDS, IsPrefix(Plain(entry.words), tokens),
             match' = entry, verdict' = "reading"
      PROVE  IInv'
  <2>1. TurnTypeOK'
    BY <1>2, <1>4 DEF IInv, TurnTypeOK, composeVars
  <2>2. ReadSoFar({})'
    <3>0. DOMAIN Rest' \subseteq Nat \ {0}
      <4>1. Rest' \in Seq(Tok)
        BY <2>1, RestTokens DEF TurnTypeOK, Rest
      <4> QED
        BY <4>1
    <3>1. PositionalsPast({})' = {}
      BY <1>2, <3>0 DEF PositionalsPast
    <3>2. Cardinality(PositionalsPast({})') = 0
      BY <3>1, FS_EmptySet
    <3>3. \A i \in DOMAIN Rest' : i =< 1 => ~ FollowsOption({}, i)'
      BY DEF FollowsOption
    <3> QED
      BY <1>2, <3>0, <3>2, <3>3 DEF ReadSoFar
  <2>3. entry.extra \in Nat
    BY DEF NCTL_SUBCOMMANDS
  <2>4. NctlInv'
    BY <1>2, <1>4, <2>2, <2>3 DEF NctlInv, SurfaceIsSound
  <2> QED
    BY <1>1, <2>1, <2>4 DEF IInv
<1> QED
  BY <1>3, <1>4 DEF Validate
-----------------------------------------------------------------------------
(* A step of validate's loop that goes on: the values past are `after`.    *)
LEMMA GoesOn ==
  ASSUME IInv, verdict = "reading", NEW n \in {1, 2}, Goes(n),
         positionals' \in Nat, positionals' =< match.extra,
         UNCHANGED <<composeVars, agent, verdict>>,
         \E after \in SUBSET DOMAIN Rest : ReadSoFar(after)'
  PROVE  IInv'
<1>1. index' = index + n /\ UNCHANGED <<parts, match, form>>
  BY DEF Goes
<1>2. TurnTypeOK'
  <2>1. index' \in Nat \ {0}
    BY <1>1 DEF IInv, TurnTypeOK
  <2>2. UNCHANGED <<history, turn, kept, budget, dropped, task, agent, verdict>>
    BY DEF composeVars
  <2> QED
    BY <1>1, <2>1, <2>2 DEF IInv, TurnTypeOK
<1>3. Counted'
  BY DEF IInv, composeVars, Counted, TooOld, NothingForgottenSilently
<1>4. Rest' = Rest
  BY <1>1 DEF Rest
<1>5. NctlInv'
  BY <1>1, <1>4 DEF IInv, NctlInv, SurfaceIsSound
<1> QED
  BY <1>2, <1>3, <1>5 DEF IInv

(* A switch, or an option with its value in the same token.                *)
LEMMA OneToken ==
  ASSUME IInv, Reads, NEW values \in SUBSET DOMAIN Rest, ReadSoFar(values),
         Goes(1), positionals' = positionals,
         IsSwitch(Rest[index]) \/ (IsOption(Rest[index]) /\ Rest[index].sep)
  PROVE  ReadSoFar(values)'
<1>1. Rest' = Rest /\ index' = index + 1 /\ index \in Nat \ {0}
  BY DEF Goes, Rest, IInv, TurnTypeOK
<1>2. Rest \in Seq(Tok) /\ index \in DOMAIN Rest
  BY <1>1, RestTokens DEF IInv, TurnTypeOK, Rest, Reads
<1>3. ~ IsPositional(Rest[index])
  BY DEF IsPositional, HasDash, IsSwitch, IsOption
<1>4. ~ (IsOption(Rest[index]) /\ ~ Rest[index].sep)
  BY DEF IsSwitch, IsOption, NCTL_SWITCHES, NCTL_OPTIONS
<1>5. PositionalsPast(values)' = PositionalsPast(values)
  BY <1>1, <1>2, <1>3 DEF PositionalsPast
<1>6. \A i \in DOMAIN Rest : i =< index + 1 => (i \in values <=> FollowsOption(values, i))
  <2> SUFFICES ASSUME NEW i \in DOMAIN Rest, i =< index + 1
               PROVE  i \in values <=> FollowsOption(values, i)
    OBVIOUS
  <2>1. CASE i =< index
    BY <2>1 DEF ReadSoFar
  <2>2. CASE i = index + 1
    BY <2>2, <1>1, <1>4 DEF ReadSoFar, FollowsOption
  <2> QED
    BY <1>1, <1>2, <2>1, <2>2
<1>7. \A i \in DOMAIN Rest : FollowsOption(values, i)' <=> FollowsOption(values, i)
  BY <1>1 DEF FollowsOption
<1>8. \A i \in DOMAIN Rest \ values : i < index + 1 =>
        IsSwitch(Rest[i]) \/ IsOption(Rest[i]) \/ IsPositional(Rest[i])
  BY <1>1, <1>2 DEF ReadSoFar
<1>9. \A i \in values : i < index + 1
  BY <1>1, <1>2 DEF ReadSoFar
<1> QED
  BY <1>1, <1>5, <1>6, <1>7, <1>8, <1>9 DEF ReadSoFar

(* An option and the token behind it, if there is one.                     *)
LEMMA TwoTokens ==
  ASSUME IInv, Reads, NEW values \in SUBSET DOMAIN Rest, ReadSoFar(values),
         Goes(2), positionals' = positionals,
         IsOption(Rest[index]), ~ Rest[index].sep,
         NEW after, after = values \cup ({index + 1} \cap DOMAIN Rest)
  PROVE  ReadSoFar(after)'
<1>1. Rest' = Rest /\ index' = index + 2 /\ index \in Nat \ {0}
  BY DEF Goes, Rest, IInv, TurnTypeOK
<1>2. Rest \in Seq(Tok) /\ index \in DOMAIN Rest
  BY <1>1, RestTokens DEF IInv, TurnTypeOK, Rest, Reads
<1>3. ~ IsPositional(Rest[index])
  BY DEF IsPositional, HasDash, IsOption
<1>4. index \notin values /\ \A i \in values : i < index /\ i \in Nat
  BY <1>1, <1>2 DEF ReadSoFar
<1>5. PositionalsPast(after)' = PositionalsPast(values)
  <2>1. \A i \in DOMAIN Rest :
          i \notin after /\ i < index + 2 /\ IsPositional(Rest[i])
            <=> i \notin values /\ i < index /\ IsPositional(Rest[i])
    BY <1>1, <1>2, <1>3, <1>4
  <2> QED
    BY <1>1, <2>1 DEF PositionalsPast
<1>6. \A i \in DOMAIN Rest : i =< index + 2 => (i \in after <=> FollowsOption(after, i))
  <2> SUFFICES ASSUME NEW i \in DOMAIN Rest, i =< index + 2
               PROVE  i \in after <=> FollowsOption(after, i)
    OBVIOUS
  <2>0. i \in Nat \ {0}
    BY <1>2
  <2>1. CASE i =< index
    <3>1. (i \in after <=> i \in values) /\ (i - 1 \in after <=> i - 1 \in values)
      BY <2>0, <2>1, <1>1
    <3> QED
      BY <2>1, <3>1 DEF ReadSoFar, FollowsOption
  <2>2. CASE i = index + 1
    BY <2>2, <1>1, <1>4 DEF FollowsOption
  <2>3. CASE i = index + 2
    <3>1. index + 1 \in DOMAIN Rest
      BY <1>1, <1>2, <2>3
    <3> QED
      BY <1>1, <1>4, <2>3, <3>1 DEF FollowsOption
  <2> QED
    BY <1>1, <2>0, <2>1, <2>2, <2>3
<1>7. \A i \in DOMAIN Rest : FollowsOption(after, i)' <=> FollowsOption(after, i)
  BY <1>1 DEF FollowsOption
<1>8. \A i \in DOMAIN Rest \ after : i < index + 2 =>
        IsSwitch(Rest[i]) \/ IsOption(Rest[i]) \/ IsPositional(Rest[i])
  BY <1>1, <1>2 DEF ReadSoFar
<1>9. \A i \in after : i < index + 2
  BY <1>1, <1>4
<1> QED
  BY <1>1, <1>5, <1>6, <1>7, <1>8, <1>9 DEF ReadSoFar

LEMMA PositionalToken ==
  ASSUME IInv, Reads, NEW values \in SUBSET DOMAIN Rest, ReadSoFar(values),
         Goes(1), positionals' = positionals + 1, IsPositional(Rest[index])
  PROVE  ReadSoFar(values)'
<1>1. Rest' = Rest /\ index' = index + 1 /\ index \in Nat \ {0}
  BY DEF Goes, Rest, IInv, TurnTypeOK
<1>2. Rest \in Seq(Tok) /\ index \in DOMAIN Rest
  BY <1>1, RestTokens DEF IInv, TurnTypeOK, Rest, Reads
<1>3. ~ IsOption(Rest[index]) /\ index \notin values
  BY <1>1 DEF IsPositional, HasDash, IsOption, ReadSoFar
<1>4. Cardinality(PositionalsPast(values)') = positionals + 1
  <2>1. PositionalsPast(values)' = PositionalsPast(values) \cup {index}
    BY <1>1, <1>2, <1>3 DEF PositionalsPast
  <2>2. index \notin PositionalsPast(values)
    BY <1>1 DEF PositionalsPast
  <2>3. IsFiniteSet(PositionalsPast(values))
    <3>1. PositionalsPast(values) \subseteq 1..Len(Rest) /\ Len(Rest) \in Nat
      BY <1>2 DEF PositionalsPast
    <3>2. IsFiniteSet(1..Len(Rest))
      BY <3>1, FS_Interval
    <3> QED
      BY <3>1, <3>2, FS_Subset
  <2> QED
    BY <2>1, <2>2, <2>3, FS_AddElement DEF ReadSoFar
<1>5. \A i \in DOMAIN Rest : i =< index + 1 => (i \in values <=> FollowsOption(values, i))
  <2> SUFFICES ASSUME NEW i \in DOMAIN Rest, i =< index + 1
               PROVE  i \in values <=> FollowsOption(values, i)
    OBVIOUS
  <2>1. CASE i =< index
    BY <2>1 DEF ReadSoFar
  <2>2. CASE i = index + 1
    BY <2>2, <1>1, <1>3 DEF ReadSoFar, FollowsOption
  <2> QED
    BY <1>1, <1>2, <2>1, <2>2
<1>6. \A i \in DOMAIN Rest : FollowsOption(values, i)' <=> FollowsOption(values, i)
  BY <1>1 DEF FollowsOption
<1>7. \A i \in DOMAIN Rest \ values : i < index + 1 =>
        IsSwitch(Rest[i]) \/ IsOption(Rest[i]) \/ IsPositional(Rest[i])
  BY <1>1, <1>2 DEF ReadSoFar
<1>8. \A i \in values : i < index + 1
  BY <1>1, <1>2 DEF ReadSoFar
<1> QED
  BY <1>1, <1>4, <1>5, <1>6, <1>7, <1>8 DEF ReadSoFar

(* The end of the loop: all its tokens are past.                           *)
LEMMA AllRead ==
  ASSUME IInv, verdict = "reading", index > Len(Rest)
  PROVE  InSurface(parts)
<1>1. match \in NCTL_SUBCOMMANDS /\ IsPrefix(Plain(match.words), parts) /\ positionals =< match.extra
  BY DEF IInv, NctlInv
<1> PICK values \in SUBSET DOMAIN Rest : ReadSoFar(values)
  BY DEF IInv, NctlInv
<1>2. Rest \in Seq(Tok) /\ index \in Nat
  BY RestTokens DEF IInv, TurnTypeOK, Rest
<1>3. \A i \in DOMAIN Rest : i < index /\ i =< index
  BY <1>2
<1>4. AreValues(values, Rest)
  BY <1>3 DEF AreValues, ReadSoFar, FollowsOption
<1>5. {i \in DOMAIN Rest \ values : IsPositional(Rest[i])} = PositionalsPast(values)
  BY <1>3 DEF PositionalsPast
<1>6. Cardinality({i \in DOMAIN Rest \ values : IsPositional(Rest[i])}) =< match.extra
  BY <1>1, <1>5 DEF ReadSoFar
<1>7. \A i \in DOMAIN Rest \ values : IsSwitch(Rest[i]) \/ IsOption(Rest[i]) \/ IsPositional(Rest[i])
  BY <1>3 DEF ReadSoFar
<1> QED
  BY <1>1, <1>4, <1>6, <1>7 DEF InSurface, Rest
-----------------------------------------------------------------------------
(* A step of a call under way.                                             *)
LEMMA NctlStepInv ==
  ASSUME IInv, NctlStep, UNCHANGED <<composeVars, agent>>
  PROVE  IInv'
<1>1. Counted'
  BY DEF IInv, composeVars, Counted, TooOld, NothingForgottenSilently
<1>2. positionals \in Nat /\ match.extra \in Nat
  BY DEF IInv, TurnTypeOK, NCTL_SUBCOMMANDS, NoMatch
<1>3. ASSUME Reads
      PROVE  /\ positionals =< match.extra
             /\ \E values \in SUBSET DOMAIN Rest : ReadSoFar(values)
  BY <1>3 DEF Reads, IInv, NctlInv
<1>4. ASSUME Goes(1) \/ Goes(2) PROVE Rest' = Rest
  BY <1>4 DEF Goes, Rest
<1>5. CASE Switch
  <2> PICK values \in SUBSET DOMAIN Rest : ReadSoFar(values)
    BY <1>3, <1>5 DEF Switch
  <2>1. Goes(1) /\ positionals' = positionals /\ UNCHANGED verdict /\ verdict = "reading"
    BY <1>5 DEF Switch, Reads
  <2>2. ReadSoFar(values)'
    BY <1>5, <2>1, OneToken DEF Switch
  <2> QED
    BY <1>2, <1>3, <1>4, <1>5, <2>1, <2>2, GoesOn DEF Switch
<1>6. CASE Option
  <2> PICK values \in SUBSET DOMAIN Rest : ReadSoFar(values)
    BY <1>3, <1>6 DEF Option
  <2>1. positionals' = positionals /\ UNCHANGED verdict /\ verdict = "reading"
    BY <1>6 DEF Option, Reads
  <2>2. CASE Rest[index].sep
    <3>1. Goes(1)
      BY <1>6, <2>2 DEF Option
    <3>2. ReadSoFar(values)'
      BY <1>6, <2>1, <2>2, <3>1, OneToken DEF Option
    <3> QED
      BY <1>2, <1>3, <1>4, <1>6, <2>1, <3>1, <3>2, GoesOn DEF Option
  <2>3. CASE ~ Rest[index].sep
    <3> PICK after \in SUBSET DOMAIN Rest : after = values \cup ({index + 1} \cap DOMAIN Rest)
      OBVIOUS
    <3>1. Goes(2)
      BY <1>6, <2>3 DEF Option
    <3>2. ReadSoFar(after)'
      BY <1>6, <2>1, <2>3, <3>1, TwoTokens DEF Option
    <3>3. \E a \in SUBSET DOMAIN Rest : ReadSoFar(a)'
      BY <3>2
    <3> QED
      BY <1>2, <1>3, <1>4, <1>6, <2>1, <3>1, <3>3, GoesOn DEF Option
  <2> QED
    BY <2>2, <2>3
<1>7. CASE OtherDash
  <2>1. TurnTypeOK'
    BY <1>7 DEF OtherDash, IInv, TurnTypeOK, composeVars
  <2>2. NctlInv'
    BY <1>7 DEF OtherDash, NctlInv, SurfaceIsSound
  <2> QED
    BY <1>1, <2>1, <2>2 DEF IInv
<1>8. CASE Positional
  <2> PICK values \in SUBSET DOMAIN Rest : ReadSoFar(values)
    BY <1>3, <1>8 DEF Positional, PositionalOf
  <2>1. positionals' = positionals + 1 /\ verdict = "reading"
    BY <1>8 DEF Positional, PositionalOf, Reads
  <2>2. CASE positionals' > match.extra
    <3>1. verdict' = "refused" /\ UNCHANGED <<parts, match, form, index>>
      BY <1>8, <2>2 DEF Positional, PositionalOf
    <3>2. TurnTypeOK'
      BY <1>2, <2>1, <3>1 DEF IInv, TurnTypeOK, composeVars
    <3>3. NctlInv'
      BY <3>1 DEF NctlInv, SurfaceIsSound
    <3> QED
      BY <1>1, <3>2, <3>3 DEF IInv
  <2>3. CASE ~ positionals' > match.extra
    <3>1. Goes(1) /\ UNCHANGED verdict
      BY <1>8, <2>3 DEF Positional, PositionalOf
    <3>2. ReadSoFar(values)'
      BY <1>8, <2>1, <3>1, PositionalToken DEF Positional, PositionalOf
    <3>3. positionals' \in Nat /\ positionals' =< match.extra
      BY <1>2, <2>1, <2>3
    <3> QED
      BY <1>4, <2>1, <3>1, <3>2, <3>3, GoesOn
  <2> QED
    BY <2>2, <2>3
<1>9. CASE Accept
  <2>1. InSurface(parts)
    BY <1>9, AllRead DEF Accept
  <2>2. TurnTypeOK'
    BY <1>9 DEF Accept, IInv, TurnTypeOK, composeVars
  <2>3. NctlInv'
    BY <1>9, <2>1 DEF Accept, NctlInv, SurfaceIsSound, InSurface
  <2> QED
    BY <1>1, <2>2, <2>3 DEF IInv
<1>10. CASE Answered
  <2>1. TurnTypeOK'
    BY <1>10 DEF Answered, IInv, TurnTypeOK, composeVars
  <2>2. NctlInv'
    BY <1>10 DEF Answered, NctlInv, SurfaceIsSound
  <2> QED
    BY <1>1, <2>1, <2>2 DEF IInv
<1> QED
  BY <1>5, <1>6, <1>7, <1>8, <1>9, <1>10 DEF NctlStep

LEMMA NextInv == IInv /\ [Next]_vars => IInv'
<1> SUFFICES ASSUME IInv, [Next]_vars PROVE IInv'
  OBVIOUS
<1>1. CASE ComposeStep /\ UNCHANGED <<nctlVars, agent>>
  BY <1>1, ComposeInv
<1>2. CASE run
  BY <1>2, RunInv
<1>3. CASE nctl_readonly /\ UNCHANGED <<composeVars, agent>>
  <2> PICK tokens \in SeqOf(Tokens, MaxTokens) : Validate(tokens, <<>>)
    BY <1>3 DEF nctl_readonly
  <2>1. Tokens \subseteq Tok
    BY DEF Tokens, Tok, Name
  <2>2. tokens \in Seq(Tok)
    BY <2>1, SeqOfIsSeq, AgentTurnAssumption
  <2> QED
    BY <1>3, <2>2, ValidateInv DEF nctl_readonly
<1>4. CASE cagent /\ UNCHANGED <<composeVars, agent>>
  <2> PICK f \in Parsed(Values) : Validate(compose(f), f)
    BY <1>4 DEF cagent
  <2> QED
    BY <1>4, ComposedTokens, ValidateInv DEF cagent
<1>5. CASE NctlStep /\ UNCHANGED <<composeVars, agent>>
  BY <1>5, NctlStepInv
<1>6. CASE UNCHANGED <<composeVars, nctlVars>> /\ agent' \in {"waits", "runs", "reports"}
  <2>1. TurnTypeOK'
    BY <1>6 DEF IInv, TurnTypeOK, composeVars, nctlVars
  <2>2. Counted'
    BY <1>6 DEF IInv, Counted, TooOld, NothingForgottenSilently, composeVars
  <2>3. NctlInv'
    BY <1>6, NctlQuiet DEF IInv
  <2> QED
    BY <2>1, <2>2, <2>3 DEF IInv
<1>7. CASE UNCHANGED vars
  <2>1. TurnTypeOK'
    BY <1>7 DEF IInv, TurnTypeOK, vars, composeVars, nctlVars
  <2>2. Counted'
    BY <1>7 DEF IInv, Counted, TooOld, NothingForgottenSilently, vars, composeVars
  <2>3. NctlInv'
    BY <1>7, NctlQuiet DEF IInv, vars
  <2> QED
    BY <2>1, <2>2, <2>3 DEF IInv
<1> QED
  <2>1. CASE record_incident
    BY <1>6, <2>1 DEF record_incident
  <2>2. CASE agent = "reports" /\ IncidentStep /\ UNCHANGED <<composeVars, nctlVars, agent>>
    BY <1>6, <2>2
  <2> QED
    BY <1>1, <1>2, <1>3, <1>4, <1>5, <1>7, <2>1, <2>2 DEF Next

(* The invariant, for all histories, budgets and words.                    *)
THEOREM TurnInvariance == Spec => []IInv
BY InitInv, NextInv, PTL DEF Spec

(* Where compose_task shows any turn, its note accounts for all others.    *)
THEOREM NothingForgotten == Spec => []NothingForgottenSilently
<1>1. IInv => NothingForgottenSilently
  BY DEF IInv, Counted
<1> QED
  BY <1>1, TurnInvariance, PTL

(* validate accepts no call outside the surface, of any length.            *)
THEOREM NothingRidesAlong == Spec => []SurfaceIsSound
<1>1. IInv => SurfaceIsSound
  BY DEF IInv, NctlInv
<1> QED
  BY <1>1, TurnInvariance, PTL

(* No report loses its file to one that began after it was written, or was *)
(* over before: not to any of any number of calls, of the agent or of      *)
(* people, with any names.                                                 *)
THEOREM ReportsAreKept == Spec => []ReportIsKept
<1>1. Init => IncidentInv
  BY IncidentInitInv DEF Init
<1>2. IncidentInv /\ [Next]_vars => IncidentInv'
  <2> SUFFICES ASSUME IncidentInv, [Next]_vars PROVE IncidentInv'
    OBVIOUS
  <2>1. CASE UNCHANGED incidentVars
    BY <2>1, IncidentQuiet
  <2>2. CASE IncidentStep
    BY <2>2, IncidentNextInv
  <2>3. UNCHANGED incidentVars \/ IncidentStep
    BY DEF Next, vars, run, record_incident
  <2> QED
    BY <2>1, <2>2, <2>3
<1> QED
  BY <1>1, <1>2, KeptSuffices, PTL DEF Spec
-----------------------------------------------------------------------------
(* Why the surface is all that is refused of: a call has one subcommand,   *)
(* and its values can be told apart in one way only.                       *)
LEMMA NatHasLeast ==
  ASSUME NEW T, T \subseteq Nat, T # {}
  PROVE  \E x \in T : \A y \in T : x =< y
<1> DEFINE Below == {0..x : x \in T}
<1>1. Below \subseteq FiniteSubsetsOf(Nat)
  <2>1. \A x \in T : IsFiniteSet(0..x)
    BY FS_Interval
  <2>. QED
    BY <2>1 DEF FiniteSubsetsOf
<1>2. PICK S \in Below : \A R \in Below : ~ (<<R, S>> \in StrictSubsetOrdering(Nat))
  <2>1. Below # {}
    OBVIOUS
  <2> HIDE DEF Below
  <2>. QED
    BY <1>1, <2>1, FS_StrictSubsetOrderingWellFounded, WFMin
<1>3. PICK x \in T : S = 0..x
  OBVIOUS
<1>4. ASSUME NEW y \in T, y < x PROVE FALSE
  <2>1. 0..y \subseteq 0..x /\ x \in 0..x /\ x \notin 0..y
    BY <1>4
  <2>2. <<0..y, 0..x>> \in StrictSubsetOrdering(Nat)
    BY <2>1 DEF StrictSubsetOrdering
  <2>. QED
    BY <1>2, <1>3, <2>2
<1>. QED
  BY <1>4

(* P are the positions of the options without a value of their own.        *)
LEMMA SameValues ==
  ASSUME NEW n \in Nat, NEW P, NEW V, NEW W,
         \A i \in 1..n : i \in V <=> i > 1 /\ i - 1 \notin V /\ i - 1 \in P,
         \A i \in 1..n : i \in W <=> i > 1 /\ i - 1 \notin W /\ i - 1 \in P
  PROVE  \A i \in 1..n : i \in V <=> i \in W
<1> DEFINE Differ == {i \in 1..n : ~(i \in V <=> i \in W)}
<1> SUFFICES ASSUME Differ # {} PROVE FALSE
  OBVIOUS
<1>1. PICK i \in Differ : \A j \in Differ : i =< j
  <2>1. Differ \subseteq Nat
    OBVIOUS
  <2>. QED
    BY <2>1, NatHasLeast
<1>2. i \in 1..n /\ ~(i \in V <=> i \in W)
  BY <1>1
<1>3. i > 1 /\ ~(i - 1 \in V <=> i - 1 \in W)
  BY <1>2
<1>4. i - 1 \in 1..n /\ ~(i =< i - 1)
  BY <1>2, <1>3
<1>. QED
  BY <1>1, <1>3, <1>4

LEMMA PrefixIs ==
  ASSUME NEW tokens \in Seq(Tok), NEW entry \in NCTL_SUBCOMMANDS, IsPrefix(Plain(entry.words), tokens)
  PROVE  /\ entry.words[1] = tokens[1].name
         /\ Len(entry.words) = 2 => entry.words[2] = tokens[2].name
         /\ Len(entry.words) \in {1, 2}
<1> DEFINE Said == {"status", "drift", "relations", "actual", "ops", "list", "show"}
<1>1. PICK words : words = entry.words
  OBVIOUS
<1>3. /\ words \in Seq(Said) /\ Len(words) \in {1, 2}
      /\ DOMAIN words = 1..Len(words)
  <2>1. \A a, b \in Said : /\ <<a>> \in Seq(Said) /\ Len(<<a>>) = 1
                             /\ <<a, b>> \in Seq(Said) /\ Len(<<a, b>>) = 2
    OBVIOUS
  <2>2. \/ \E a \in Said : words = <<a>>
        \/ \E a, b \in Said : words = <<a, b>>
    <3>1. \/ \E a \in {"status", "drift", "relations", "actual"} : entry = [words |-> <<a>>, extra |-> 0]
          \/ entry = [words |-> <<"ops", "list">>, extra |-> 0]
          \/ entry = [words |-> <<"ops", "show">>, extra |-> 1]
      BY DEF NCTL_SUBCOMMANDS
    <3>2. \/ \E a \in {"status", "drift", "relations", "actual"} : words = <<a>>
          \/ words = <<"ops", "list">> \/ words = <<"ops", "show">>
      BY <1>1, <3>1
    <3>3. /\ "ops" \in Said /\ "list" \in Said /\ "show" \in Said
          /\ \A a \in {"status", "drift", "relations", "actual"} : a \in Said
      OBVIOUS
    <3>4. CASE \E a \in {"status", "drift", "relations", "actual"} : words = <<a>>
      BY <3>3, <3>4, Zenon
    <3>5. CASE words = <<"ops", "list">>
      BY <3>3, <3>5, Zenon
    <3>6. CASE words = <<"ops", "show">>
      BY <3>3, <3>6, Zenon
    <3>. QED
      BY <3>2, <3>4, <3>5, <3>6, Zenon
  <2>3. words \in Seq(Said) /\ Len(words) \in {1, 2}
    BY <2>1, <2>2
  <2>. QED
    BY <2>3
<1> HIDE DEF Said
<1>4. PICK plain : plain = Plain(words)
  OBVIOUS
<1>5. /\ plain \in Seq([name: Said, sep: BOOLEAN]) /\ Len(plain) = Len(words)
      /\ \A i \in 1..Len(words) : plain[i].name = words[i]
  <2>1. plain = [i \in 1..Len(words) |-> Token(words[i], FALSE)]
    BY <1>3, <1>4 DEF Plain
  <2>. QED
    BY <1>3, <2>1 DEF Token
<1>6. Len(plain) =< Len(tokens) /\ SubSeq(plain, 1, Len(plain)) = SubSeq(tokens, 1, Len(plain))
  BY <1>1, <1>4 DEF IsPrefix
<1>7. \A i \in 1..Len(words) : plain[i] = tokens[i]
  <2>1. \A i \in 1..Len(plain) : SubSeq(plain, 1, Len(plain))[i] = plain[i]
    BY <1>3, <1>5
  <2>2. \A i \in 1..Len(plain) : SubSeq(tokens, 1, Len(plain))[i] = tokens[i]
    BY <1>3, <1>5, <1>6
  <2>. QED
    BY <1>5, <1>6, <2>1, <2>2
<1>. QED
  BY <1>1, <1>3, <1>5, <1>7

LEMMA OneEntry ==
  ASSUME NEW tokens \in Seq(Tok), NEW e \in NCTL_SUBCOMMANDS, NEW o \in NCTL_SUBCOMMANDS,
         IsPrefix(Plain(e.words), tokens), IsPrefix(Plain(o.words), tokens)
  PROVE  e = o
<1>1. /\ e.words[1] = o.words[1]
      /\ Len(e.words) = 2 /\ Len(o.words) = 2 => e.words[2] = o.words[2]
  BY PrefixIs
<1>2. \A x \in NCTL_SUBCOMMANDS :
        \/ Len(x.words) = 1 /\ x = [words |-> <<x.words[1]>>, extra |-> 0] /\ x.words[1] # "ops"
        \/ Len(x.words) = 2 /\ x.words[1] = "ops" /\ x.words[2] = "list"
           /\ x = [words |-> <<"ops", "list">>, extra |-> 0]
        \/ Len(x.words) = 2 /\ x.words[1] = "ops" /\ x.words[2] = "show"
           /\ x = [words |-> <<"ops", "show">>, extra |-> 1]
  <2> SUFFICES ASSUME NEW x \in NCTL_SUBCOMMANDS
               PROVE  \/ Len(x.words) = 1 /\ x = [words |-> <<x.words[1]>>, extra |-> 0] /\ x.words[1] # "ops"
                      \/ Len(x.words) = 2 /\ x.words[1] = "ops" /\ x.words[2] = "list"
                         /\ x = [words |-> <<"ops", "list">>, extra |-> 0]
                      \/ Len(x.words) = 2 /\ x.words[1] = "ops" /\ x.words[2] = "show"
                         /\ x = [words |-> <<"ops", "show">>, extra |-> 1]
    OBVIOUS
  <2>1. CASE \E w \in {"status", "drift", "relations", "actual"} : x = [words |-> <<w>>, extra |-> 0]
    BY <2>1
  <2>2. CASE x = [words |-> <<"ops", "list">>, extra |-> 0]
    BY <2>2
  <2>3. CASE x = [words |-> <<"ops", "show">>, extra |-> 1]
    BY <2>3
  <2>. QED
    BY <2>1, <2>2, <2>3 DEF NCTL_SUBCOMMANDS
<1>. QED
  BY <1>1, <1>2

(* Whatever entry and values a reader tells apart in the call, they are    *)
(* those that validate's loop went by.                                     *)
LEMMA OneReading ==
  ASSUME IInv, verdict = "reading", NEW entry \in NCTL_SUBCOMMANDS, IsPrefix(Plain(entry.words), parts),
         NEW V \in SUBSET DOMAIN Rest, AreValues(V, Rest)
  PROVE  /\ entry = match
         /\ index \notin V
         /\ Cardinality({i \in DOMAIN Rest \ V : i < index /\ IsPositional(Rest[i])}) = positionals
<1>1. parts \in Seq(Tok) /\ match \in NCTL_SUBCOMMANDS /\ index \in Nat
  BY DEF IInv, TurnTypeOK, NctlInv
<1>2. entry = match
  BY <1>1, OneEntry DEF IInv, NctlInv
<1>3. Rest \in Seq(Tok)
  BY <1>1, RestTokens DEF Rest
<1>4. PICK W \in SUBSET DOMAIN Rest : ReadSoFar(W)
  BY DEF IInv, NctlInv
<1>5. PICK n \in Nat : n = IF index =< Len(Rest) THEN index ELSE Len(Rest)
  BY <1>1, <1>3
<1>6. 1..n \subseteq DOMAIN Rest /\ \A i \in DOMAIN Rest : i =< index <=> i \in 1..n
  BY <1>1, <1>3, <1>5
<1> DEFINE P == {i \in DOMAIN Rest : IsOption(Rest[i]) /\ ~ Rest[i].sep}
<1>7. \A i \in 1..n : i > 1 => i - 1 \in DOMAIN Rest
  BY <1>3, <1>6
<1>8. \A i \in 1..n : i \in V <=> i > 1 /\ i - 1 \notin V /\ i - 1 \in P
  BY <1>6, <1>7 DEF AreValues
<1>9. \A i \in 1..n : i \in W <=> i > 1 /\ i - 1 \notin W /\ i - 1 \in P
  BY <1>6, <1>7, <1>4 DEF ReadSoFar, FollowsOption
<1> HIDE DEF P
<1>10. \A i \in 1..n : i \in V <=> i \in W
  BY <1>8, <1>9, SameValues
<1>11. \A i \in DOMAIN Rest : i =< index => (i \in V <=> i \in W)
  BY <1>6, <1>10
<1>12. index \notin V
  BY <1>1, <1>4, <1>11 DEF ReadSoFar
<1>13. {i \in DOMAIN Rest \ V : i < index /\ IsPositional(Rest[i])} = PositionalsPast(W)
  BY <1>1, <1>3, <1>11 DEF PositionalsPast
<1>. QED
  BY <1>2, <1>4, <1>12, <1>13 DEF ReadSoFar

(* The end of the loop: what it read.                                      *)
ReadAll ==
  /\ match \in NCTL_SUBCOMMANDS /\ IsPrefix(Plain(match.words), parts)
  /\ \E values \in SUBSET DOMAIN Rest :
       /\ AreValues(values, Rest)
       /\ Cardinality({i \in DOMAIN Rest \ values : IsPositional(Rest[i])}) = positionals

VetInv ==
  /\ verdict = "accepted" => ReadAll
  /\ SurfaceIsComplete
  /\ form # <<>> => parts = compose(form)

LEMMA RefusedOutside ==
  ASSUME IInv, OtherDash \/ (Positional /\ verdict' = "refused")
  PROVE  ~ InSurface(parts)
<1> SUFFICES ASSUME NEW entry \in NCTL_SUBCOMMANDS, IsPrefix(Plain(entry.words), parts),
                    NEW V \in SUBSET DOMAIN SubSeq(parts, Len(entry.words) + 1, Len(parts)),
                    NEW tail, tail = SubSeq(parts, Len(entry.words) + 1, Len(parts)),
                    AreValues(V, tail),
                    \A i \in DOMAIN tail \ V : IsSwitch(tail[i]) \/ IsOption(tail[i]) \/ IsPositional(tail[i]),
                    Cardinality({i \in DOMAIN tail \ V : IsPositional(tail[i])}) =< entry.extra
             PROVE  FALSE
  BY DEF InSurface
<1>1. verdict = "reading" /\ index =< Len(Rest)
  BY DEF OtherDash, Positional, PositionalOf, Reads
<1>2. parts \in Seq(Tok) /\ match \in NCTL_SUBCOMMANDS /\ index \in Nat \ {0} /\ positionals \in Nat
  BY <1>1 DEF IInv, TurnTypeOK, NctlInv
<1>3. entry = match
  BY <1>1, <1>2, OneEntry DEF IInv, NctlInv
<1>4. tail = Rest
  BY <1>3 DEF Rest
<1>5. /\ index \notin V
      /\ Cardinality({i \in DOMAIN Rest \ V : i < index /\ IsPositional(Rest[i])}) = positionals
  BY <1>1, <1>4, OneReading
<1>6. Rest \in Seq(Tok) /\ index \in DOMAIN Rest
  <2>1. Rest \in Seq(Tok)
    BY <1>2, RestTokens DEF Rest
  <2>. QED
    BY <1>1, <1>2, <2>1
<1>7. CASE OtherDash
  BY <1>4, <1>5, <1>6, <1>7 DEF OtherDash, IsPositional
<1>8. CASE Positional /\ verdict' = "refused"
  <2> DEFINE All == {i \in DOMAIN Rest \ V : IsPositional(Rest[i])}
             Past_ == {i \in DOMAIN Rest \ V : i < index /\ IsPositional(Rest[i])}
  <2>1. positionals + 1 > match.extra /\ IsPositional(Rest[index])
    BY <1>1, <1>8 DEF Positional, PositionalOf, Goes
  <2>2. IsFiniteSet(All)
    <3>1. All \subseteq 1..Len(Rest) /\ Len(Rest) \in Nat
      BY <1>6
    <3>2. IsFiniteSet(1..Len(Rest))
      BY <3>1, FS_Interval
    <3>. QED
      BY <3>1, <3>2, FS_Subset
  <2>3. Past_ \cup {index} \subseteq All /\ index \notin Past_
    BY <1>5, <1>6, <2>1
  <2>4. IsFiniteSet(Past_) /\ Cardinality(Past_) = positionals
    BY <1>5, <2>2, <2>3, FS_Subset
  <2> HIDE DEF All, Past_
  <2>5. Cardinality(Past_ \cup {index}) = positionals + 1
    BY <2>3, <2>4, FS_AddElement
  <2>6. Cardinality(All) >= positionals + 1
    BY <1>2, <2>2, <2>3, <2>5, FS_Subset
  <2>7. Cardinality(All) \in Nat /\ Cardinality(All) =< match.extra
    BY <1>3, <1>4, <2>2, FS_CardinalityType DEF All
  <2>8. match.extra \in Nat
    BY <1>2 DEF NCTL_SUBCOMMANDS
  <2>. QED
    BY <1>2, <2>1, <2>6, <2>7, <2>8
<1>. QED
  BY <1>7, <1>8

LEMMA AcceptReadAll == ASSUME IInv, Accept PROVE ReadAll'
<1>1. verdict = "reading" /\ index > Len(Rest) /\ UNCHANGED <<parts, match, positionals>> /\ Rest' = Rest
  BY DEF Accept, Rest
<1>2. match \in NCTL_SUBCOMMANDS /\ IsPrefix(Plain(match.words), parts)
  BY <1>1 DEF IInv, NctlInv
<1>3. PICK values \in SUBSET DOMAIN Rest : ReadSoFar(values)
  BY <1>1 DEF IInv, NctlInv
<1>4. Rest \in Seq(Tok) /\ index \in Nat
  BY <1>2, RestTokens DEF IInv, TurnTypeOK, Rest
<1>5. \A i \in DOMAIN Rest : i < index /\ i =< index
  BY <1>1, <1>4
<1>6. AreValues(values, Rest)
  BY <1>3, <1>5 DEF AreValues, ReadSoFar, FollowsOption
<1>7. {i \in DOMAIN Rest \ values : IsPositional(Rest[i])} = PositionalsPast(values)
  BY <1>5 DEF PositionalsPast
<1>8. Cardinality({i \in DOMAIN Rest \ values : IsPositional(Rest[i])}) = positionals
  BY <1>3, <1>7 DEF ReadSoFar
<1>. QED
  BY <1>1, <1>2, <1>6, <1>8 DEF ReadAll

LEMMA VetNext == IInv /\ VetInv /\ [Next]_vars => VetInv'
<1> SUFFICES ASSUME IInv, VetInv, [Next]_vars PROVE VetInv'
  OBVIOUS
<1>1. CASE UNCHANGED nctlVars
  <2>1. UNCHANGED <<parts, match, positionals, verdict, form>> /\ Rest' = Rest
    BY <1>1 DEF nctlVars, Rest
  <2>. QED
    BY <2>1 DEF VetInv, ReadAll, SurfaceIsComplete, InSurface
<1>2. ASSUME NEW tokens, NEW parsed, Validate(tokens, parsed), parsed # <<>> => tokens = compose(parsed)
      PROVE  VetInv'
  <2>1. parts' = tokens /\ form' = parsed
    BY <1>2 DEF Validate
  <2>2. verdict' = "reading" \/ (verdict' = "refused" /\ ~ InSurface(tokens))
    BY <1>2 DEF Validate, InSurface
  <2>. QED
    BY <1>2, <2>1, <2>2 DEF VetInv, SurfaceIsComplete, InSurface
<1>3. CASE NctlStep
  <2>1. CASE Switch \/ Option \/ (Positional /\ verdict' # "refused")
    <3>1. verdict' = "reading" /\ UNCHANGED <<parts, form>>
      BY <2>1 DEF Switch, Option, Positional, PositionalOf, Reads, Goes
    <3>. QED
      BY <3>1 DEF VetInv, SurfaceIsComplete
  <2>2. CASE OtherDash \/ (Positional /\ verdict' = "refused")
    <3>1. verdict' = "refused" /\ UNCHANGED <<parts, form>>
      BY <2>2 DEF OtherDash, Positional, PositionalOf, Goes
    <3>2. ~ InSurface(parts)
      BY <2>2, RefusedOutside
    <3>. QED
      BY <3>1, <3>2 DEF VetInv, SurfaceIsComplete, InSurface
  <2>3. CASE Accept
    BY <2>3, AcceptReadAll DEF VetInv, SurfaceIsComplete, Accept
  <2>4. CASE Answered
    BY <2>4 DEF VetInv, SurfaceIsComplete, Answered
  <2>. QED
    BY <1>3, <2>1, <2>2, <2>3, <2>4 DEF NctlStep
<1>4. CASE nctl_readonly
  BY <1>2, <1>4 DEF nctl_readonly
<1>5. CASE cagent
  BY <1>2, <1>5 DEF cagent
<1>. QED
  BY <1>1, <1>3, <1>4, <1>5 DEF Next, vars, run, record_incident

LEMMA VetInvariance == Spec => []VetInv
<1>1. Init => VetInv
  BY DEF Init, NctlIdle, VetInv, SurfaceIsComplete
<1>. QED
  BY <1>1, VetNext, TurnInvariance, PTL DEF Spec

(* validate refuses no call of the surface, of any length: neither for a   *)
(* flag that is there nor for words behind it.                             *)
THEOREM SurfaceIsLetIn == Spec => []SurfaceIsComplete
<1>1. VetInv => SurfaceIsComplete
  BY DEF VetInv
<1>. QED
  BY <1>1, VetInvariance, PTL
-----------------------------------------------------------------------------
(* What the command composes is in the surface, and only its id is read as *)
(* a positional token.                                                     *)
IsRead(tail, id) ==
  \E V \in SUBSET DOMAIN tail :
    /\ AreValues(V, tail)
    /\ \A i \in DOMAIN tail \ V : IsSwitch(tail[i]) \/ IsOption(tail[i]) \/ IsPositional(tail[i])
    /\ {i \in DOMAIN tail \ V : IsPositional(tail[i])} = 1..Len(id)

(* all is head followed by tail.                                           *)
IsAppend(all, head, tail) ==
  /\ Len(all) = Len(head) + Len(tail)
  /\ \A i \in 1..Len(all) : all[i] = IF i =< Len(head) THEN head[i] ELSE tail[i - Len(head)]

LEMMA AppendIs ==
  ASSUME NEW S, NEW s \in Seq(S), NEW t \in Seq(S)
  PROVE  \E u \in Seq(S) : u = s \o t /\ IsAppend(u, s, t)
<1>1. /\ s \o t \in Seq(S) /\ Len(s \o t) = Len(s) + Len(t)
      /\ \A i \in 1..Len(s) + Len(t) : (s \o t)[i] = IF i =< Len(s) THEN s[i] ELSE t[i - Len(s)]
  BY ConcatProperties
<1>. QED
  BY <1>1 DEF IsAppend

LEMMA TailIsRead ==
  ASSUME NEW id \in Seq(Tok), NEW flags \in Seq(Tok), NEW option \in Seq(Tok), NEW v \in Seq(Tok),
         NEW tail \in Seq(Tok), IsAppend(v, id, flags), IsAppend(tail, v, option),
         \A i \in DOMAIN id : ~ HasDash(id[i]), Switches(flags),
         option = <<>> \/ (Len(option) = 2 /\ IsOption(option[1]) /\ ~ option[1].sep)
  PROVE  IsRead(tail, id)
<1>1. PICK n, m, o \in Nat : n = Len(id) /\ m = Len(flags) /\ o = Len(option)
  BY LenProperties
<1>2. o = 0 \/ (o = 2 /\ IsOption(option[1]) /\ ~ option[1].sep)
  BY <1>1
<1>3. /\ tail \in Seq(Tok) /\ Len(tail) = n + m + o /\ DOMAIN tail = 1..(n + m + o)
      /\ \A i \in 1..(n + m + o) :
           tail[i] = IF i =< n THEN id[i] ELSE IF i =< n + m THEN flags[i - n] ELSE option[i - (n + m)]
  <2>1. Len(v) = n + m /\ \A i \in 1..(n + m) : v[i] = IF i =< n THEN id[i] ELSE flags[i - n]
    BY <1>1 DEF IsAppend
  <2>2. /\ Len(tail) = n + m + o
        /\ \A i \in 1..(n + m + o) : tail[i] = IF i =< n + m THEN v[i] ELSE option[i - (n + m)]
    BY <1>1, <2>1 DEF IsAppend
  <2>. QED
    BY <2>1, <2>2
<1>4. ASSUME NEW token, IsSwitch(token) PROVE ~ IsOption(token) /\ ~ IsPositional(token)
  BY <1>4 DEF IsSwitch, IsOption, IsPositional, HasDash, NCTL_SWITCHES, NCTL_OPTIONS
<1>5. ASSUME NEW token, ~ HasDash(token) PROVE ~ IsOption(token) /\ IsPositional(token)
  BY <1>5 DEF IsOption, IsPositional, HasDash
<1>6. ASSUME NEW token, IsOption(token) PROVE ~ IsPositional(token)
  BY <1>6 DEF IsOption, IsPositional, HasDash
<1>7. \A i \in 1..n : ~ IsOption(tail[i]) /\ IsPositional(tail[i])
  <2>1. \A i \in 1..n : tail[i] = id[i]
    BY <1>1, <1>3
  <2>2. \A i \in 1..n : ~ HasDash(id[i])
    <3>1. DOMAIN id = 1..n
      BY <1>1, LenProperties
    <3>. QED
      BY <3>1
  <2>. QED
    BY <1>5, <2>1, <2>2
<1>8. \A i \in n+1..n+m : IsSwitch(tail[i]) /\ ~ IsOption(tail[i]) /\ ~ IsPositional(tail[i])
  <2>1. ASSUME NEW i \in n+1..n+m PROVE tail[i] = flags[i - n] /\ i - n \in DOMAIN flags
    <3>1. i \in 1..(n + m + o) /\ ~(i =< n) /\ i =< n + m /\ i - n \in 1..m
      OBVIOUS
    <3>2. DOMAIN flags = 1..m
      BY <1>1, LenProperties
    <3>. QED
      BY <1>3, <3>1, <3>2
  <2>. QED
    BY <1>4, <2>1 DEF Switches
<1>9. CASE o = 0
  <2>1. DOMAIN tail = 1..(n + m) /\ \A i \in 1..(n + m) : i \in 1..n \/ i \in n+1..n+m
    BY <1>3, <1>9
  <2>2. \A i \in DOMAIN tail : ~ IsOption(tail[i])
    BY <1>7, <1>8, <2>1
  <2>3. \A i \in DOMAIN tail : i > 1 => i - 1 \in DOMAIN tail
    BY <2>1
  <2>4. AreValues({}, tail)
    BY <2>2, <2>3 DEF AreValues
  <2>5. \A i \in DOMAIN tail : IsPositional(tail[i]) <=> i \in 1..n
    BY <1>7, <1>8, <2>1
  <2>6. {i \in DOMAIN tail \ {} : IsPositional(tail[i])} = 1..Len(id)
    BY <1>1, <2>1, <2>5
  <2>. QED
    BY <1>7, <1>8, <2>1, <2>4, <2>6 DEF IsRead
<1>10. CASE o = 2
  <2>0. PICK x \in Nat : x = n + m + 1
    OBVIOUS
  <2> DEFINE V == {x + 1}
  <2>1. /\ DOMAIN tail = 1..x+1 /\ x \in Nat \ {0} /\ x \notin 1..n /\ x + 1 \notin 1..n
        /\ \A i \in 1..x+1 : i \in 1..n \/ i \in n+1..n+m \/ i = x \/ i = x + 1
    BY <1>3, <1>10, <2>0
  <2>2. IsOption(tail[x]) /\ ~ tail[x].sep /\ ~ IsPositional(tail[x])
    <3>1. x \in 1..(n + m + o) /\ ~(x =< n) /\ ~(x =< n + m) /\ x - (n + m) = 1
      BY <1>10, <2>0
    <3>2. tail[x] = option[1]
      BY <1>3, <3>1
    <3>. QED
      BY <1>2, <1>6, <1>10, <3>2
  <2>3. \A i \in 1..x-1 : ~ IsOption(tail[i])
    BY <1>7, <1>8, <2>0
  <2>5. \A i \in DOMAIN tail \ V : IsPositional(tail[i]) <=> i \in 1..n
    BY <1>7, <1>8, <2>0, <2>1, <2>2
  <2>6. {i \in DOMAIN tail \ V : IsPositional(tail[i])} = 1..Len(id)
    <3>1. 1..n \subseteq DOMAIN tail \ V
      BY <2>1
    <3>. QED
      BY <1>1, <2>5, <3>1
  <2>7. \A i \in DOMAIN tail \ V : IsSwitch(tail[i]) \/ IsOption(tail[i]) \/ IsPositional(tail[i])
    BY <1>7, <1>8, <2>0, <2>1, <2>2
  <2>4. AreValues(V, tail)
    <3> SUFFICES ASSUME NEW i \in 1..x+1
                 PROVE  i = x + 1 <=> i > 1 /\ i - 1 # x + 1 /\ IsOption(tail[i - 1]) /\ ~ tail[i - 1].sep
      BY <2>1 DEF AreValues
    <3>1. CASE i = x + 1
      BY <2>1, <2>2, <3>1
    <3>2. CASE i # x + 1 /\ i > 1
      <4>1. i - 1 \in 1..x-1
        BY <2>1, <3>2
      <4>. QED
        BY <2>3, <3>2, <4>1
    <3>. QED
      BY <2>1, <3>1, <3>2
  <2>8. V \in SUBSET DOMAIN tail
    BY <2>1
  <2> HIDE DEF V
  <2>. QED
    BY <2>4, <2>6, <2>7, <2>8 DEF IsRead
<1>. QED
  BY <1>2, <1>9, <1>10

(* Appending is associative.                                               *)
LEMMA Regroup ==
  ASSUME NEW s \in Seq(Tok), NEW t \in Seq(Tok), NEW w \in Seq(Tok), NEW st \in Seq(Tok), NEW tw \in Seq(Tok),
         NEW left \in Seq(Tok), NEW right \in Seq(Tok),
         IsAppend(st, s, t), IsAppend(left, st, w), IsAppend(tw, t, w), IsAppend(right, s, tw)
  PROVE  left = right
<1>1. PICK n, m, o \in Nat : n = Len(s) /\ m = Len(t) /\ o = Len(w)
  BY LenProperties
<1>2. Len(st) = n + m /\ \A i \in 1..n+m : st[i] = IF i =< n THEN s[i] ELSE t[i - n]
  BY <1>1 DEF IsAppend
<1>3. Len(left) = n + m + o /\ \A i \in 1..n+m+o : left[i] = IF i =< n + m THEN st[i] ELSE w[i - (n + m)]
  BY <1>1, <1>2 DEF IsAppend
<1>4. Len(tw) = m + o /\ \A i \in 1..m+o : tw[i] = IF i =< m THEN t[i] ELSE w[i - m]
  BY <1>1 DEF IsAppend
<1>5. Len(right) = n + m + o
  BY <1>1, <1>4 DEF IsAppend
<1>6. ASSUME NEW i \in 1..n+m+o PROVE left[i] = right[i]
  <2>1. right[i] = IF i =< n THEN s[i] ELSE tw[i - n]
    <3>1. \A k \in 1..Len(right) : right[k] = IF k =< Len(s) THEN s[k] ELSE tw[k - Len(s)]
      BY DEF IsAppend
    <3>. QED
      BY <1>1, <1>5, <3>1
  <2>2. CASE i =< n
    <3>1. left[i] = st[i] /\ i \in 1..n+m
      BY <1>3, <2>2
    <3>. QED
      BY <1>2, <2>1, <2>2, <3>1
  <2>3. CASE i > n
    <3>1. PICK j \in 1..m+o : j = i - n
      BY <2>3
    <3>2. right[i] = IF j =< m THEN t[j] ELSE w[j - m]
      BY <1>4, <2>1, <2>3, <3>1
    <3>3. left[i] = IF i =< n + m THEN t[i - n] ELSE w[i - (n + m)]
      BY <1>2, <1>3, <2>3
    <3>4. (j =< m <=> i =< n + m) /\ j - m = i - (n + m)
      BY <3>1
    <3>. QED
      BY <3>1, <3>2, <3>3, <3>4
  <2>. QED
    BY <2>2, <2>3
<1>. QED
  BY <1>3, <1>5, <1>6, SeqEqual

LEMMA ComposedInSurface ==
  ASSUME NEW f \in Parsed(Values), f.id = <<>> \/ ~ HasDash(f.id[1])
  PROVE  \E entry \in NCTL_SUBCOMMANDS :
           /\ IsPrefix(Plain(entry.words), compose(f)) /\ Len(f.id) =< entry.extra /\ f.id \in Seq(Tok)
           /\ IsRead(SubSeq(compose(f), Len(entry.words) + 1, Len(compose(f))), f.id)
<1>1. PICK entry \in NCTL_SUBCOMMANDS, json, detail, option \in Seq(Tok) :
         Composed(f, entry, json, detail, option)
  BY ComposedPieces
<1>2. PICK head, id \in Seq(Tok) : head = Plain(f.words) /\ id = f.id /\ Len(head) = Len(entry.words)
  BY <1>1 DEF Composed
<1>3. PICK flags \in Seq(Tok) : flags = json \o detail /\ IsAppend(flags, json, detail)
  BY AppendIs, Zenon
<1>4. PICK v \in Seq(Tok) : IsAppend(v, id, flags)
  BY AppendIs, Zenon
<1>5. PICK tail \in Seq(Tok) : IsAppend(tail, v, option)
  BY AppendIs, Zenon
<1>6. PICK all \in Seq(Tok) : all = head \o tail /\ IsAppend(all, head, tail)
  BY AppendIs, Zenon
<1>7. compose(f) = all
  <2>1. PICK a \in Seq(Tok) : a = head \o id /\ IsAppend(a, head, id)
    BY AppendIs, Zenon
  <2>2. PICK b \in Seq(Tok) : b = a \o json /\ IsAppend(b, a, json)
    BY AppendIs, Zenon
  <2>3. PICK c \in Seq(Tok) : c = b \o detail /\ IsAppend(c, b, detail)
    BY AppendIs, Zenon
  <2>4. PICK d \in Seq(Tok) : d = c \o option /\ IsAppend(d, c, option)
    BY AppendIs, Zenon
  <2>6. compose(f) = (((head \o id) \o json) \o detail) \o option
    BY <1>1, <1>2, Zenon DEF Composed
  <2>7. compose(f) = d
    BY <2>1, <2>2, <2>3, <2>4, <2>6, Zenon
  <2>8. IsAppend(c, a, flags)
    <3>1. PICK z \in Seq(Tok) : IsAppend(z, a, flags)
      BY AppendIs, Zenon
    <3>2. c = z
      <4>1. IsAppend(flags, json, detail) /\ IsAppend(b, a, json) /\ IsAppend(c, b, detail)
        BY <1>3, <2>2, <2>3
      <4>. QED
        BY <3>1, <4>1, Regroup
    <3>. QED
      BY <3>1, <3>2
  <2>9. IsAppend(c, head, v)
    <3>1. PICK z \in Seq(Tok) : IsAppend(z, head, v)
      BY AppendIs, Zenon
    <3>2. c = z
      BY <1>4, <2>1, <2>8, <3>1, Regroup
    <3>. QED
      BY <3>1, <3>2
  <2>10. d = all
    <3>1. IsAppend(all, head, tail) /\ IsAppend(d, c, option)
      BY <1>6, <2>4
    <3>. QED
      BY <1>5, <2>9, <3>1, Regroup
  <2>. QED
    BY <2>7, <2>10
<1>8. /\ Len(all) = Len(head) + Len(tail) /\ Len(head) \in Nat /\ Len(tail) \in Nat
      /\ \A i \in 1..Len(all) : all[i] = IF i =< Len(head) THEN head[i] ELSE tail[i - Len(head)]
  BY <1>6 DEF IsAppend
<1>9. IsPrefix(head, all)
  BY <1>8 DEF IsPrefix
<1>10. SubSeq(all, Len(head) + 1, Len(all)) = tail
  BY <1>8
<1>11. Switches(flags)
  <2>1. PICK k, l \in Nat : k = Len(json) /\ l = Len(detail)
    BY LenProperties
  <2>2. Len(flags) = k + l /\ \A i \in 1..k+l : flags[i] = IF i =< k THEN json[i] ELSE detail[i - k]
    BY <1>3, <2>1 DEF IsAppend
  <2>3. /\ \A i \in 1..k : IsSwitch(json[i])
        /\ \A i \in 1..l : IsSwitch(detail[i])
    <3>1. DOMAIN json = 1..k /\ DOMAIN detail = 1..l
      BY <2>1, LenProperties
    <3>2. Switches(json) /\ Switches(detail)
      BY <1>1 DEF Composed
    <3>. QED
      BY <3>1, <3>2 DEF Switches
  <2>4. ASSUME NEW i \in 1..k+l PROVE IsSwitch(flags[i])
    <3>1. CASE i =< k
      <4>1. flags[i] = json[i] /\ i \in 1..k
        BY <2>2, <3>1
      <4>. QED
        BY <2>3, <4>1
    <3>2. CASE i > k
      <4>1. flags[i] = detail[i - k] /\ i - k \in 1..l
        BY <2>2, <3>2
      <4>. QED
        BY <2>3, <4>1
    <3>. QED
      BY <3>1, <3>2
  <2>5. DOMAIN flags = 1..k+l
    BY <2>2, LenProperties
  <2>. QED
    BY <2>4, <2>5 DEF Switches
<1>12. \A i \in DOMAIN id : ~ HasDash(id[i])
  <2>1. Len(id) =< 1
    BY <1>1, <1>2 DEF Composed, NCTL_SUBCOMMANDS
  <2>2. \A i \in DOMAIN id : i = 1 /\ id # <<>>
    BY <2>1
  <2>. QED
    BY <1>2, <2>2
<1>13. /\ IsPrefix(Plain(entry.words), compose(f)) /\ Len(f.id) =< entry.extra /\ f.id \in Seq(Tok)
       /\ tail = SubSeq(compose(f), Len(entry.words) + 1, Len(compose(f)))
  BY <1>1, <1>2, <1>7, <1>6, <1>9, <1>10 DEF Composed
<1>14. option = <<>> \/ (Len(option) = 2 /\ IsOption(option[1]) /\ ~ option[1].sep)
  BY <1>1 DEF Composed
<1>15. IsRead(tail, id)
  BY <1>4, <1>5, <1>11, <1>12, <1>14, TailIsRead
<1>. QED
  BY <1>2, <1>13, <1>15, Zenon

LEMMA AdmittedSuffices == IInv /\ VetInv => CommandIsAdmitted
<1> SUFFICES ASSUME IInv, VetInv, form # <<>>, form.id = <<>> \/ ~ HasDash(form.id[1])
             PROVE  verdict # "refused" /\ (verdict = "accepted" => positionals = Len(form.id))
  BY DEF CommandIsAdmitted
<1>1. form \in Parsed(Values) /\ parts = compose(form) /\ parts \in Seq(Tok)
  BY DEF IInv, TurnTypeOK, VetInv
<1>2. PICK entry \in NCTL_SUBCOMMANDS :
           /\ IsPrefix(Plain(entry.words), parts) /\ Len(form.id) =< entry.extra /\ form.id \in Seq(Tok)
           /\ IsRead(SubSeq(parts, Len(entry.words) + 1, Len(parts)), form.id)
  BY <1>1, ComposedInSurface, Zenon
<1>3. PICK tail : tail = SubSeq(parts, Len(entry.words) + 1, Len(parts))
  OBVIOUS
<1>4. PICK V \in SUBSET DOMAIN tail :
           /\ AreValues(V, tail)
           /\ \A i \in DOMAIN tail \ V : IsSwitch(tail[i]) \/ IsOption(tail[i]) \/ IsPositional(tail[i])
           /\ {i \in DOMAIN tail \ V : IsPositional(tail[i])} = 1..Len(form.id)
  BY <1>2, <1>3 DEF IsRead
<1>5. IsPrefix(Plain(entry.words), parts) /\ Len(form.id) =< entry.extra /\ form.id \in Seq(Tok)
  BY <1>2
<1>6. PICK n \in Nat : n = Len(form.id)
  BY <1>5, LenProperties
<1>7. Cardinality({i \in DOMAIN tail \ V : IsPositional(tail[i])}) = n
  <2>1. Cardinality(1..n) = n
    BY <1>6, FS_Interval
  <2>. QED
    BY <1>4, <1>6, <2>1
<1>8. InSurface(parts)
  BY <1>3, <1>4, <1>5, <1>6, <1>7 DEF InSurface
<1>9. ASSUME verdict = "accepted" PROVE positionals = n
  <2>1. ReadAll
    BY <1>9 DEF VetInv
  <2>2. match = entry /\ Rest = tail
    BY <1>1, <1>3, <1>5, <2>1, OneEntry DEF ReadAll, Rest
  <2>3. PICK W \in SUBSET DOMAIN tail :
           AreValues(W, tail) /\ Cardinality({i \in DOMAIN tail \ W : IsPositional(tail[i])}) = positionals
    BY <2>1, <2>2 DEF ReadAll
  <2>4. tail \in Seq(Tok)
    BY <1>1, <1>3, RestTokens
  <2> DEFINE P == {i \in DOMAIN tail : IsOption(tail[i]) /\ ~ tail[i].sep}
  <2>5. DOMAIN tail = 1..Len(tail) /\ Len(tail) \in Nat
    BY <2>4
  <2>6. \A i \in 1..Len(tail) : i > 1 => i - 1 \in DOMAIN tail
    BY <2>5
  <2>7. \A i \in 1..Len(tail) : i \in V <=> i > 1 /\ i - 1 \notin V /\ i - 1 \in P
    BY <1>4, <2>5, <2>6 DEF AreValues
  <2>8. \A i \in 1..Len(tail) : i \in W <=> i > 1 /\ i - 1 \notin W /\ i - 1 \in P
    BY <2>3, <2>5, <2>6 DEF AreValues
  <2> HIDE DEF P
  <2>9. \A i \in 1..Len(tail) : i \in V <=> i \in W
    BY <2>5, <2>7, <2>8, SameValues
  <2>10. {i \in DOMAIN tail \ W : IsPositional(tail[i])} = {i \in DOMAIN tail \ V : IsPositional(tail[i])}
    BY <2>5, <2>9
  <2>. QED
    BY <1>7, <2>3, <2>10
<1>. QED
  BY <1>6, <1>8, <1>9 DEF VetInv, SurfaceIsComplete

(* The command's parser and the allow-list coincide: whatever its options  *)
(* and values are, what it composes is accepted, and read as it was meant. *)
THEOREM CommandsAreLetIn == Spec => []CommandIsAdmitted
BY AdmittedSuffices, TurnInvariance, VetInvariance, PTL
-----------------------------------------------------------------------------
(* What the blocks of some turns add up to, however they are added up.     *)
LEMMA SetInduction ==
  ASSUME NEW S, 0 \in S, \A n \in Nat : n \in S => n + 1 \in S
  PROVE  Nat \subseteq S
<1> SUFFICES ASSUME Nat \ S # {} PROVE FALSE
  OBVIOUS
<1>1. PICK n \in Nat \ S : \A m \in Nat \ S : n =< m
  BY NatHasLeast
<1>2. n # 0 /\ n - 1 \in Nat /\ n - 1 \in S
  BY <1>1
<1>. QED
  BY <1>2
-----------------------------------------------------------------------------
Total(h, turns) == FoldFunctionOnSet(+, 0, h, turns)

(* The one taken first when they are added up, ...                         *)
First(turns) == CHOOSE t \in turns : TRUE

(* ... and the sums of the subsets of `turns` that are in `some`.          *)
IsSum(f, h, some) ==
  f = [T \in some |-> IF T = {} THEN 0 ELSE h[First(T)] + f[T \ {First(T)}]]

UpTo(turns, k) == {T \in SUBSET turns : Cardinality(T) =< k}

LEMMA Fewer ==
  ASSUME NEW turns, IsFiniteSet(turns), NEW T \in SUBSET turns, NEW t \in T
  PROVE  /\ IsFiniteSet(T) /\ IsFiniteSet(T \ {t}) /\ T \ {t} \in SUBSET turns
         /\ Cardinality(T) \in Nat /\ Cardinality(T \ {t}) = Cardinality(T) - 1
<1>1. IsFiniteSet(T)
  BY FS_Subset
<1>. QED
  BY <1>1, FS_CardinalityType, FS_RemoveElement

LEMMA SumExists ==
  ASSUME NEW h, NEW turns, IsFiniteSet(turns)
  PROVE  \E f : IsSum(f, h, SUBSET turns)
<1> DEFINE S == {k \in Nat : \E f : IsSum(f, h, UpTo(turns, k))}
<1>1. 0 \in S
  <2>1. UpTo(turns, 0) = {{}}
    <3>1. {} \in UpTo(turns, 0)
      BY FS_EmptySet DEF UpTo
    <3>2. ASSUME NEW T \in UpTo(turns, 0) PROVE T = {}
      <4>1. IsFiniteSet(T) /\ Cardinality(T) =< 0
        BY FS_Subset DEF UpTo
      <4>. QED
        BY <4>1, FS_CardinalityType, FS_EmptySet
    <3>. QED
      BY <3>1, <3>2
  <2>2. IsSum([T \in {{}} |-> 0], h, UpTo(turns, 0))
    BY <2>1 DEF IsSum
  <2>. QED
    BY <2>2
<1>2. ASSUME NEW k \in Nat, k \in S PROVE k + 1 \in S
  <2>1. PICK f : IsSum(f, h, UpTo(turns, k))
    BY <1>2
  <2> DEFINE g == [T \in UpTo(turns, k + 1) |-> IF T = {} THEN 0 ELSE h[First(T)] + f[T \ {First(T)}]]
  <2>2. \A T \in UpTo(turns, k) : T \in UpTo(turns, k + 1) /\ f[T] = g[T]
    <3>1. ASSUME NEW T \in UpTo(turns, k) PROVE T \in UpTo(turns, k + 1)
      <4>1. Cardinality(T) \in Nat
        BY FS_Subset, FS_CardinalityType DEF UpTo
      <4>. QED
        BY <4>1 DEF UpTo
    <3>. QED
      BY <2>1, <3>1 DEF IsSum
  <2>3. ASSUME NEW T \in UpTo(turns, k + 1), T # {}
        PROVE  g[T] = h[First(T)] + g[T \ {First(T)}]
    <3>1. First(T) \in T /\ T \in SUBSET turns
      BY <2>3 DEF First, UpTo
    <3>2. PICK t \in T : t = First(T)
      BY <3>1
    <3>3. /\ T \ {t} \in SUBSET turns
          /\ Cardinality(T) \in Nat /\ Cardinality(T \ {t}) = Cardinality(T) - 1
      BY <3>1, Fewer
    <3>4. Cardinality(T) =< k + 1
      BY DEF UpTo
    <3>5. T \ {t} \in UpTo(turns, k)
      BY <3>3, <3>4 DEF UpTo
    <3>. QED
      BY <2>2, <2>3, <3>2, <3>5
  <2>4. {} \in UpTo(turns, k + 1) => g[{}] = 0
    OBVIOUS
  <2>5. g = [T \in UpTo(turns, k + 1) |-> g[T]]
    OBVIOUS
  <2> HIDE DEF g
  <2>6. IsSum(g, h, UpTo(turns, k + 1))
    BY <2>3, <2>4, <2>5 DEF IsSum
  <2>. QED
    BY <2>6
<1>3. Cardinality(turns) \in S
  <2> HIDE DEF S
  <2>1. Nat \subseteq S
    BY <1>1, <1>2, SetInduction
  <2>. QED
    BY <2>1, FS_CardinalityType
<1>4. UpTo(turns, Cardinality(turns)) = SUBSET turns
  BY FS_Subset DEF UpTo
<1>. QED
  BY <1>3, <1>4

(* Sums of the same turns are the same.                                    *)
LEMMA SumIsOne ==
  ASSUME NEW h, NEW all, NEW turns \in SUBSET all, NEW f, NEW g, IsFiniteSet(all),
         IsSum(f, h, SUBSET turns), IsSum(g, h, SUBSET all)
  PROVE  f[turns] = g[turns]
<1>0. IsFiniteSet(turns)
  BY FS_Subset
<1> DEFINE S == {k \in Nat : \A T \in SUBSET turns : Cardinality(T) = k => f[T] = g[T]}
<1>1. 0 \in S
  <2>1. ASSUME NEW T \in SUBSET turns, Cardinality(T) = 0 PROVE f[T] = g[T]
    <3>1. T = {} /\ T \in SUBSET all
      BY <1>0, <2>1, FS_Subset, FS_EmptySet
    <3>. QED
      BY <3>1 DEF IsSum
  <2>. QED
    BY <2>1
<1>2. ASSUME NEW k \in Nat, k \in S PROVE k + 1 \in S
  <2>1. ASSUME NEW T \in SUBSET turns, Cardinality(T) = k + 1 PROVE f[T] = g[T]
    <3>1. T # {}
      <4>1. Cardinality({}) = 0
        BY FS_EmptySet
      <4>2. T = {} => Cardinality(T) = 0
        BY <4>1
      <4>. QED
        BY <2>1, <4>2
    <3>2. PICK t \in T : t = First(T)
      BY <3>1 DEF First
    <3>3. T \ {t} \in SUBSET turns /\ Cardinality(T \ {t}) = Cardinality(T) - 1
      BY <1>0, Fewer
    <3>4. f[T \ {First(T)}] = g[T \ {First(T)}]
      BY <1>2, <2>1, <3>2, <3>3
    <3>5. f[T] = h[First(T)] + f[T \ {First(T)}]
      BY <3>1 DEF IsSum
    <3>6. g[T] = h[First(T)] + g[T \ {First(T)}]
      BY <3>1 DEF IsSum
    <3>. QED
      BY <3>4, <3>5, <3>6
  <2>. QED
    BY <2>1
<1>3. Cardinality(turns) \in S
  <2> HIDE DEF S
  <2>1. Nat \subseteq S
    BY <1>1, <1>2, SetInduction
  <2>. QED
    BY <1>0, <2>1, FS_CardinalityType
<1>. QED
  BY <1>3

LEMMA TotalIs ==
  ASSUME NEW h, NEW turns, IsFiniteSet(turns)
  PROVE  \E f : IsSum(f, h, SUBSET turns) /\ Total(h, turns) = f[turns]
<1>1. Total(h, turns) = (CHOOSE f : IsSum(f, h, SUBSET turns))[turns]
  BY DEF Total, FoldFunctionOnSet, MapThenFoldSet, IsSum, First
<1>. QED
  BY <1>1, SumExists

LEMMA TotalOfNone == ASSUME NEW h PROVE Total(h, {}) = 0
<1>1. IsFiniteSet({}) /\ {} \in SUBSET {}
  BY FS_EmptySet
<1>2. PICK f : IsSum(f, h, SUBSET {}) /\ Total(h, {}) = f[{}]
  BY <1>1, TotalIs
<1>. QED
  BY <1>1, <1>2 DEF IsSum

LEMMA TotalOfFirst ==
  ASSUME NEW h, NEW turns, IsFiniteSet(turns), turns # {}
  PROVE  Total(h, turns) = h[First(turns)] + Total(h, turns \ {First(turns)})
<1>1. PICK t \in turns : t = First(turns)
  BY DEF First
<1>2. PICK rest : rest = turns \ {t}
  OBVIOUS
<1>3. IsFiniteSet(rest) /\ rest \subseteq turns
  BY <1>2, FS_Subset
<1>4. PICK f : IsSum(f, h, SUBSET turns) /\ Total(h, turns) = f[turns]
  BY TotalIs
<1>5. f[turns] = h[t] + f[rest]
  BY <1>1, <1>2, <1>4 DEF IsSum
<1>6. PICK g : IsSum(g, h, SUBSET rest) /\ Total(h, rest) = g[rest]
  BY <1>3, TotalIs
<1>7. g[rest] = f[rest]
  BY <1>3, <1>4, <1>6, SumIsOne
<1>. QED
  BY <1>1, <1>2, <1>4, <1>5, <1>6, <1>7

(* Which one is taken first makes no difference.                           *)
LEMMA TotalOfMore ==
  ASSUME NEW h, NEW all, IsFiniteSet(all), \A t \in all : h[t] \in Nat, NEW some \in SUBSET all
  PROVE  /\ Total(h, some) \in Nat
         /\ \A t \in some : Total(h, some) = h[t] + Total(h, some \ {t})
<1> DEFINE Fine(T) == Total(h, T) \in Nat /\ \A t \in T : Total(h, T) = h[t] + Total(h, T \ {t})
           S == {k \in Nat : \A T \in SUBSET all : Cardinality(T) =< k => Fine(T)}
<1>0. \A T \in SUBSET all : IsFiniteSet(T) /\ Cardinality(T) \in Nat
  BY FS_Subset, FS_CardinalityType
<1>1. Fine({})
  BY TotalOfNone
<1>2. 0 \in S
  <2>1. ASSUME NEW T \in SUBSET all, Cardinality(T) =< 0 PROVE T = {}
    BY <1>0, <2>1, FS_EmptySet
  <2>. QED
    BY <1>1, <2>1
<1>3. ASSUME NEW k \in Nat, k \in S PROVE k + 1 \in S
  <2> SUFFICES ASSUME NEW T \in SUBSET all, T # {}, Cardinality(T) =< k + 1 PROVE Fine(T)
    BY <1>1
  <2>1. PICK c \in T : c = First(T)
    BY DEF First
  <2>2. Total(h, T) = h[c] + Total(h, T \ {c})
    <3>1. Total(h, T) = h[First(T)] + Total(h, T \ {First(T)})
      BY <1>0, TotalOfFirst
    <3>. QED
      BY <2>1, <3>1
  <2>3. \A R \in SUBSET all : Cardinality(R) =< k => Fine(R)
    BY <1>3
  <2> HIDE DEF S
  <2>4. ASSUME NEW t \in T PROVE T \ {t} \in SUBSET all /\ Fine(T \ {t})
    <3>1. Cardinality(T \ {t}) = Cardinality(T) - 1 /\ Cardinality(T) \in Nat
      BY Fewer
    <3>2. Cardinality(T \ {t}) =< k
      BY <3>1
    <3>. QED
      BY <2>3, <3>2
  <2>5. Total(h, T) \in Nat
    BY <2>2, <2>4
  <2>6. ASSUME NEW t \in T, t # c PROVE Total(h, T) = h[t] + Total(h, T \ {t})
    <3>1. PICK R : R = (T \ {c}) \ {t} /\ R = (T \ {t}) \ {c}
      OBVIOUS
    <3>2. Total(h, T \ {c}) = h[t] + Total(h, R)
      BY <2>4, <2>6, <3>1
    <3>3. Total(h, T \ {t}) = h[c] + Total(h, R)
      BY <2>4, <2>6, <3>1
    <3>4. Total(h, R) \in Nat
      <4>1. Cardinality(T \ {t}) = Cardinality(T) - 1 /\ Cardinality(T) \in Nat
        BY Fewer
      <4>2. Cardinality(R) = Cardinality(T \ {t}) - 1
        <5>1. T \ {t} \in SUBSET all /\ c \in T \ {t}
          BY <2>6
        <5>2. Cardinality((T \ {t}) \ {c}) = Cardinality(T \ {t}) - 1
          BY <5>1, Fewer
        <5>. QED
          BY <3>1, <5>2
      <4>3. R \in SUBSET all /\ Cardinality(R) =< k
        BY <3>1, <4>1, <4>2
      <4>. QED
        BY <2>3, <4>3
    <3>. QED
      BY <2>2, <3>2, <3>3, <3>4
  <2>. QED
    BY <2>2, <2>5, <2>6
<1>4. Nat \subseteq S
  <2> HIDE DEF S
  <2>. QED
    BY <1>2, <1>3, SetInduction
<1>5. ASSUME NEW T \in SUBSET all PROVE Fine(T)
  <2>1. Cardinality(T) \in S
    BY <1>0, <1>4
  <2>. QED
    BY <1>0, <2>1
<1>. QED
  BY <1>5

-----------------------------------------------------------------------------
KeptTurns == {kept[i] : i \in DOMAIN kept}

(* compose_task's loop: of the turns it has looked at it kept those that   *)
(* fit with the newer ones kept, and these have left `budget`.             *)
Fits(shown, t) == history[t] + LengthOf({u \in shown : u > t}) =< REPLAY_CHARS

FitSoFar ==
  /\ KeptTurns \subseteq turn+1..Len(history)
  /\ \A i, j \in DOMAIN kept : i < j => kept[j] < kept[i]
  /\ budget + LengthOf(KeptTurns) = REPLAY_CHARS
  /\ \A t \in turn+1..Len(history) : t \in KeptTurns <=> Fits(KeptTurns, t)

FitInv ==
  /\ task = NoTask => FitSoFar
  /\ NewestThatFitAreShown

LEMMA LengthIs ==
  ASSUME TurnTypeOK, NEW T \in SUBSET (1..Len(history))
  PROVE  /\ LengthOf({}) = 0 /\ LengthOf(T) \in Nat
         /\ \A t \in 1..Len(history) \ T : LengthOf(T \cup {t}) = history[t] + LengthOf(T)
<1>1. IsFiniteSet(1..Len(history)) /\ \A t \in 1..Len(history) : history[t] \in Nat
  <2>1. \A t \in 1..Len(history) : history[t] \in BlockLength
    BY DEF TurnTypeOK
  <2>2. Len(history) \in Nat
    BY DEF TurnTypeOK
  <2>3. IsFiniteSet(1..Len(history))
    BY <2>2, FS_Interval
  <2>. QED
    BY <2>1, <2>3, ComposeAssumption
<1>2. \A S : LengthOf(S) = Total(history, S)
  BY DEF LengthOf, Total
<1>3. PICK all : all = 1..Len(history)
  OBVIOUS
<1>4. IsFiniteSet(all) /\ \A t \in all : history[t] \in Nat
  BY <1>1, <1>3
<1>5. ASSUME NEW t \in all \ T PROVE Total(history, T \cup {t}) = history[t] + Total(history, T)
  <2>1. PICK more \in SUBSET all : more = T \cup {t}
    BY <1>3, <1>5
  <2>2. t \in more /\ more \ {t} = T
    BY <1>5, <2>1
  <2>3. Total(history, more) = history[t] + Total(history, more \ {t})
    BY <1>4, <2>2, TotalOfMore
  <2>. QED
    BY <2>1, <2>2, <2>3
<1>6. LengthOf(T) \in Nat
  <2>1. T \in SUBSET all
    BY <1>3
  <2>2. Total(history, T) \in Nat
    BY <1>4, <2>1, TotalOfMore
  <2>. QED
    BY <1>2, <2>2
<1>7. LengthOf({}) = 0
  BY <1>2, TotalOfNone
<1>. QED
  BY <1>2, <1>3, <1>5, <1>6, <1>7

(* A step of the loop, and its end.                                        *)
LEMMA FitStep ==
  ASSUME IInv, FitInv, ComposeStep
  PROVE  FitInv'
<1>1. /\ history' = history /\ \A S : LengthOf(S)' = LengthOf(S)
      /\ task = NoTask /\ FitSoFar
  <2>1. history' = history /\ task = NoTask
    BY DEF ComposeStep, Keep, Drop, Return, Returns, Looks
  <2>2. \A S : LengthOf(S)' = LengthOf(S)
    BY <2>1, Zenon DEF LengthOf, FoldFunctionOnSet, MapThenFoldSet
  <2>. QED
    BY <2>1, <2>2 DEF FitInv
<1>2. \A S, t : Fits(S, t)' <=> Fits(S, t)
  BY <1>1 DEF Fits
<1>3. PICK n \in Nat : n = Len(history)
  BY DEF IInv, TurnTypeOK
<1>4. turn \in 0..n /\ KeptTurns \subseteq turn+1..n /\ KeptTurns \subseteq 1..n
  BY <1>1, <1>3 DEF IInv, TurnTypeOK, Counted, FitSoFar
<1>5. LengthOf(KeptTurns) \in Nat /\ budget \in Nat /\ budget + LengthOf(KeptTurns) = REPLAY_CHARS
  <2>1. LengthOf(KeptTurns) \in Nat
    BY <1>3, <1>4, LengthIs DEF IInv
  <2>. QED
    BY <1>1, <2>1 DEF FitSoFar, IInv, TurnTypeOK
<1>6. ASSUME Looks
      PROVE  /\ turn \in 1..n /\ history[turn] \in Nat /\ turn \notin KeptTurns
             /\ Fits(KeptTurns, turn) <=> history[turn] =< budget
  <2>1. turn \in 1..n
    <3>1. TooOld \in Nat
      BY <1>3, ComposeAssumption DEF TooOld
    <3>. QED
      BY <1>4, <1>6, <3>1 DEF Looks
  <2>2. history[turn] \in Nat
    <3>1. history[turn] \in BlockLength
      BY <1>3, <2>1 DEF IInv, TurnTypeOK
    <3>. QED
      BY <3>1, ComposeAssumption
  <2>3. {u \in KeptTurns : u > turn} = KeptTurns /\ turn \notin KeptTurns
    <3>1. \A u \in turn+1..n : u > turn
      BY <1>4
    <3>2. \A u \in KeptTurns : u > turn
      BY <1>4, <3>1
    <3>3. ~(turn > turn)
      BY <1>4
    <3>. QED
      BY <3>2, <3>3
  <2>4. Fits(KeptTurns, turn) <=> history[turn] + LengthOf(KeptTurns) =< REPLAY_CHARS
    BY <2>3 DEF Fits
  <2>. QED
    BY <1>5, <2>1, <2>2, <2>3, <2>4
<1>7. CASE Keep
  <2>1. /\ turn \in 1..n /\ history[turn] \in Nat /\ turn \notin KeptTurns /\ Fits(KeptTurns, turn)
        /\ turn' = turn - 1 /\ budget' = budget - history[turn] /\ task' = task
        /\ kept' = Append(kept, turn) /\ kept \in Seq(Nat)
    BY <1>6, <1>7 DEF Keep, IInv, TurnTypeOK
  <2>2. PICK m \in Nat : m = Len(kept)
    BY <2>1
  <2>3. /\ DOMAIN kept = 1..m /\ DOMAIN kept' = 1..m+1
        /\ kept'[m + 1] = turn /\ \A i \in 1..m : kept'[i] = kept[i]
    BY <2>1, <2>2
  <2>4. KeptTurns' = KeptTurns \cup {turn}
    <3>1. \A t \in KeptTurns' : t \in KeptTurns \/ t = turn
      BY <2>3 DEF KeptTurns
    <3>2. KeptTurns \subseteq KeptTurns'
      BY <2>3 DEF KeptTurns
    <3>3. turn \in KeptTurns'
      BY <2>3 DEF KeptTurns
    <3>. QED
      BY <3>1, <3>2, <3>3
  <2>5. KeptTurns' \subseteq turn'+1..n
    BY <1>4, <2>1, <2>4
  <2>6. \A i, j \in DOMAIN kept' : i < j => kept'[j] < kept'[i]
    <3> SUFFICES ASSUME NEW i \in 1..m+1, NEW j \in 1..m+1, i < j PROVE kept'[j] < kept'[i]
      BY <2>3
    <3>1. i \in 1..m /\ kept'[i] = kept[i] /\ kept[i] \in KeptTurns
      BY <2>3 DEF KeptTurns
    <3>2. CASE j = m + 1
      BY <1>4, <2>1, <2>3, <3>1, <3>2
    <3>3. CASE j # m + 1
      <4>1. j \in 1..m
        BY <3>3
      <4>. QED
        BY <1>1, <2>3, <3>1, <4>1 DEF FitSoFar
    <3>. QED
      BY <3>2, <3>3
  <2>7. LengthOf(KeptTurns') = history[turn] + LengthOf(KeptTurns)
    BY <1>3, <1>4, <2>1, <2>4, LengthIs DEF IInv
  <2>8. budget' + LengthOf(KeptTurns') = REPLAY_CHARS
    <3>1. /\ budget \in Int /\ history[turn] \in Int /\ LengthOf(KeptTurns) \in Int
          /\ budget + LengthOf(KeptTurns) = REPLAY_CHARS
      BY <1>5, <2>1
    <3>. QED
      BY <2>1, <2>7, <3>1
  <2>9. ASSUME NEW t \in turn'+1..n PROVE t \in KeptTurns' <=> Fits(KeptTurns', t)
    <3>1. t >= turn
      BY <2>1
    <3>2. {u \in KeptTurns' : u > t} = {u \in KeptTurns : u > t}
      BY <2>1, <2>4, <3>1
    <3>3. Fits(KeptTurns', t) <=> Fits(KeptTurns, t)
      BY <3>2 DEF Fits
    <3>4. CASE t = turn
      BY <2>1, <2>4, <3>3, <3>4
    <3>5. CASE t # turn
      <4>1. t \in turn+1..n
        BY <2>1, <3>1, <3>5
      <4>2. t \in KeptTurns <=> Fits(KeptTurns, t)
        BY <1>1, <1>3, <4>1 DEF FitSoFar
      <4>. QED
        BY <2>4, <3>3, <3>5, <4>2
    <3>. QED
      BY <3>4, <3>5
  <2>10. FitSoFar'
    BY <1>1, <1>3, <2>5, <2>6, <2>8, <2>9 DEF FitSoFar, Fits
  <2>. QED
    BY <1>1, <2>1, <2>10 DEF FitInv, NewestThatFitAreShown
<1>8. CASE Drop
  <2>1. /\ turn \in 1..n /\ turn \notin KeptTurns /\ ~ Fits(KeptTurns, turn)
        /\ turn' = turn - 1 /\ UNCHANGED <<budget, task, kept>> /\ KeptTurns' = KeptTurns
    <3>1. history[turn] > budget /\ turn \in 1..n /\ history[turn] \in Nat /\ turn \notin KeptTurns
      BY <1>6, <1>8 DEF Drop
    <3>2. ~ Fits(KeptTurns, turn)
      BY <1>5, <1>6, <1>8, <3>1 DEF Drop
    <3>. QED
      BY <1>8, <3>1, <3>2 DEF Drop, KeptTurns
  <2>2. ASSUME NEW t \in turn'+1..n PROVE t \in KeptTurns <=> Fits(KeptTurns, t)
    <3>1. t = turn \/ t \in turn+1..n
      BY <2>1
    <3>. QED
      BY <1>1, <1>3, <2>1, <3>1 DEF FitSoFar
  <2>3. KeptTurns \subseteq turn'+1..n
    BY <1>4, <2>1
  <2>4. FitSoFar'
    BY <1>1, <1>3, <2>1, <2>2, <2>3 DEF FitSoFar, Fits
  <2>. QED
    BY <1>1, <2>1, <2>4 DEF FitInv, NewestThatFitAreShown
<1>9. CASE Return
  <2>1. /\ turn = TooOld /\ task' # NoTask /\ task'.turns = Reverse(kept)
    <3>1. task' = [turns |-> Reverse(kept), notShown |-> IF kept = <<>> THEN 0 ELSE dropped + TooOld]
      BY <1>9 DEF Return, Returns
    <3>2. dropped + TooOld \in Nat
      BY <1>3, ComposeAssumption DEF IInv, TurnTypeOK, TooOld
    <3>3. task'.notShown \in Nat /\ NoTask.notShown = -1
      BY <3>1, <3>2 DEF NoTask
    <3>. QED
      BY <1>9, <3>1, <3>3 DEF Return, Returns
  <2>2. PICK m \in Nat : m = Len(kept) /\ DOMAIN kept = 1..m
    BY DEF IInv, TurnTypeOK
  <2>3. DOMAIN Reverse(kept) = 1..m /\ \A i \in 1..m : Reverse(kept)[i] = kept[m - i + 1]
    BY <2>2 DEF Reverse
  <2>4. Shown' = KeptTurns
    <3>1. ASSUME NEW t \in KeptTurns PROVE t \in Shown'
      <4>1. PICK i \in 1..m : t = kept[i]
        BY <2>2 DEF KeptTurns
      <4>2. m - i + 1 \in 1..m /\ m - (m - i + 1) + 1 = i
        BY <2>2
      <4>. QED
        BY <2>1, <2>3, <4>1, <4>2 DEF Shown
    <3>2. ASSUME NEW t \in Shown' PROVE t \in KeptTurns
      <4>1. PICK i \in 1..m : t = kept[m - i + 1]
        BY <2>1, <2>3 DEF Shown
      <4>2. m - i + 1 \in 1..m
        BY <2>2
      <4>. QED
        BY <2>2, <4>1, <4>2 DEF KeptTurns
    <3>. QED
      BY <3>1, <3>2
  <2>5. ASSUME NEW t \in 1..n
        PROVE  t \in KeptTurns <=> n - t < REPLAY_TURNS /\ Fits(KeptTurns, t)
    <3>1. CASE t > turn
      <4>1. n - t < REPLAY_TURNS
        BY <1>3, <2>1, <3>1, ComposeAssumption DEF TooOld
      <4>2. t \in turn+1..n
        BY <1>4, <3>1
      <4>. QED
        BY <1>1, <1>3, <4>1, <4>2 DEF FitSoFar
    <3>2. CASE t =< turn
      <4>1. ~ (n - t < REPLAY_TURNS)
        BY <1>3, <2>1, <3>2, ComposeAssumption DEF TooOld
      <4>2. t \notin KeptTurns
        BY <1>4, <3>2
      <4>. QED
        BY <4>1, <4>2
    <3>. QED
      BY <1>4, <3>1, <3>2
  <2>6. ASSUME NEW i \in 1..m, NEW j \in 1..m, i < j
        PROVE  Reverse(kept)[i] < Reverse(kept)[j]
    <3>1. m - i + 1 \in 1..m /\ m - j + 1 \in 1..m /\ m - j + 1 < m - i + 1
      BY <2>2, <2>6
    <3>2. kept[m - i + 1] < kept[m - j + 1]
      BY <1>1, <2>2, <3>1 DEF FitSoFar
    <3>. QED
      BY <2>3, <3>2
  <2>7. NewestThatFitAreShown'
    <3>1. DOMAIN history = 1..n
      BY <1>3 DEF IInv, TurnTypeOK
    <3>2. \A t \in 1..n : t \in KeptTurns <=>
            n - t < REPLAY_TURNS /\ history[t] + LengthOf({u \in KeptTurns : u > t}) =< REPLAY_CHARS
      BY <2>5 DEF Fits
    <3>3. \A t \in DOMAIN history : t \in Shown' <=>
             /\ Len(history) - t < REPLAY_TURNS
             /\ history[t] + LengthOf({u \in Shown' : u > t}) =< REPLAY_CHARS
      BY <1>3, <2>4, <3>1, <3>2
    <3>4. \A i, j \in DOMAIN task'.turns : i < j => task'.turns[i] < task'.turns[j]
      BY <2>1, <2>3, <2>6
    <3>. QED
      BY <1>1, <3>3, <3>4 DEF NewestThatFitAreShown
  <2>. QED
    BY <2>1, <2>7 DEF FitInv
<1>. QED
  BY <1>7, <1>8, <1>9 DEF ComposeStep

LEMMA FitNext == IInv /\ FitInv /\ [Next]_vars => FitInv'
<1> SUFFICES ASSUME IInv, FitInv, [Next]_vars
             PROVE  FitInv'
  OBVIOUS
<1>1. CASE ComposeStep
  BY <1>1, FitStep
<1>2. CASE run
  <2>1. /\ turn' = Len(history') /\ kept' = <<>> /\ budget' = REPLAY_CHARS /\ task' = NoTask
        /\ Len(history') \in Nat
    BY <1>2 DEF run
  <2>2. KeptTurns' = {} /\ DOMAIN kept' = {} /\ turn'+1..Len(history') = {}
    BY <2>1 DEF KeptTurns
  <2>3. LengthOf({})' = 0
    <3>1. PICK h : h = history'
      OBVIOUS
    <3>2. LengthOf({})' = Total(h, {})
      BY <3>1, Zenon DEF LengthOf, Total, FoldFunctionOnSet, MapThenFoldSet
    <3>. QED
      BY <3>2, TotalOfNone
  <2>. QED
    BY <2>1, <2>2, <2>3, ComposeAssumption DEF FitInv, FitSoFar, NewestThatFitAreShown
<1>3. CASE UNCHANGED composeVars
  <2>1. history' = history /\ UNCHANGED <<turn, kept, budget, task>>
    BY <1>3 DEF composeVars
  <2>2. \A S : LengthOf(S)' = LengthOf(S)
    BY <2>1, Zenon DEF LengthOf, FoldFunctionOnSet, MapThenFoldSet
  <2>3. FitSoFar => FitSoFar'
    BY <2>1, <2>2 DEF FitSoFar, Fits, KeptTurns
  <2>4. NewestThatFitAreShown'
    BY <2>1, <2>2 DEF FitInv, NewestThatFitAreShown, Shown
  <2>. QED
    BY <2>1, <2>3, <2>4 DEF FitInv
<1>. QED
  BY <1>1, <1>2, <1>3 DEF Next, vars, record_incident

(* compose_task shows the newest turns that fit, for any history and any   *)
(* budget.                                                                 *)
THEOREM ShownAreThoseThatFit == Spec => []NewestThatFitAreShown
<1>1. Init => FitInv
  <2> SUFFICES ASSUME Init PROVE FitInv
    OBVIOUS
  <2>1. IInv
    BY InitInv
  <2>2. /\ turn = Len(history) /\ kept = <<>> /\ budget = REPLAY_CHARS /\ task = NoTask
        /\ Len(history) \in Nat
    BY <2>1 DEF Init, ComposeBegins, IInv, TurnTypeOK
  <2>3. KeptTurns = {} /\ DOMAIN kept = {} /\ turn+1..Len(history) = {}
    BY <2>2 DEF KeptTurns
  <2>4. LengthOf({}) = 0
    BY TotalOfNone DEF LengthOf, Total
  <2>. QED
    BY <2>2, <2>3, <2>4, ComposeAssumption DEF FitInv, FitSoFar, NewestThatFitAreShown
<1>2. FitInv => NewestThatFitAreShown
  BY DEF FitInv
<1>. QED
  BY <1>1, <1>2, FitNext, TurnInvariance, PTL DEF Spec
=============================================================================
