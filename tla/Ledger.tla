-------------------------------- MODULE Ledger --------------------------------
(***************************************************************************)
(* The auth ledger (cagent_api/ledger.py): an append-only file of events,  *)
(* read and written by the server and by one-shot `cagent-ledger` calls    *)
(* (ledger_cli.py).  An append and a read each hold the file's flock, so   *)
(* each is one step; what a call does between them is not locked.          *)
(*                                                                         *)
(* An entry is its state: the rest of it is for people.                    *)
(***************************************************************************)
EXTENDS Naturals, SequencesExt

CONSTANTS
  Serial,      \* serials of certificates
  Cli,         \* `cagent-ledger` processes that may run side by side
  MaxEvents    \* bound: events in the file

ASSUME LedgerAssumption == MaxEvents \in Nat

VARIABLES
  log,       \* the file's events
  cli        \* of each process: where it is, and its command

ledgerVars == <<log, cli>>

Action == {"register", "revoke", "reactivate"}
Event == [action: Action, serial: Serial]

EntryState == {"none", "active", "revoked"}
-----------------------------------------------------------------------------
(* One event of _fold.  Mutation: a registration does not replace.         *)
AppliedOnce(entries, e) ==
  IF (e.action = "register") = (entries[e.serial] = "none")
  THEN [entries EXCEPT ![e.serial] = IF e.action = "revoke" THEN "revoked" ELSE "active"]
  ELSE entries

Applied(entries, e) ==
  IF e.action = "register" \/ entries[e.serial] # "none"
  THEN [entries EXCEPT ![e.serial] = IF e.action = "revoke" THEN "revoked" ELSE "active"]
  ELSE entries

Fold(events) == FoldLeft(Applied, [s \in Serial |-> "none"], events)

(* The entry of s when the file had n events, and now.                     *)
GetAt(s, n) == Fold(SubSeq(log, 1, n))[s]
Get(s) == Fold(log)[s]
-----------------------------------------------------------------------------
AtStep(c, step) == cli' = [cli EXCEPT ![c].at = step]

Idle == [at |-> "idle", action |-> "none", serial |-> "none"]

LedgerInit ==
  /\ log = <<>>
  /\ cli = [c \in Cli |-> Idle]

(* `cagent-ledger register`, `revoke` or `reactivate`.                     *)
Command(c, action, s) ==
  /\ cli[c] = Idle
  /\ cli' = [cli EXCEPT ![c] =
       [at |-> IF action = "register" THEN "append" ELSE "check",
        action |-> action, serial |-> s]]
  /\ UNCHANGED log

(* Mutation: nothing is checked.                                           *)
CheckNothing(c) ==
  /\ cli[c].at = "check"
  /\ AtStep(c, "append")
  /\ UNCHANGED log

(* revoke and reactivate: NotRegisteredError, and the call is over.        *)
Check(c) ==
  /\ cli[c].at = "check"
  /\ IF Get(cli[c].serial) = "none"
     THEN cli' = [cli EXCEPT ![c] = Idle]
     ELSE AtStep(c, "append")
  /\ UNCHANGED log

AppendTo(c) ==
  /\ cli[c].at = "append"
  /\ Len(log) < MaxEvents
  /\ log' = Append(log, [action |-> cli[c].action, serial |-> cli[c].serial])
  /\ AtStep(c, "report")

(* The entry is read again and printed.                                    *)
Report(c) ==
  /\ cli[c].at = "report"
  /\ cli' = [cli EXCEPT ![c] = Idle]
  /\ UNCHANGED log

(* A call is killed, or cannot write.                                      *)
CliDies(c) ==
  /\ cli[c] # Idle
  /\ cli' = [cli EXCEPT ![c] = Idle]
  /\ UNCHANGED log

CliStep(c) ==
  \/ \E action \in Action, s \in Serial : Command(c, action, s)
  \/ Check(c) \/ AppendTo(c) \/ Report(c) \/ CliDies(c)
-----------------------------------------------------------------------------
CliCall == [at: {"idle", "check", "append", "report"},
            action: Action \cup {"none"}, serial: Serial \cup {"none"}]

(* Both variables keep their types.                                        *)
LedgerTypeOK ==
  /\ log \in Seq(Event)
  /\ cli \in [Cli -> CliCall]
  /\ \A c \in Cli : cli[c] # Idle => cli[c].action \in Action /\ cli[c].serial \in Serial

(* The check of one call and its append are apart, and other calls go on   *)
(* between them: still no event falls on a serial without an entry, where  *)
(* the fold would drop it, and a call that reports has an entry to print.  *)
NothingFallsOnNothing ==
  /\ \A i \in 1..Len(log) : log[i].action # "register" => GetAt(log[i].serial, i - 1) # "none"
  /\ \A c \in Cli : cli[c].at = "report" => Get(cli[c].serial) # "none"

(* Whatever calls wrote, in whatever order, an entry is what the last      *)
(* event of its serial made it: a revoked certificate that is registered   *)
(* or reactivated again is active, and one revoked last is not.            *)
EntryIsLastEvent ==
  \A s \in Serial :
    LET events == {i \in 1..Len(log) : log[i].serial = s}
    IN Get(s) = IF events = {} THEN "none"
                ELSE IF log[Max(events)].action = "revoke" THEN "revoked" ELSE "active"
=============================================================================
