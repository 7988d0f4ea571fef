--------------------------------- MODULE Auth ---------------------------------
(***************************************************************************)
(* A node's request, up to its handler (cagent_api/auth.py): the ledger is *)
(* asked, then Nautobot (node_resolver.py), neither answer is cached, and  *)
(* operators change both meanwhile.  The TLS handshake has already tied    *)
(* the serial to the node.                                                 *)
(***************************************************************************)
EXTENDS Ledger

CONSTANTS
  Uuid,         \* DesiredNodes
  NodeOf,       \* the node a certificate was signed for
  Handler,      \* handler threads of the node listener
  MaxChanges    \* bound: changes of DesiredNodes

ASSUME AuthAssumption == NodeOf \in [Serial -> Uuid] /\ MaxChanges \in Nat

VARIABLES
  nautobot,   \* the DesiredNodes, after each change there was
  call        \* of each handler: where it is, the certificate, and how much
              \* had happened when the request arrived

vars == <<ledgerVars, nautobot, call>>

(* A node's lifecycle; "active" is any but retired.                        *)
Lifecycle == {"absent", "retired", "active"}

(* is_valid, when Nautobot had seen n changes.                             *)
IsValidAt(u, n) == nautobot[n][u] \notin {"absent", "retired"}

NoCall == [at |-> "idle", serial |-> "none", events |-> 0, changes |-> 0]
-----------------------------------------------------------------------------
Init ==
  /\ LedgerInit
  /\ nautobot \in {<<nodes>> : nodes \in [Uuid -> Lifecycle]}
  /\ call = [h \in Handler |-> NoCall]

Goes(h, step) == call' = [call EXCEPT ![h].at = step]

(* A request arrives over a connection with a client certificate.          *)
Arrive(h, s) ==
  /\ call[h].at = "idle"
  /\ call' = [call EXCEPT ![h] =
       [at |-> "ledger", serial |-> s, events |-> Len(log), changes |-> Len(nautobot)]]
  /\ UNCHANGED <<ledgerVars, nautobot>>

(* 403 unless the certificate is registered and active.  Mutation: the     *)
(* writer of the last event has not flushed it.                            *)
AskLedgerOf(h, events) ==
  /\ call[h].at = "ledger"
  /\ Goes(h, IF Fold(events)[call[h].serial] = "active" THEN "node" ELSE "refused")
  /\ UNCHANGED <<ledgerVars, nautobot>>

AskLedgerUnflushed(h) == AskLedgerOf(h, SubSeq(log, 1, Len(log) - 1))

AskLedger(h) == AskLedgerOf(h, log)

(* 403 unless the node is valid; 502 when Nautobot cannot be asked.        *)
(* Mutation: a retired node is a node.                                     *)
AskNautobotExists(h) ==
  /\ call[h].at = "node"
  /\ Goes(h, IF Last(nautobot)[NodeOf[call[h].serial]] # "absent" THEN "admitted" ELSE "refused")
  /\ UNCHANGED <<ledgerVars, nautobot>>

AskNautobot(h) ==
  /\ call[h].at = "node"
  /\ \/ Goes(h, IF IsValidAt(NodeOf[call[h].serial], Len(nautobot)) THEN "admitted" ELSE "refused")
     \/ Goes(h, "refused")
  /\ UNCHANGED <<ledgerVars, nautobot>>

(* The handler runs, or the error is sent.                                 *)
Done(h) ==
  /\ call[h].at \in {"admitted", "refused"}
  /\ call' = [call EXCEPT ![h] = NoCall]
  /\ UNCHANGED <<ledgerVars, nautobot>>

(* nctl and Nautobot's users create, retire and prune nodes.               *)
ChangeNode(u, lifecycle) ==
  /\ Len(nautobot) =< MaxChanges
  /\ nautobot' = Append(nautobot, [nautobot[Len(nautobot)] EXCEPT ![u] = lifecycle])
  /\ UNCHANGED <<ledgerVars, call>>

Next ==
  \/ \E c \in Cli : CliStep(c) /\ UNCHANGED <<nautobot, call>>
  \/ \E h \in Handler : (\E s \in Serial : Arrive(h, s)) \/ AskLedger(h) \/ AskNautobot(h) \/ Done(h)
  \/ \E u \in Uuid, lifecycle \in Lifecycle : ChangeNode(u, lifecycle)

Spec == Init /\ [][Next]_vars
-----------------------------------------------------------------------------
(* Every variable keeps its type.                                          *)
TypeOK ==
  /\ LedgerTypeOK
  /\ nautobot \in Seq([Uuid -> Lifecycle]) /\ nautobot # <<>>
  /\ call \in [Handler -> [at: {"idle", "ledger", "node", "admitted", "refused"},
                           serial: Serial \cup {"none"}, events: Nat, changes: Nat]]
  /\ \A h \in Handler :
       /\ call[h].at # "idle" => call[h].serial \in Serial /\ call[h].changes > 0
       /\ call[h].events =< Len(log) /\ call[h].changes =< Len(nautobot)

(* "Ledger revocation or DesiredNode pruning must take effect immediately":*)
(* who is admitted had an active entry at some moment of the request, ...  *)
ActiveMeanwhile(h) ==
  \E n \in call[h].events..Len(log) : GetAt(call[h].serial, n) = "active"

RevocationIsImmediate ==
  \A h \in Handler : call[h].at = "admitted" => ActiveMeanwhile(h)

(* ... and a valid node at some moment of it, so that whoever prunes a     *)
(* node need not revoke its certificates.                                  *)
ValidMeanwhile(h) ==
  \E n \in call[h].changes..Len(nautobot) : IsValidAt(NodeOf[call[h].serial], n)

PruneIsRevocation ==
  \A h \in Handler : call[h].at = "admitted" => ValidMeanwhile(h)

(* Why both hold: what a handler was told stays said of that moment.       *)
AskedInv ==
  \A h \in Handler :
    /\ call[h].at \in {"node", "admitted"} => ActiveMeanwhile(h)
    /\ call[h].at = "admitted" => ValidMeanwhile(h)
=============================================================================
