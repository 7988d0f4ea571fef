------------------------------ MODULE Enrollment ------------------------------
(***************************************************************************)
(* How a node comes to be let in: operators run `cagent-ca`                *)
(* (cagent_api/ca_cli.py over ca.py) to create the CA, the server's        *)
(* certificate and the nodes', register what it prints with                *)
(* `cagent-ledger`, and start the server (main.py), which reads the files  *)
(* once.  The commands share files and no lock, and may be killed between  *)
(* any two of their writes.                                                *)
(*                                                                         *)
(* A key is its number, and a certificate is [key, by]: the key it is for  *)
(* and the key that signed it.                                             *)
(***************************************************************************)
EXTENDS Ledger

CONSTANTS
  Operator,   \* `cagent-ca` processes that may run side by side
  Number,     \* serial numbers the nodes' certificates may be given
  MaxKeys     \* bound: keys generated for the CA and the server

ASSUME EnrollmentAssumption == Number \subseteq Nat \ {0} /\ MaxKeys \in Nat

VARIABLES
  file,       \* what each file holds
  keys,       \* how many keys were generated
  op,         \* of each process: where it is, the CA key it read, what it
              \* has still to write, which file it has open, and the number
              \* of the node certificate
  issued,     \* certificates the nodes have, with their printed serials
  replaced,   \* how a CA may have come to be replaced so far: "forced" when
              \* --force overwrote one, "raced" when an `init` passed its
              \* check while another was still writing
  server      \* the API server: the CA it trusts and its own certificate

vars == <<ledgerVars, file, keys, op, issued, replaced, server>>

File == {"ca_key", "ca_cert", "server_key", "server_cert"}

Absent == [key |-> 0, by |-> 1]
Torn == [key |-> 0, by |-> 0]
Cert(key, by) == [key |-> key, by |-> by]
Whole(content) == content.key > 0

Doing(at, by, todo) == [at |-> at, by |-> by, todo |-> todo, open |-> "none", number |-> 0]
Free == Doing("idle", 0, <<>>)
Down == [up |-> FALSE, trusts |-> 0, by |-> 0]
-----------------------------------------------------------------------------
(* The digits of format(n, "x").                                           *)
Digits[n \in Nat] == IF n < 16 THEN <<n>> ELSE Append(Digits[n \div 16], n % 16)

(* Mutation: as it was before the fix its comment tells of.                *)
serial_unpadded(n) == Digits[n]

serial_number_to_hex(n) ==
  IF Len(Digits[n]) % 2 = 1 THEN <<0>> \o Digits[n] ELSE Digits[n]

(* The serial number getpeercert reports: two digits for each byte.        *)
Octets[n \in Nat] ==
  LET byte == <<(n % 256) \div 16, n % 16>>
  IN IF n < 256 THEN byte ELSE Octets[n \div 256] \o byte

(* What extract_node_identity makes of a certificate of that number.       *)
presented(n) == Octets[n]

(* What is printed of a certificate is a serial.                           *)
ASSUME SerialAssumption == \A n \in Number : serial_number_to_hex(n) \in Serial
-----------------------------------------------------------------------------
Init ==
  /\ LedgerInit
  /\ file = [f \in File |-> Absent]
  /\ keys = 0
  /\ op = [o \in Operator |-> Free]
  /\ issued = {}
  /\ replaced = {}
  /\ server = Down

Goes(o, next) == op' = [op EXCEPT ![o] = next]

Write(f, content) == [file |-> f, content |-> content]

Creating(o) == op[o].at = "init"

(* The key and the self-signed certificate, to be written in that order.   *)
Build(o) ==
  /\ keys < MaxKeys
  /\ keys' = keys + 1
  /\ LET new == Cert(keys + 1, keys + 1)
     IN Goes(o, Doing("init", 0, <<Write("ca_key", new), Write("ca_cert", new)>>))
  /\ UNCHANGED <<ledgerVars, file, issued, server>>

Exists == file["ca_key"] # Absent \/ file["ca_cert"] # Absent

Create(o, force) ==
  /\ op[o] = Free
  /\ Build(o)
  /\ replaced' = replaced
       \cup { how \in {"forced"} : force /\ Exists }
       \cup { how \in {"raced"} : \E p \in Operator : Creating(p) }

(* Mutation: it always goes ahead.                                         *)
init_unchecked(o, force) == Create(o, force)

(* `cagent-ca init [--force]`: SystemExit when there is a CA, or half one. *)
init(o, force) ==
  /\ force \/ ~Exists
  /\ Create(o, force)

(* _load_ca: both files are there, and then the key is read.               *)
load_ca(o) ==
  /\ op[o] = Free
  /\ file["ca_key"] # Absent /\ file["ca_cert"] # Absent
  /\ Whole(file["ca_key"])
  /\ Goes(o, Doing("loaded", file["ca_key"].key, <<>>))
  /\ UNCHANGED <<ledgerVars, file, keys, issued, replaced, server>>

(* The CA's certificate is read, for its subject: every CA's is the same.  *)
Loaded(o) == op[o].at = "loaded" /\ Whole(file["ca_cert"])

sign_server(o) ==
  /\ Loaded(o)
  /\ keys < MaxKeys
  /\ keys' = keys + 1
  /\ Goes(o, Doing("write", 0, <<Write("server_key", Cert(keys + 1, keys + 1)),
                                 Write("server_cert", Cert(keys + 1, op[o].by))>>))
  /\ UNCHANGED <<ledgerVars, file, issued, replaced, server>>

(* Serial numbers are random: no two certificates have the same.           *)
sign_node(o, n) ==
  /\ Loaded(o)
  /\ \A c \in issued : c.number # n
  /\ \A p \in Operator : op[p].number # n
  /\ Goes(o, [op[o] EXCEPT !.at = "sign", !.number = n])
  /\ UNCHANGED <<ledgerVars, file, keys, issued, replaced, server>>

(* The certificate is written, and the command that registers it printed.  *)
hand_over(o) ==
  /\ op[o].at = "sign"
  /\ issued' = issued \cup {[number |-> op[o].number, by |-> op[o].by]}
  /\ Goes(o, Free)
  /\ UNCHANGED <<ledgerVars, file, keys, replaced, server>>

(* write_bytes: the file is emptied, ...                                   *)
truncate(o) ==
  /\ op[o].todo # <<>> /\ op[o].open = "none"
  /\ file' = [file EXCEPT ![Head(op[o].todo).file] = Torn]
  /\ Goes(o, [op[o] EXCEPT !.open = Head(op[o].todo).file])
  /\ UNCHANGED <<ledgerVars, keys, issued, replaced, server>>

(* ... and then holds the bytes; the process ends after its last file.     *)
fill(o) ==
  /\ op[o].open # "none"
  /\ file' = [file EXCEPT ![Head(op[o].todo).file] = Head(op[o].todo).content]
  /\ Goes(o, IF Tail(op[o].todo) = <<>> THEN Free
             ELSE [op[o] EXCEPT !.todo = Tail(@), !.open = "none"])
  /\ UNCHANGED <<ledgerVars, keys, issued, replaced, server>>

(* It is killed, or raises: a file it was to read is torn.                 *)
operator_dies(o) ==
  /\ op[o] # Free
  /\ Goes(o, Free)
  /\ UNCHANGED <<ledgerVars, file, keys, issued, replaced, server>>

(* The contexts of the listeners are made: the server's key must be its    *)
(* certificate's, and the CA's certificate readable.                       *)
start ==
  /\ ~server.up
  /\ Whole(file["server_key"]) /\ Whole(file["server_cert"])
  /\ file["server_key"].key = file["server_cert"].key
  /\ Whole(file["ca_cert"])
  /\ server' = [up |-> TRUE, trusts |-> file["ca_cert"].key,
                by |-> file["server_cert"].by]
  /\ UNCHANGED <<ledgerVars, file, keys, op, issued, replaced>>

stop ==
  /\ server.up
  /\ server' = Down
  /\ UNCHANGED <<ledgerVars, file, keys, op, issued, replaced>>

(* An operator copies the printed command, or writes one for that serial.  *)
ledger_step(c) ==
  /\ \/ \E cert \in issued, action \in Action :
          Command(c, action, serial_number_to_hex(cert.number))
     \/ Check(c) \/ AppendTo(c) \/ Report(c) \/ CliDies(c)
  /\ UNCHANGED <<file, keys, op, issued, replaced, server>>

OperatorStep(o) ==
  \/ \E force \in BOOLEAN : init(o, force)
  \/ load_ca(o) \/ sign_server(o)
  \/ \E n \in Number : sign_node(o, n)
  \/ hand_over(o) \/ truncate(o) \/ fill(o) \/ operator_dies(o)

Next ==
  \/ \E o \in Operator : OperatorStep(o)
  \/ start \/ stop
  \/ \E c \in Cli : ledger_step(c)

Spec == Init /\ [][Next]_vars
-----------------------------------------------------------------------------
(* "Use --force to overwrite -- this invalidates every certificate signed  *)
(* by the old CA", and nothing else does: unless a CA was overwritten, or  *)
(* two created at once, every certificate verifies under the CA on disk,   *)
(* which is whole, and under the one a running server trusts, whose own    *)
(* certificate the nodes can verify, whatever commands ran side by side    *)
(* and wherever they were killed.                                          *)
NoCertificateIsOrphaned ==
  replaced = {} =>
    /\ \A c \in issued :
         /\ c.by = file["ca_key"].key /\ c.by = file["ca_cert"].key
         /\ server.up => server.trusts = c.by
    /\ server.up => server.by = server.trusts

(* What the last command registered, revoked or reactivated of the printed *)
(* serial is what the door finds under the serial the handshake presents:  *)
(* the node is let in exactly when the operator said so.                   *)
Commanded(cert) ==
  LET events == {i \in 1..Len(log) : log[i].serial = serial_number_to_hex(cert.number)}
  IN events # {} /\ log[Max(events)].action # "revoke"

LetIn(cert) == server.trusts = cert.by /\ Get(presented(cert.number)) = "active"

RegisteredIsRecognised ==
  server.up /\ replaced = {} => \A cert \in issued : LetIn(cert) <=> Commanded(cert)
=============================================================================
