------------------------------- MODULE Incident -------------------------------
(***************************************************************************)
(* Incident reports (cagent_api/incident.py): a report is a file, named    *)
(* after the second and the report's first words.  Reports are written by  *)
(* the agent's tool (agent_runner.py) and by people's calls of the         *)
(* script, side by side, and any of them may be killed.                    *)
(***************************************************************************)
EXTENDS Naturals

CONSTANTS
  Report,     \* calls of write_incident, each with a report of its own
  Incident,   \* names: a second and a slug
  IdOf        \* the name a report has

ASSUME IncidentAssumption == IdOf \in [Report -> Incident]

VARIABLES
  files,    \* the files there are: a path, and the report in it
  writer,   \* of each call: where it is, and the suffix it tries
  beside    \* history: the calls that were at work while this one was

incidentVars == <<files, writer, beside>>

Path == Incident \X (Nat \ {0})
Empty == "empty"

(* What two calls leave that both wrote to a file.                         *)
Mixed == "mixed"

(* <id>.md, <id>-2.md, <id>-3.md, ...                                      *)
PathOf(p) == <<IdOf[p], writer[p].suffix>>

path_exists(f) == \E x \in files : x.path = f
Holds(f, text) == [path |-> f, text |-> text] \in files

Put(f, text) == files' = {x \in files : x.path # f} \cup {[path |-> f, text |-> text]}

At(p, step) == writer[p].at = step
AtWork(p) == writer[p].at \in {"exists", "open", "write"}
WriterGoes(p, step) == writer' = [writer EXCEPT ![p].at = step]
-----------------------------------------------------------------------------
IncidentInit ==
  /\ files = {}
  /\ writer = [p \in Report |-> [at |-> "unwritten", suffix |-> 1]]
  /\ beside = [p \in Report |-> {}]

write_incident(p) ==
  /\ At(p, "unwritten")
  /\ WriterGoes(p, "exists")
  /\ beside' = [q \in Report |->
       IF q = p THEN {o \in Report : AtWork(o)}
       ELSE IF AtWork(q) THEN beside[q] \cup {p} ELSE beside[q]]
  /\ UNCHANGED files

(* while path.exists(): the next suffix.  Mutation: if path.exists().      *)
exists_once(p) ==
  /\ At(p, "exists")
  /\ writer' = [writer EXCEPT ![p] =
       [at |-> "open", suffix |-> IF path_exists(PathOf(p)) THEN 2 ELSE 1]]
  /\ UNCHANGED <<files, beside>>

exists(p) ==
  /\ At(p, "exists")
  /\ writer' = [writer EXCEPT ![p] =
       IF path_exists(PathOf(p)) THEN [at |-> "exists", suffix |-> @.suffix + 1]
       ELSE [at |-> "open", suffix |-> @.suffix]]
  /\ UNCHANGED <<files, beside>>

(* write_text: opened, which empties it, and written, from the start: what *)
(* another call wrote meanwhile stays behind a shorter report.             *)
open(p) ==
  /\ At(p, "open")
  /\ Put(PathOf(p), Empty)
  /\ WriterGoes(p, "write")
  /\ UNCHANGED beside

write_text(p) ==
  /\ At(p, "write")
  /\ \E text \in {p} \cup {t \in {Mixed} : ~ Holds(PathOf(p), Empty)} : Put(PathOf(p), text)
  /\ WriterGoes(p, "recorded")
  /\ UNCHANGED beside

(* The call is killed, or cannot write.                                    *)
writer_dies(p) ==
  /\ AtWork(p)
  /\ WriterGoes(p, "dead")
  /\ UNCHANGED <<files, beside>>

IncidentStep ==
  \E p \in Report :
    write_incident(p) \/ exists(p) \/ open(p) \/ write_text(p) \/ writer_dies(p)
-----------------------------------------------------------------------------
(* "A second report in the same second is a collision, not an overwrite":  *)
(* a report whose call returned has its file for good, whatever is written *)
(* before and after it, and wherever that is killed.  Only of calls that   *)
(* were at work side by side (exists, then write) may several take the     *)
(* same name; then the file holds the report of one of them, or what their *)
(* writing over each other, or its end half way, left, never another's.    *)
Taken(p) ==
  \E q \in beside[p] :
    PathOf(q) = PathOf(p) /\ \E text \in {q, Empty, Mixed} : Holds(PathOf(p), text)

ReportIsKept ==
  \A p \in Report : At(p, "recorded") => Holds(PathOf(p), p) \/ Taken(p)
=============================================================================
