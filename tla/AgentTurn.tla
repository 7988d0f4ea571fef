------------------------------ MODULE AgentTurn -------------------------------
(***************************************************************************)
(* What surrounds the agent in a turn of the window: the task composed for *)
(* it (worker.py, _process), and its calls of the tools: of nctl, with the *)
(* tool (agent_runner.py, window_tools) or, as a topic's operator, with    *)
(* the `cagent` command (role_run.py), and of record_incident, beside      *)
(* which people report too.  The agent calls what it likes.  As the two    *)
(* tools share nothing, the reports come after the nctl calls here.        *)
(***************************************************************************)
EXTENDS ComposeTask, ReadonlyNctl, Incident, FiniteSets

CONSTANT MaxTokens   \* bound: tokens of a call of the tool

ASSUME AgentTurnAssumption == MaxTokens \in Nat

VARIABLE agent   \* "waits" for its task, "runs", "reports"

vars == <<composeVars, nctlVars, incidentVars, agent>>

Tokens == [name: Word, sep: BOOLEAN]

(* Values and ids are whole tokens.                                        *)
Values == [name: Word, sep: {FALSE}]
-----------------------------------------------------------------------------
Init ==
  /\ \E turns \in SeqOf(BlockLength, MaxHistory) : ComposeBegins(turns)
  /\ NctlIdle /\ IncidentInit /\ agent = "waits"

(* The run has the task, and compose_task's locals are gone.               *)
run ==
  /\ task # NoTask /\ agent = "waits"
  /\ agent' = "runs"
  /\ history' = <<>> /\ turn' = 0 /\ kept' = <<>> /\ budget' = REPLAY_CHARS
  /\ dropped' = 0 /\ task' = NoTask
  /\ UNCHANGED <<nctlVars, incidentVars>>

(* A call of the tool; one whose quotes do not match has no tokens.        *)
nctl_readonly ==
  /\ verdict = "none"
  /\ \E tokens \in SeqOf(Tokens, MaxTokens) : Validate(tokens, <<>>)

(* A call of the command.  Quoting and splitting give the tokens back.     *)
cagent ==
  /\ verdict = "none"
  /\ \E f \in Parsed(Values) : Validate(compose(f), f)

record_incident ==
  /\ agent = "runs" /\ verdict = "none"
  /\ agent' = "reports"
  /\ UNCHANGED <<composeVars, nctlVars, incidentVars>>

Next ==
  \/ agent = "waits" /\ ComposeStep /\ UNCHANGED <<nctlVars, incidentVars, agent>>
  \/ run
  \/ /\ agent = "runs" /\ (nctl_readonly \/ cagent \/ NctlStep)
     /\ UNCHANGED <<composeVars, incidentVars, agent>>
  \/ record_incident
  \/ agent = "reports" /\ IncidentStep /\ UNCHANGED <<composeVars, nctlVars, agent>>

Spec == Init /\ [][Next]_vars
-----------------------------------------------------------------------------
Name == Word \cup NCTL_SWITCHES \cup NCTL_OPTIONS
          \cup {"status", "drift", "relations", "actual", "ops", "list", "show"}
Tok == [name: Name, sep: BOOLEAN]

(* Every variable keeps its type.                                          *)
TurnTypeOK ==
  /\ history \in Seq(BlockLength) /\ turn \in Nat /\ kept \in Seq(Nat)
  /\ budget \in Nat /\ dropped \in Nat
  /\ task \in [turns: Seq(Nat), notShown: Nat \cup {-1}]
  /\ parts \in Seq(Tok)
  /\ match \in NCTL_SUBCOMMANDS \cup {NoMatch}
  /\ index \in Nat \ {0} /\ positionals \in Nat
  /\ verdict \in {"none", "reading", "accepted", "refused"}
  /\ form \in {<<>>} \cup Parsed(Values)
  /\ agent \in {"waits", "runs", "reports"}

Shown == {task.turns[i] : i \in DOMAIN task.turns}
LengthOf(turns) == FoldFunctionOnSet(+, 0, history, turns)

(* Of the newest REPLAY_TURNS turns, one is shown exactly if it fits with  *)
(* the newer ones shown: a huge answer crowds nothing else out.  They come *)
(* in the order they were asked.                                           *)
NewestThatFitAreShown ==
  task # NoTask =>
    /\ \A t \in DOMAIN history :
         t \in Shown <=>
           /\ Len(history) - t < REPLAY_TURNS
           /\ history[t] + LengthOf({u \in Shown : u > t}) =< REPLAY_CHARS
    /\ \A i, j \in DOMAIN task.turns : i < j => task.turns[i] < task.turns[j]

(* "An agent that silently forgets is worse than one that knows it did":   *)
(* where any turn is shown, the note makes up for all the others.          *)
NothingForgottenSilently ==
  task # NoTask /\ task.turns # <<>> => Len(task.turns) + task.notShown = Len(history)

(* Which tokens are the value of the option before them: an option that is *)
(* a value has none.                                                       *)
AreValues(values, tokens) ==
  \A i \in DOMAIN tokens :
    i \in values <=> i > 1 /\ i - 1 \notin values /\ IsOption(tokens[i - 1]) /\ ~ tokens[i - 1].sep

(* A call in the surface: its tokens are the subcommand's words, the flags *)
(* of the two sets, their values, and no more positional ones than it has. *)
InSurface(tokens) ==
  \E entry \in NCTL_SUBCOMMANDS :
    /\ IsPrefix(Plain(entry.words), tokens)
    /\ LET tail == SubSeq(tokens, Len(entry.words) + 1, Len(tokens))
       IN \E values \in SUBSET DOMAIN tail :
            /\ AreValues(values, tail)
            /\ \A i \in DOMAIN tail \ values :
                 IsSwitch(tail[i]) \/ IsOption(tail[i]) \/ IsPositional(tail[i])
            /\ Cardinality({i \in DOMAIN tail \ values : IsPositional(tail[i])}) =< entry.extra

(* "Every token is accounted for, so a trailing word cannot ride along":   *)
(* what is accepted is in the surface, ...                                 *)
SurfaceIsSound == verdict = "accepted" => InSurface(parts)

(* ... and whatever is in it is accepted.                                  *)
SurfaceIsComplete == verdict = "refused" => ~ InSurface(parts)

(* "The parser and the allow-list are meant to coincide": what the command *)
(* composes is accepted, its values being anything, and what is read as    *)
(* positional is its id.  An id with a dash in front, which its parser     *)
(* takes behind a `--`, is refused or read as a flag, and left out.        *)
CommandIsAdmitted ==
  form # <<>> /\ (form.id = <<>> \/ ~ HasDash(form.id[1])) =>
    /\ verdict # "refused"
    /\ verdict = "accepted" => positionals = Len(form.id)
=============================================================================
