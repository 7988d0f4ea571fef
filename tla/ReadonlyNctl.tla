---------------------------- MODULE ReadonlyNctl ------------------------------
(***************************************************************************)
(* The read-only nctl surface (cagent_api/readonly_nctl.py), and the       *)
(* `cagent` command that composes calls of it (cli.py).                    *)
(***************************************************************************)
EXTENDS Integers, SequencesExt

CONSTANTS
  Word,      \* what a call may say
  Dashed     \* those words that start with a dash, besides the flags below

NCTL_SUBCOMMANDS ==
  {[words |-> <<w>>, extra |-> 0] : w \in {"status", "drift", "relations", "actual"}} \cup
  {[words |-> <<"ops", "list">>, extra |-> 0], [words |-> <<"ops", "show">>, extra |-> 1]}
NCTL_SWITCHES == {"--json", "--detail"}
NCTL_OPTIONS == {"--host", "--limit", "--after-seq"}

(* A token up to its `=`, and whether there is one.                        *)
Token(name, sep) == [name |-> name, sep |-> sep]
Plain(names) == [i \in DOMAIN names |-> Token(names[i], FALSE)]

NoMatch == [words |-> <<>>, extra |-> 0]

VARIABLES
  parts,         \* the call's tokens
  match,         \* its entry of the table
  index,         \* where in the rest the loop is
  positionals,
  verdict,       \* "none", then "reading", then "accepted" or "refused"
  form           \* what the `cagent` command parsed, <<>> for the agent's tool

nctlVars == <<parts, match, index, positionals, verdict, form>>

NctlIdle ==
  /\ parts = <<>> /\ match = NoMatch /\ index = 1 /\ positionals = 0
  /\ verdict = "none" /\ form = <<>>
-----------------------------------------------------------------------------
(* What argparse knows of a command: the words it stands for, whether it   *)
(* takes an id, its switches and its option.  Mutation: each takes one.    *)
CommandNamed(words, id, switches, options) ==
  [words |-> words, id |-> TRUE, switches |-> switches, options |-> options]

Command(words, id, switches, options) ==
  [words |-> words, id |-> id, switches |-> switches, options |-> options]

build_parser ==
  {Command(<<"status">>, FALSE, {"--json"}, {}),
   Command(<<"drift">>, FALSE, {"--json"}, {"--host"}),
   Command(<<"relations">>, FALSE, {"--json"}, {"--host"}),
   Command(<<"actual">>, FALSE, {"--json", "--detail"}, {}),
   Command(<<"ops", "list">>, FALSE, {"--json"}, {"--limit"}),
   Command(<<"ops", "show">>, TRUE, {"--json"}, {"--after-seq"})}

(* What it makes of a command line.  A value may be anything (--host=--x), *)
(* and so may an id (behind a --), which is not read when it is empty.     *)
Parsed(values) ==
  UNION {[words : {c.words},
          id : IF c.id THEN SeqOf(values, 1) ELSE {<<>>},
          switches : SUBSET c.switches,
          option : {<<>>} \cup (c.options \X values)] : c \in build_parser}

compose(f) ==
  Plain(f.words) \o f.id
    \o (IF "--json" \in f.switches THEN Plain(<<"--json">>) ELSE <<>>)
    \o (IF "--detail" \in f.switches THEN Plain(<<"--detail">>) ELSE <<>>)
    \o (IF f.option = <<>> THEN <<>> ELSE <<Token(f.option[1], FALSE), f.option[2]>>)
-----------------------------------------------------------------------------
Rest == SubSeq(parts, Len(match.words) + 1, Len(parts))

(* A call of the tool, or of the command, and its subcommand.              *)
Validate(tokens, parsed) ==
  /\ parts' = tokens /\ form' = parsed
  /\ \/ \E entry \in NCTL_SUBCOMMANDS :
          /\ IsPrefix(Plain(entry.words), tokens)
          /\ match' = entry /\ verdict' = "reading"
     \/ /\ \A entry \in NCTL_SUBCOMMANDS : ~ IsPrefix(Plain(entry.words), tokens)
        /\ verdict' = "refused" /\ UNCHANGED match
  /\ UNCHANGED <<index, positionals>>

Reads == verdict = "reading" /\ index =< Len(Rest)

IsSwitch(token) == token.name \in NCTL_SWITCHES /\ ~ token.sep
IsOption(token) == token.name \in NCTL_OPTIONS
HasDash(token) == token.name \in Dashed \cup NCTL_SWITCHES \cup NCTL_OPTIONS
IsPositional(token) == ~ HasDash(token)

Goes(n) == index' = index + n /\ UNCHANGED <<parts, match, form>>

Switch ==
  /\ Reads /\ IsSwitch(Rest[index])
  /\ Goes(1) /\ UNCHANGED <<positionals, verdict>>

(* Mutation: the value is read like a token.                               *)
OptionAlone ==
  /\ Reads /\ IsOption(Rest[index])
  /\ Goes(1) /\ UNCHANGED <<positionals, verdict>>

(* --flag=value, or --flag value.                                          *)
Option ==
  /\ Reads /\ IsOption(Rest[index])
  /\ Goes(IF Rest[index].sep THEN 1 ELSE 2) /\ UNCHANGED <<positionals, verdict>>

OtherDash ==
  /\ Reads /\ HasDash(Rest[index]) /\ ~ IsSwitch(Rest[index]) /\ ~ IsOption(Rest[index])
  /\ verdict' = "refused" /\ UNCHANGED <<parts, match, form, index, positionals>>

PositionalOf(allowed) ==
  /\ Reads /\ IsPositional(Rest[index])
  /\ positionals' = positionals + 1
  /\ IF positionals' > allowed
     THEN verdict' = "refused" /\ UNCHANGED <<parts, match, form, index>>
     ELSE Goes(1) /\ UNCHANGED verdict

(* Mutation: one more than allowed.                                        *)
PositionalExtra == PositionalOf(match.extra + 1)

Positional == PositionalOf(match.extra)

Accept ==
  /\ verdict = "reading" /\ index > Len(Rest)
  /\ verdict' = "accepted" /\ UNCHANGED <<parts, match, form, index, positionals>>

(* The call is run, or its refusal is told; the next one starts anew.      *)
Answered ==
  /\ verdict \in {"accepted", "refused"}
  /\ parts' = <<>> /\ match' = NoMatch /\ index' = 1 /\ positionals' = 0
  /\ verdict' = "none" /\ form' = <<>>

NctlStep == Switch \/ Option \/ OtherDash \/ Positional \/ Accept \/ Answered
=============================================================================
