----------------------------- MODULE ComposeTask ------------------------------
(***************************************************************************)
(* compose_task (cagent_api/agent_runner.py): the past turns of a session  *)
(* that go in front of a message.  A turn is the length of its block.      *)
(***************************************************************************)
EXTENDS Integers, SequencesExt

CONSTANTS
  REPLAY_TURNS,
  REPLAY_CHARS,
  BlockLength,   \* lengths of a turn, question and answer
  MaxHistory     \* bound: turns of a session

ASSUME ComposeAssumption ==
  /\ REPLAY_TURNS \in Nat \ {0} /\ REPLAY_CHARS \in Nat
  /\ BlockLength \subseteq Nat /\ MaxHistory \in Nat

VARIABLES
  history,    \* the past turns, oldest first
  turn,       \* how many of them the loop has before it
  kept,       \* turns to show, newest first
  budget,
  dropped,
  task        \* the answer: turns shown, and the number in the note

composeVars == <<history, turn, kept, budget, dropped, task>>

NoTask == [turns |-> <<>>, notShown |-> -1]
-----------------------------------------------------------------------------
ComposeBegins(turns) ==
  /\ history = turns /\ turn = Len(turns)
  /\ kept = <<>> /\ budget = REPLAY_CHARS /\ dropped = 0
  /\ task = NoTask

(* Turns too old to be looked at.                                          *)
TooOld == IF Len(history) > REPLAY_TURNS THEN Len(history) - REPLAY_TURNS ELSE 0

Looks == task = NoTask /\ turn > TooOld

Keep ==
  /\ Looks /\ history[turn] =< budget
  /\ kept' = Append(kept, turn)
  /\ budget' = budget - history[turn]
  /\ turn' = turn - 1
  /\ UNCHANGED <<history, dropped, task>>

(* Mutation: the first turn that does not fit ends the loop.               *)
DropRest ==
  /\ Looks /\ history[turn] > budget
  /\ dropped' = dropped + turn - TooOld
  /\ turn' = TooOld
  /\ UNCHANGED <<history, kept, budget, task>>

Drop ==
  /\ Looks /\ history[turn] > budget
  /\ dropped' = dropped + 1
  /\ turn' = turn - 1
  /\ UNCHANGED <<history, kept, budget, task>>

(* The message behind the turns kept, with a note of the number that was   *)
(* not; the bare message when there are none.                              *)
Returns(notShown) ==
  /\ task = NoTask /\ turn = TooOld
  /\ task' = [turns |-> Reverse(kept), notShown |-> IF kept = <<>> THEN 0 ELSE notShown]
  /\ UNCHANGED <<history, turn, kept, budget, dropped>>

(* Mutation: the turns too old are not counted.                            *)
ReturnUncounted == Returns(dropped)

Return == Returns(dropped + TooOld)

ComposeStep == Keep \/ Drop \/ Return
=============================================================================
