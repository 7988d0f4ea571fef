# Verification of the cluster agent

This directory is a TLA+ development about `cagent` (`cagent/src/cagent_api`), the
program of this repository: an HTTP service that takes messages from nodes, a human
operator and a Zulip window, runs them as turns of an agent, and keeps requests for
cluster changes as Zulip conversations. TLC checks small instances (`MC*.cfg`); TLAPS
proves the theorems of the `*Proofs` modules for every value of the constants.

    tlc -config MCCagentRaces.cfg MCCagent.tla
    tlapm CagentProofs.tla

`PROJECT.json` lists the components, the runs, a mutation for every property of a
passing run, the source lines behind every definition, the hazards and the theorems.

## 1. The system

### 1.1 The request service

```
 node listener ── handler threads ─┐                    ┌─ node Worker ── runner
 human listener ─ handler threads ─┼── Store (1 lock) ──┼─ human Worker ─ runner
 window listener ─ handler threads ┘        │           └─ window Worker  runner
                                     evidence directory
```

| Component | State | Operations | Modelled in |
|---|---|---|---|
| Store (`store.py`) | `_requests`, `_sessions`, one lock | create, continue, get, update, list, `scan_and_load` | `Store` |
| Evidence (`evidence.py`) | one directory per request: `request.json`, `events.jsonl` | `record_created`, `append_event`, reads | `Store` |
| Worker (`worker.py`), one per door | an in-memory queue, cancel flags | enqueue, request_cancel, `_run`/`_process` | `Worker` |
| Handlers (`server.py`) | none of their own | POST requests, sessions, cancel, window; reads | `Server` |
| Process (`main.py`) | three listeners, workers, runners over one store | start, die, start again | `Cagent` |
| Agent runner (`agent_runner.py`) | none (a child process, tool sets) | `run`, `compose_task`, tools | outcomes in `Worker`; `ComposeTask`, `AgentTurn` |

They interact by calls, but on **live objects**: `get_request` returns the `Request`
that other threads are writing to. The lock protects mutations only, and the queue is
filled after it was released. What makes this hard: a cancel call and a worker that
both look at `state` and then act; two continuations of a session; a write that fails
inside a locked block, or inside the `except` that handles a failed write; a kill at any
point, also inside the startup scan that repairs the previous kill.

It is correct when a request is served at most once, turns of a session never overlap,
a request belongs to one owner and one door for ever, no accepted request is left with
nobody to finish it, memory never holds what the evidence does not, and a restart takes
nothing back that somebody could rely on.

### 1.2 Change records

`topics_serve.py` serves a Zulip topic: a front run writes files, and the files, not its
answer, ask for a change record (`change_record.py`) and an operator run. A record is a
topic of cagent's own channel, found by the message id of its anchor note.

| Component | State | Operations | Modelled in |
|---|---|---|---|
| The realm (external) | messages with ids, topics, ticks | post, rename, delete, read | `Realm` |
| Records (`change_record.py`) | notes in topics | `register_change` and what it reads | `ChangeRecord` |
| Serving (`topics_serve.py`) | a directory per generation | front, answer, hand-offs, result | `TopicServe` |

`register_change` is up to six posts and three reads. People post, resolve and delete
between any two of them; a post may fail, also after it arrived; the listener may be
killed, and then serves the same topic again. It is correct when requests never merge,
asking again never forks a record, a linked record was written whole and keeps its
identity, and a serving acts on its own files only and reports on each.

### 1.3 Who is let in

A node's certificate is admitted by two authorities: an append-only ledger, which
`cagent-ledger` commands write next to the server, and Nautobot, where operators retire
and prune nodes. Both are asked at each request, one after the other, and neither answer
is cached.

| Component | State | Operations | Modelled in |
|---|---|---|---|
| Ledger (`ledger.py`, `ledger_cli.py`) | a file of events | register, revoke, reactivate, the fold that reads it | `Ledger` |
| Node door (`auth.py`, `node_resolver.py`) | none | ledger, then Nautobot | `Auth` |

A revoke reads, and appends later; the file's lock covers each, not both. It is correct
when a revocation or a pruning counts for every request that begins after it, no event is
written that the fold would drop, and an entry is what its last event made it.

### 1.4 What a turn is given and may call

| Component | State | Operations | Modelled in |
|---|---|---|---|
| `compose_task` (`agent_runner.py`) | a loop | past turns within two limits, and a note | `ComposeTask` |
| nctl surface (`readonly_nctl.py`), `cagent` (`cli.py`) | a loop over tokens | `validate`, `compose` | `ReadonlyNctl` |
| Incident reports (`incident.py`) | a directory of files | `write_incident` | `Incident` |

It is correct when the newest turns that fit are shown and the others counted, and when
exactly the calls of the surface are accepted, however they were composed. The one thing
a turn may write is an incident report: its file's name is chosen with `exists()` before
it is written, by any number of turns and people at once. A report whose call returned
must keep its file. Calls at work side by side may take the same name; no other may.

### 1.5 The chat entrance

`zulip_window.py` answers direct messages, each on a thread of its own, over the window
door of the request service: read the conversation, ask, say so, poll until the turn is
over or 420 s have passed, send the answer. A turn may take 900 s and is not cancelled.

| Component | State | Operations | Modelled in |
|---|---|---|---|
| Message threads (`zulip_window.py`) | a thread per message, its request's id | `_run_and_reply`, `_wait`, the report of a failure | `DmWindow` |

Every call may fail, also after it arrived; the listener dies with all its threads; the
service dies under a thread that waits. It is correct when a message gets one answer at
most, which is the response of the turn that was run for it; when a failure is told; when
nothing makes a message pay for a second turn; and when the thread comes to an end
although the turn may not.

### 1.6 How a node gets its certificate

| Component | State | Operations | Modelled in |
|---|---|---|---|
| CA (`ca.py`, `ca_cli.py`) | two keys and two certificates in four files | `init`, `sign-server`, `sign-node` | `Enrollment` |
| Server start (`main.py`) | the contexts of its listeners | read the files, once | `Enrollment` |

Operators run these commands, and `cagent-ledger` with what they print, side by side and
without a lock. A file is emptied and then written, a key before its certificate, and a
command may be killed in between. It is correct when no certificate outlives the CA that
signed it unless somebody used `--force` or ran two `init`s at once, and when the serial
that is printed is the one the door looks up.

### 1.7 The chat page

The operator talks to the human door through a page of one script. Every call it makes is
answered later, by a callback that acts on the page as it is then: another conversation may
have been opened, the page logged out or in again, and a reply's poll still runs.

| Component | State | Operations | Modelled in |
|---|---|---|---|
| Page (`static/chat.html`) | `token` (kept by the browser), `state.sessionId`, `state.sending`, the replies on screen, each with its poll | log in and out, send, new, open a session, reload; the callbacks of calls and polls | `ChatPage` |

It is correct when what is on the screen is the conversation that the next message goes to,
when Send comes back after a message, and when the end of a turn gets onto the screen.

### 1.8 The rest

| Component | Why it is not modelled |
|---|---|
| `history/node-client` | kept as history; one request, polled in a loop of 200 |
| `refresh-node-observations.sh`, `run_nautobot_runtime_gate.sh` | scripts of the development host: one lock and one check, each a hazard in `PROJECT.json`; what they run is a submodule's |
| other command lines, environments, docs | no state of their own |

The other programs of the cluster are git submodules and not part of this tree.

## 2. The modules

    Store <- Worker <- Server <- Cagent <- MCCagent
                                   |    <- CagentProofs
                                   +--- TurnService     (what Cagent implements)
    DmWindow <- MCDmWindow, DmWindowProofs
      |   +--- TurnService     (the door it asks)
      +------- Entrance        (what DmWindow implements)
    ChatPage <- MCChatPage, ChatPageProofs
      +--- TurnService     (the door it asks)
    Realm <- ChangeRecord <- TopicServe <- MCTopicServe, TopicServeProofs
    Ledger <- Auth <- MCAuth, AuthProofs
           <- Enrollment <- MCEnrollment, EnrollmentProofs
           <- LedgerProofs <- AuthProofs, EnrollmentProofs
    ComposeTask, ReadonlyNctl, Incident <- AgentTurn <- MCAgentTurn, AgentTurnProofs

An arrow points from a module to the one it is extended by; a line is an `INSTANCE`.
`AgentTurnProofs` also has the proofs about `Incident`, which `AgentTurn` extends.

**Store** has the variables of `store.py` and `evidence.py`. A locked method becomes one
action for each step that another thread, or a kill, can fall between: `record_created`
opens `request.json`, writes it, appends the `queued` event; `update_request` sets
`state`, then `response`, then appends the event. `latest` of an evidence directory is
what `read_latest_event` finds, and `"torn"` is a `request.json` that is open and empty.
`SetState` is guarded by the lock only, because `update_request` checks nothing else.

**Worker** is the thread of a door. `_process` reads the state and the cancel flag in two
steps, without the lock, and dispatches in a third. `catching` says that the worker is in
the `except` of `_run`: an evidence write that fails there ends the thread (`"dead"`).
A runner is the four ways `run()` can end.

**Server** is the handlers that change something, `cancel` in the five steps its code
takes. A caller is an `Identity`, as its listener's authenticator makes it, and its class
is the door it called.

**Cagent** composes them with kills and restarts. `Crash` keeps the evidence and nothing
else; `CrashDuringScan` is a kill inside `scan_and_load` when some `interrupted` events
are written; `Restart` is a whole scan. It also states the properties.

**TurnService** is the promise: `absent`, `waiting`, `running`, `over`, never backwards,
and no two `running` in a session. `Cagent!Promise` maps the threads, queues and evidence
to it (`Phase`).

**Realm** is what `change_record.py` uses of Zulip, through the external package
`agag.zulip`: a message's place is its id, a topic is the name its messages wear, a
resolve renames them. Following a resolve means reading the twin name when nothing
wears the given one.

**ChangeRecord** is `register_change`, a call to the realm per action. `CallFails` is a
`ZulipError` or `RecordError`; a failed post may have arrived. `RefuseText` is the change
without a title, refused before anything is read. **TopicServe** puts it
into a serving and has `Kill`, after which the topic is due again. A resolve of a topic is
counted by what it meets (`ResolveKind`): an origin that is left in peace, or one that is
being served or gets a name that is in use; a record, or one in which a serving is at work.

**Ledger** has the file as a sequence of events. A command is up to three steps (read,
append, read and print), since each takes the file's lock by itself, and it may die
between them; an entry is reduced to its state. **Auth** is a request up to its handler,
in the two steps of `CertAuthenticator`, among commands and changes of nodes. Nautobot is
kept as the sequence of what it has been, and a request remembers how long both histories
were when it arrived: that is only bookkeeping for the properties.

**ComposeTask** and **ReadonlyNctl** are two loops of the source, an iteration an action.
A past turn is the length of its block; a token is the part in front of its `=` and
whether there is one. **AgentTurn** composes them as a turn does: a history gives a task,
then the agent calls nctl as it likes, through its tool with any tokens or through the
`cagent` command with anything that command parses. **Incident** is `write_incident` by
any number of callers, one of which is the turn: each look at a name, the open that
empties the file and the write are steps, and a call may die between them. `beside`
remembers, for the property, which calls were at work together. What is written where another
call wrote meanwhile may be `Mixed`.

**DmWindow** is the thread of a message, a call an action. The door it asks is not modelled
a second time: it is `TurnService`, which `Cagent` implements, with a session for each
ask, so what is shown of the entrance holds over the service as it is. `deadline` is the
clock; `call_fails` any call that raises, whether or not it arrived. A turn's state is set
before its response (`turn_ends`, `turn_responds`), and a poll may find the one without the
other. **Entrance** is the
promise to whoever writes: `unsent`, `open`, `closed` or `lost`, one answer at most, one
notice at most and nothing after the notice; `DmWindow!Promise` maps threads to it.

**ChatPage** is one browser tab. A button is an action; a `fetch` is a call that the service
serves in one step, that may fail before or after it was served, and whose callback is a
step of its own. Each reply has its poll: asked, waiting for its timer, or ended. A poll of
a reply that is no longer on the screen goes on, as in the code, and its end still frees
`sending`. The service is `TurnService` again, with the same person at another device.
`crossed` and `refused` are history: that somebody acted while a call was still out, and
that a poll met a rejected token.

**Enrollment** is `cagent-ca` by any number of operators: what a process has still to
write, and which file it has open. A key is its number, a certificate the key it is for and
the key that signed it. It extends `Ledger`, since the serial that `sign-node` prints is
what an operator registers, and has the digits of both spellings of a serial number: the
one printed (`serial_number_to_hex`) and the one the handshake presents (`presented`).

## 3. What the runs check

Every property of a passing run has a mutation of the code that it catches
(`PROJECT.json`, "mutants"; their definitions are marked "Mutation" in the modules).

| Run | Instance | Properties |
|---|---|---|
| `MCCagentRaces` | 1 session, 2 requests, 2 handler threads, a worker, 1 failing write | `MemoryIsEvidence`, `NoStrandedRequest`, `AcceptedIsDurable`, `LockDiscipline`, `CrashingRunnerKillsNoWorker`, `ServedAtMostOnce` (refinement of `TurnService`) |
| `MCCagentRestarts` | 2 sessions, 2 requests, callers at every door (one node under two certificates), 2 kills | `TypeOK`, `TurnsSerialized`, `OwnDoor`, `SessionHasOneOwner`, `MemoryIsEvidence`, `InterruptedOnlyByScan` |
| `MCCagentSettles` | 2 sessions, 2 requests, 2 kills, calls that may be wedged, fairness | `EventuallySettled` |
| `MCTopicServeRough` | 1 origin name, 2 posts, 2 kinds of trouble out of eight | `TypeOK`, `RequestsNeverMerge`, `LinkedRecordIsComplete`, `RegisteringAgainDoesNotFork`, `RecordKeepsItsIdentity`, `HandoffsAreOfThisRun`, `HandoffsAreAllReported` |
| `MCAuth` | 2 certificates of a node, 2 commands, 1 request, 3 events, 1 change of the node | `RevocationIsImmediate`, `PruneIsRevocation`, `NothingFallsOnNothing`, `EntryIsLastEvent` |
| `MCAgentTurn` | all histories of up to 5 turns, all calls of up to 4 tokens out of 16, all of `cagent`, 4 reports | `NewestThatFitAreShown`, `NothingForgottenSilently`, `SurfaceIsSound`, `SurfaceIsComplete`, `CommandIsAdmitted`, `ReportIsKept` |
| `MCDmWindow` | 2 messages, 2 requests, 2 failing calls, 1 kill, fairness | `NeverSilent`, `AnswerIsOfTheTurn`, `OneTurnPerMessage`, `OneAnswerPerMessage` (refinement of `Entrance`, with its liveness) |
| `MCEnrollment` | 2 operators, 3 keys, 2 serial numbers, a ledger process, 2 events | `NoCertificateIsOrphaned`, `RegisteredIsRecognised` |
| `MCChatPage` | 2 messages or openings, 2 requests, 1 login, 1 failing call, fairness | `TypeOK`, `TranscriptIsTheSession`, `SendComesBack`, `EndIsShown` |

`MCAgentTurn` compares two loops with definitions that have none: which turns fit, and which
tokens are values, is each said of all at once. `CommandIsAdmitted` leaves out an id that
starts with a dash: `cagent ops show -- -x` parses and is refused (`PROJECT.json` has the
hazard).

`MCChatPage` shows what the page promises and, in the exceptions of its properties, what it
does not: somebody who opens another conversation while a call is out may see one and write
to the other (`~crossed`), and a poll that meets a rejected token or a logout ends for good,
so that after the next login the reply stays as it is and Send does nothing until the page
is loaded again (`refused`).

Three runs show where a document or a comment says more than the code does:

| Run | What is said | What the run shows |
|---|---|---|
| `MCCagentTerminal` | "All five terminal states are final" | A cancel call saw `queued`, the worker dispatched; `cancelled` becomes `completed`, or the other way round. |
| `MCCagentHistory` | "Every earlier turn of this session", failed and cancelled ones left out | Two continuations enqueue in the other order, so a turn gets a later one as its past; a cancelled turn that has an answer is replayed. |
| `MCCagentTornRestart` | a restart rebuilds the store | A kill between opening and writing `request.json` leaves a file on which every later start fails. |

## 4. Bounds

Constants that bound the state are guards of the actions, each with its name:

- `RequestId`, `SessionId`, `Thread`: two requests are enough for every property, as each
  is about one request or a pair. Two handler threads and a worker give the three
  actors that the races need: two creating or cancelling, one dispatching. Where kills are the subject
  one thread is enough, since a worker and a handler already interleave.
- `Uuid`, `CertSerial`: two, for a node that renewed its certificate and another node.
- `MaxFaults`: failing writes. One is enough for a lock left behind and for what a retry
  finds, and for a worker that dies: its runner raised, and the write in the `except` fails.
- `MaxCrashes = 2`: a kill, and another during the scan that repairs it.
- `KillsMidWrite`: whether a kill may hit between `open` and `write` of `request.json`.
  It is `TRUE` only in `MCCagentTornRestart`, because after it nothing else happens.
- `Limit`, `MaxTrouble`: how often each thing happens in a realm, and how many other
  things than speech happen in one behaviour. Two posts and two troubles cover a serving
  that fails or is killed and is then repeated while somebody resolves, deletes or
  decides, and an origin that is resolved, asked in again, and joined with what it was. `done` and `rejected` read like `accepted` and are not told apart.

- `MaxEvents = 3`, `MaxChanges = 1`: register, revoke and reactivate or register again is
  the longest sequence in which an event's meaning depends on those before it; a node that
  is retired or pruned during a request is one change.
- `MaxHistory = 5` with `REPLAY_TURNS = 3`, `REPLAY_CHARS = 6` and lengths 2, 3, 4, 7: turns
  too old, turns that never fit, and three that fit exactly or just do not. The code's 8 and
  256 000 differ from these in nothing the loop compares; the theorems hold for both.
- `MaxTokens = 4`: two words, an option and its value, or an id too many. Tokens beside one
  flag of each kind, an id and an unavailable option would be read like these.
- `Report`, `Incident`: three reports of one name and one of another, so that a second and a
  third suffix are tried.
- `Dm`, `RequestId`, `MaxFaults = 2`, `MaxKills = 1` in `MCDmWindow`: two messages for an
  answer that reaches the wrong one; two failing calls for a notice that fails, too; a kill
  of the listener or of the service.
- `MaxActs`, `MaxLogins`, `MaxFaults`, `RequestId` in `MCChatPage`: a message and a
  conversation opened, or two of one, is what lets an answer come to another conversation
  than it was asked for; one login after a logout; one failing call.
- `MaxKeys = 3`: a CA, the server's key, and a second CA made with `--force` or by an `init`
  beside the first. Serial numbers 165 and 1717 have two and three hexadecimal digits; longer
  ones repeat these. `MaxEvents = 2`: registered, then revoked.

TLC uses symmetry over requests, sessions and threads in the two safety runs of `Cagent`,
over commands and certificates in `MCAuth`, and over operators in `MCEnrollment`, whose
properties do not tell their members apart; never for liveness. Deadlock is checked
where the bounds leave a way on. `MCCagentRestarts`, `MCAgentTurn`, `MCDmWindow`,
`MCEnrollment` and the topic run say `CHECK_DEADLOCK FALSE`, because a system in which
nobody asks for anything any more is not stuck.

## 5. Fairness

Three runs assume any. `MCCagentSettles`: a started handler goes on, a worker thread goes
on, and a killed process is started again by its supervisor. All of it is weak: each action
stays enabled until it is taken, the lock being free again after finitely many steps of its
holder. Nothing is assumed of callers, kills or faults, nor of the one step of a worker that
waits for somebody else, a runner's `run()`. The code sets it a `deadline_s`, which "bounds how
long one turn can wedge" (`worker.py:29-33`), but also says that "a wedged backend call can
leave a request stuck `running` forever without a restart", which is "left `running` here
deliberately" (`store.py:8-10`). So `run()` may never return here, and `EventuallySettled` says
what is left: a request settles, or from some time on a wedged call of its door's runner is
what it is or what it waits for. With an unconditional `[]Settled(r)` the run fails, at a turn
that never ends. There are no faults in that run: a write that fails in the `except` kills a
worker, and then its queue is never drained (`CrashingRunnerKillsNoWorker` says this is the
only way).

`MCDmWindow` assumes weak fairness of a message's thread, whose calls return or raise within
30 s (`zulip_window.py` gives each that timeout), and of the clock that makes its deadline
pass. Nothing is assumed of the service: its turns may never end, and it may be dead. That
is the point of the deadline, and the mutation without it loses the property.

`MCChatPage` assumes weak fairness of calls, which are answered or fail, of their callbacks
and of timers, which the browser runs, and of the turns of the service. That every turn ends
is an assumption, which `EventuallySettled` supports but for a wedged backend call: for a
message behind one the page waits until the service is started again. Nothing is assumed of
the person.

## 6. What is proved

Every invariant that a passing run checks is proved here, and two of the action properties
and the two refinements as far as they are about safety. `CagentProofs` proves, for any sets of requests,
sessions, threads and callers and any number of kills and failing writes:

| Theorem | Says |
|---|---|
| `Invariance` | `IInv` is an invariant of `Spec` |
| `TypeCorrect` | `TypeOK` |
| `LockCorrect` | the lock is held exactly by the actor inside a locked block |
| `AcceptedDurable` | what is in memory has its record and an event on disk |
| `OneOwner` | the requests of a session have the session's owner, also after a restart |
| `DoorsApart` | a door's queue and worker hold only requests of sessions opened there |
| `Serialized` | no two workers run turns of one session |
| `NothingIsStranded` | unless a worker is dead, what is not over has somebody who finishes it |
| `ServesAtMostOnce` | the service implements `TurnService` |
| `MemoryAgrees` | outside the lock, and while no write failed, memory is the evidence |
| `RunnersKillNoWorker` | a worker thread ends only after a write failed |
| `OnlyTheScanInterrupts` | only the startup scan writes `interrupted`, and nothing takes it back |

The assumptions are those of the modules, which TLC evaluates in every run:
`StoreAssumption` (the constants do not overlap with `None` or the doors),
`ServerAssumption` (callers are identities) and `CagentAssumption`.

The other modules prove, for any certificates, nodes, commands, handlers, histories, limits,
calls, reports, messages, operators, keys, serial numbers and logins and any number of
failures and kills:

| Theorem | Says |
|---|---|
| `AuthInvariance` | types, `AskedInv`, and what holds of the ledger |
| `RevocationHolds`, `PruneHolds` | `RevocationIsImmediate`, `PruneIsRevocation` |
| `NoEventIsDropped`, `LastEventCounts` | `NothingFallsOnNothing`, `EntryIsLastEvent` |
| `TurnInvariance` | types, and an invariant of each loop |
| `ShownAreThoseThatFit` | `NewestThatFitAreShown` |
| `NothingForgotten` | `NothingForgottenSilently` |
| `NothingRidesAlong` | `SurfaceIsSound`: what is accepted is in the surface |
| `SurfaceIsLetIn` | `SurfaceIsComplete`: what is in the surface is accepted |
| `CommandsAreLetIn` | `CommandIsAdmitted`: so is what `cagent` composes |
| `ReportsAreKept` | `ReportIsKept` |
| `DmInvariance` | types, and what a thread has by where it is |
| `IsNeverSilent`, `AnswersAreOfTheirTurns`, `TurnsArePaidOnce` | `NeverSilent`, `AnswerIsOfTheTurn`, `OneTurnPerMessage` |
| `KeepsItsPromise` | the safety part of `OneAnswerPerMessage`: every step is one of `Entrance` or a stutter |
| `EnrollmentInvariance` | what each command still has to write agrees with what is on disk |
| `NothingIsOrphaned` | `NoCertificateIsOrphaned` |
| `NodesAreLetInAsSaid` | `RegisteredIsRecognised`: the serial that is printed is the one that is looked up |
| `TopicInvariance`, `TopicsTypeCorrect` | the invariant of the topics; their types |
| `RequestsStayApart` | `RequestsNeverMerge`: two requests never get into one record |
| `LinksAreWhole` | `LinkedRecordIsComplete` |
| `RecordsKeepTheirIdentity` | `RecordKeepsItsIdentity` |
| `NoFork` | `RegisteringAgainDoesNotFork` |
| `HandoffsAreTheRuns`, `AllHandoffsReported` | `HandoffsAreOfThisRun`, `HandoffsAreAllReported` |
| `PageInvariance`, `PageTypes` | the invariant of the chat page; its types |
| `PageShowsItsSession` | `TranscriptIsTheSession` |

from `LedgerAssumption`, `AuthAssumption` (each certificate has a node), `ComposeAssumption`
(`REPLAY_TURNS > 0`: a slice of the last 0 turns would be all), `AgentTurnAssumption`,
`IncidentAssumption` (a report has a name), `DmAssumption` (`Dm` is finite, `None` is no
request), `EnrollmentAssumption` (serial numbers are positive), `SerialAssumption` (what is
printed is a serial the ledger can be given), `RealmAssumption` (the names people ask under
are not message ids) and `ChatAssumption` (`None` is no request).

**The argument** of the request service. `Serialized` follows from `DoorsApart`: two workers are two doors, so two
running turns of one session would be a session with requests at two doors. That a queue
holds only requests of its own door is not inductive by itself, because it depends on who
may continue a session; that depends on the owner kept in memory, which after a restart is
taken from the earliest request on disk. Hence `OwnerInv`: on disk all requests of a
session have one owner, and memory has the same one. The owner's class fixes the door
(`OwnerKeyFixesClass`). `OwnerInv` survives a new request because `continue_session`
compares owners and a fresh session id names no session on disk; it survives a restart
because `FirstOf` is a member of the session (`FirstOfRecorded`, from `NatHasLeast`).
`WorkInv`, `MemoryInv` and `DoorInv` say that whatever an actor or a queue holds is in
memory and on disk; `LockDiscipline` that at most one actor is writing (`OneInside`), so
that its request is nobody else's; `DownInv` that a dead process holds nothing. Steps that
change only their actor go through one lemma (`QuietInv`); each step that changes the
store, and each way to fail or die, has a lemma of its own, and `NextInv` collects them.

`NothingIsStranded` adds three invariants. `Hold`: a queue has an id once, and what is queued,
taken or about to be enqueued is one thing for each request. `Progress`: a worker that has a
request holds it in the state its step says, so that no step between dispatch and the last
event can lose it. `Kept`: with no worker dead, every request in memory is over or is in hand.
The refinement maps `evidence`, queues and actors to `Phase`; two lemmas carry it, `Steps`
(one actor's step changes the phase of its own request only) and `Silent` (steps that leave
the phase alone), over `Draft`: what a request that is being created has on disk is what its
creator has written. `MemoryAgrees` needs `Synced`,
that only a request somebody is writing may differ from its evidence, and that a response
comes with a terminal state (`AnswersAreFinal`). `OnlyTheScanInterrupts` needs
`StaysInterrupted`: nobody is about to write that state, and memory has it whenever the
evidence does, so whoever reads the request turns away from it.

For the chat entrance the invariant is a table of where a thread is against what it has: a
request from `ack` on, a reply at `answer`, nothing sent before. `TurnsArePaidOnce` counts:
a step adds to the requests at most what it adds to the threads that are past asking. For
enrollment it says of every command what it read or generated and has still to write: a CA
key that is not yet followed by its certificate belongs to the one `init` that is at work,
and unless a CA was replaced nobody else can have loaded the pair. `replaced` says how one may
have been: `"forced"` by `init --force`, or `"raced"`, when an `init` passed its check while
another was writing; the two theorems are about behaviours in which neither happened, as
either may orphan certificates. For incidents it is that two calls that hold one free name
were at work together (`RivalsAreBeside`). Hence `ReportIsKept` says more than that a rival
excuses a loss: the file of a returned call has its report, or that of a call which was at
work beside it and took the very same name, or what the two left of each other's writing
(`Mixed`) or of a write that was cut short. No call before or after costs a report.

The argument about authentication is that both histories only grow: what a handler was told was
true of a moment that no later step takes away (`AskedInv`). For the task it is `Counted`:
each turn is kept, dropped or still before the loop. For a call it is `ReadSoFar`: the
tokens that are values, among those past, are fixed by the options before them, none
reaches beyond the next token, and the positional ones past are as many as were counted
(`OneToken`, `TwoTokens` and `PositionalToken` are the three ways on, `AllRead` the end).

For the topics everything rests on what a realm cannot do (`Lasting`): no message is ever
unsent, and none changes but in its topic's tick and by being deleted. So what a
registration has posted stays where it put it, and the invariant can say, for each step of
it, what the record that is being opened has by now (`Opened`) and, of every note, under
which name it is (`NotesAreAtHome`): an origin note is at the name of the message it points
to, which no other request's record has. That is `RequestsStayApart`; `LinksAreWhole` is
`Opened` at the last post. The identity of a record is its earliest anchor, and adding
messages takes no earlier one away (`ChangesStay`, `EarliestStays`).

`NoFork` needs more, and has two parts. Asked at the origin (`OriginOpensOne`), it is true
only where nothing failed, was killed or deleted: a record whose link was never posted is
opened again. In a calm realm (`CalmInv`) a conversation has one anchor at most; whoever has
one has its link, or gets it from this very registration; and a serving has read every link of
its conversation, which no other serving adds, as there is one at a time. So the serving that
finds no link is the first, and the one that finds a link is led to the anchor, under the one
name or its twin. An origin may be resolved, and be asked in again under its old name, which is
another conversation then: all that is said of the first moves with it (`RenamingCalm`). Not so
when it is renamed while a serving is at work in it, whose link then goes to the old name, or
into a topic that is there, which makes one conversation of two that have a record each; the
part leaves these out, and TLC finds the second when they are let in. A realm that is calm
after a step was calm before it (`CalmBefore`), so the invariant is asked of such behaviours
only.

Asked in a record (`RecordOpensNone`), nothing is opened, and here failures and kills are let
in: every topic of a record has an anchor, as its first post is one and people only speak where
something was said (`Anchored`); a serving there has read it (`AnchorIsSeen`), and so takes the
branch that restates. What is left out are deletions, which may take the anchor, and a record
that is renamed while a serving is at work in it (section 8); TLC finds both when they are let in.

For the ledger and the digits of a serial the proofs go by induction over the naturals,
which the library's theorems do not offer here as they take an operator: `SetInduction` is
the same for a set, from `NatHasLeast`. A fold, a sum or a recursive function is a `CHOOSE`
of a function with a recursive equation, so each has two lemmas: that there is one, built
up to each length, and that two of them agree (`FoldExists` and `FoldIsOne`, `WrittenExists`
and `WrittenOnce`, `SumExists` and `SumIsOne`). Then `FoldOfAppend` says what an appended
event does, `CheckedInv` that a call that passed its check still has an entry when it
appends, as events are never taken back, and `PrintedIsPresented` that padding the
hexadecimal digits to an even number and reading them by octets give the same digits.

For the shown turns the sum of their lengths does not depend on an order (`TotalOfMore`), and
the loop keeps `FitInv`: what is left of the budget and the lengths kept make
`REPLAY_CHARS`. `SurfaceIsLetIn` is why no call of the surface meets a refusal: there is one
way to tell values apart (`SameValues`, the option before decides) and one subcommand that
the call can start with (`OneEntry`), so what makes the definition true is what the loop has
read so far (`OneReading`). `CommandsAreLetIn` appends the pieces of a command
(`ComposedInSurface`): words, an id, flags, and an option with its value.

For the chat page `Uncrossed` says of a page on which no act fell on another's call that at
most one call is out, that what it sends goes to the conversation shown, and that what it
opens meets an empty page; `AnswerOK`, that what a call was answered is still so when its
callback runs, since a service forgets no session.

**Only model-checked.** Liveness under fairness is out of the prover's reach:
`EventuallySettled`, `SendComesBack`, `EndIsShown`, and that part of `OneAnswerPerMessage`.
The invariants and the safety of both refinements are all proved; of the three runs that
expect a violation nothing is to be proved.

## 7. Plan

Order of work, the most important behaviour first; done: 1 to 11.

1. `Store`, `Worker`, `Server`, `Cagent`: the request service and its restarts.
2. `TurnService` and the refinement.
3. `CagentProofs`: the theorems of section 6 about the request service.
4. `Realm`, `ChangeRecord`, `TopicServe`.
5. `Ledger`, `Auth`, and `AuthProofs` over `LedgerProofs`.
6. `ComposeTask`, `ReadonlyNctl`, `Incident`, `AgentTurn` and `AgentTurnProofs`.
7. `DmWindow` over `TurnService`, `Entrance`, and `DmWindowProofs`.
8. `Enrollment` over `Ledger`, and `EnrollmentProofs` over `LedgerProofs`.
9. `ChatPage` over `TurnService`, and `ChatPageProofs`.
10. `TopicServeProofs`.
11. The rest of the checked invariants: the ledger's, the page's, `NewestThatFitAreShown`,
    the surface from both sides, `RegisteringAgainDoesNotFork`.
12. Left: the topic's 500-message window; a clock that is set back.

## 8. What the models leave out

- Texts: messages, answers, statements, prompts; `response` says only whether there is one.
  An answer that is an empty string counts as one here.
- When no past turn fits, `compose_task` returns the bare message, without the note that its
  docstring promises whenever something was dropped; a test of the repository wants it so,
  and `NothingForgottenSilently` says "where any turn is shown".
- What a ledger entry holds besides its state; that a certificate expires, which the TLS
  layer checks; the handshake, which ties a serial to its node.
- A torn line in the ledger: as in `events.jsonl`, an event is one short write.
- `as_dict` tells a caller a state before its event is on disk, so a kill may take back what
  a caller was told (`devdocs` says the two "can never observably diverge"): a read, which
  changes nothing. The link to a record is posted under the name its origin had when the
  serving began, although `change_record.py` says that a renamed origin still receives it.
- The text of transcripts and answers; the log-only mode of the chat listener, which sends
  nothing; that its prompt names a script its door has no shell for.
- On the chat page: the drawer that lists sessions; other tabs, which share the token; that
  a reply says whether its turn waits or runs. Texts and layout.
- What asking again is not shown to survive. A record that is resolved while a serving is at
  work in it, writing or answering there, is two topics for a while: the half that gets its
  later posts, under the old name, and the resolved one with its anchor. Who asks in the half
  without the anchor is not recognised as asking in a record, and may open another one with
  each message there until the two names are one again. An origin that is resolved while it is
  served gets its link under the old name; two origins that a rename joins keep a record each.
- A change that is registered again after a decision gets a new statement and no new state
  note, so its newest state is still the decision, although the comment at
  `change_record.py:76` says it "is not read through the old verdict". The model leaves
  states out of what it says of records: nothing in `cagent_api` acts on them.
- What `init --force` breaks, which is what it says it does: every certificate so far, also
  the running server's, which reads the files only when it starts. Two `init`s at once may
  pair one's key with the other's certificate, also without `--force`, and so orphan what
  either signed; `replaced` leaves both cases, and only these, out of the two properties.
  After a kill between the two files `init` says there is a CA and `sign-node` says there
  is none; `--force` is the way out.
- Reports of one second are listed in the order of their names, and a slug that ends in
  `-2` is a name of its own. A report is one write. "A second report in the same second is a
  collision, not an overwrite" (`incident.py:72`) holds of calls one after the other; of two at
  work side by side the second may overwrite the first, which `ReportIsKept` says. The tool's
  refusal of an empty report changes nothing and is left out.
- Reads over HTTP (`GET`) and refused calls: neither changes anything. Listing the requests
  of a session that has none skips its ownership check; `PROJECT.json` has the hazard.
- The wall clock is taken to increase. `created_at` orders a session's requests, so a clock
  that is set back reorders them at the next restart.
- A torn line in `events.jsonl`: an event is one `write` of a short line, which a kill of
  the process does not split; a power failure is not modelled.
- cagent's acks and answers in a topic, which no lookup reads; the 500-message window of
  `topic_history_across_resolve`, which the model's topics never reach; renames other than
  a resolve; `set_state`, which nothing in `src/` calls.
- The packages `agag` and `agcode` are not in the tree: what they do is modelled from how
  the code here uses them, and marked external.
