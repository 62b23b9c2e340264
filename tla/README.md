# A TLA+ model of the AI voice server

The repository holds a voice and text assistant: a Python/asyncio server
(`src/ai_server`), a separate OpenClaw voice gateway (`src/openclaw_voice`),
tools, firmware configuration and a Home Assistant integration. This directory
models the server where it is hard to get right by testing: how a conversation
joins an input device, an agent and the process they run in; how the microphone,
the cache of the house and the connection to the models keep their state while
everything around them fails; and what the agents may claim of what they did.

Everything runs on one asyncio event loop. Code between two awaits is atomic;
what interleaves are tasks at their awaits, and what makes it difficult is that
`Task.cancel()` may arrive at any of them. A step of a model is therefore the
code from the end of one await to the start of the next, and a model keeps a
variable for "which await is this task suspended at".

Contents: 1 the system; 2 modules; 3 runs; 4 proofs; 5 where the code and its
documents disagree; 6 what is not modelled, and the plan.

## 1. The system

| component | state | operations | talks to |
|---|---|---|---|
| `conversations/rendezvous.py` | queue of offers, their futures, closed | `send`, `receive`, `close` | used twice by each agent conversation |
| `conversations/bridge.py` | `BridgeState`, the owned operation, the standing input task, sink flags, the agent scope | `run()`: deliver, race, stream, follow up, cancel, abort, finish, fatal | input conversation, agent conversation, process termination |
| `conversations/agent_runtime.py` | worker task, `AgentChannel` phase and stream flag, two rendezvous | scope enter/exit, `send_user_message`, `receive_event`, `cancel`, `close` | bridge, `run_agent_conversation` of an agent |
| `utils/processing.py` | a heartbeat task per awaited model or tool call | `await_with_processing_updates` | the worker's channel |
| `websocket_server.py` | session state, ingress and control queue, writer lock, lease, retained outcome | handshake, accept, follow-up commit/ack, sink, close | bridge, client, server |
| `microphones/conversation_adapter.py` | voice session, terminal event, follow-up collector, sink | accept, follow-up, sink, close, failure publication | bridge, microphone manager |
| `microphones/manager.py` | capture tasks, listening and playback ids, wake arbitration | run a microphone, capture, speak, recover, close | driver, protocol, STT, TTS, speaker recognition |
| `microphones/protocol.py` | protocol state, listening generation, utterance | check a command, check an event | manager, driver |
| `microphones/drivers/box3_esphome.py` | runs, streams, event queue, armed generation | commands of the manager, callbacks of the device | ESPHome client |
| `home_assistant/connection.py` | inventory, details, state cache, subscription | refresh, subscribe, resolve, command, reconnect | agents |
| `ollama_connection.py` | leases, exclusive holder and waiters, closed | `chat`, `generate`, residency check, close | every agent, the server |
| `agent_loop/` | history, counts of tool calls and repairs, cloud backoff | race two models, run tools, repair | Ollama, tools of an agent |
| `orchestrator/` | plan, results, pending clarification, context | plan, dispatch, clarify, reply | models, domain agents |
| `domain_agents/` | caches of weather, sky, zones, system; music; last tool result | `run_task`, `resume_clarification` | agent loop, Home Assistant, web sources |
| `server.py` | start-up progress, residency task, stop event | run, shut down, hard exit | everything |
| `websocket_client/` | client engine state | connect, prompt, present | websocket server |
| `openclaw_voice/` | gateway connection, pending requests, chat runs | request, event, reconnect | OpenClaw |

`PROJECT.json` lists all components with their status, and the hazards of the
code with the line at which each bites and the properties that cover it.

What makes each modelled component correct:

- *Rendezvous*: a sender is told "sent" exactly when its item was received,
  whatever cancellation races it; no item twice, none lost, nobody sleeps for
  ever after a close.
- *Bridge*: an input event that is visible wins over further work; the worker
  has stopped before the client hears that its own action ended the
  conversation; one verdict, told once; no assistant stream without an end;
  every conversation that has to end does end; the process is ended for a
  conversation only in the known situations (section 5), and never by the loss of
  a microphone.
- *Agent runtime*: what the channel lets an agent send is what the bridge
  admits; a failure in a turn is reported as one; nothing of a stopped
  conversation runs on; a stop is acknowledged.
- *Websocket session*: whichever of its tasks closes it, the bridge hears of
  the close and of nothing that was queued before it; the user's answer reaches
  the bridge only where it waits for one; a connection that closes gives its
  slot back.
- *Voice session*: a close wins over a conversation that was already heard, and
  leaves no task behind; a lost microphone is taken up again; the close of the
  manager returns.
- *Microphone*: a microphone believed to be listening hears; what the device
  does between two awaits of the driver is never taken for something of another
  generation; every capture ends.
- *Home Assistant connection*: the inventory is right unless there is a known
  reason, and becomes right again; "ok" for a batch means every device was told.
- *Ollama connection*: the residency check and the close are alone with the
  server, nobody sleeps who could go on, a successful check is true; the race of
  two models leaves no lease behind.
- *Agent loop*: tools act on the world, so their number is bounded over all
  responses of a message, and every call is answered before the model is asked
  again.
- *Orchestrator*: no task is built on one that failed or asks, and every
  message is answered.
- *Domain agents*: what is reported happened; music that is moved keeps playing;
  what was known is answered when sources fail.
- *Server lifecycle*: what the inputs share outlives them, and the server stops
  unless what it has cancelled does not end.

## 2. Modules

| module | models | role |
|---|---|---|
| `Handoff` | what the rendezvous promises | abstract specification |
| `Rendezvous` | `rendezvous.py`, whole | implements `Handoff` |
| `ConversationOutcome` | what a conversation amounts to | abstract specification |
| `ConversationBridge` | `bridge.py`, whole; the input bindings and the agent as its environment | implements `ConversationOutcome` |
| `MCConversationBridge` | | expectations of the protocol document that the code does not meet |
| `AgentPort` | the contract of an agent conversation | abstract specification |
| `InputPort` | the contract of an input conversation | abstract specification |
| `AgentRuntime` | `agent_runtime.py` and the heartbeat of `processing.py` | implements `AgentPort` |
| `WebsocketSession` | `websocket_server.py`: one admitted connection | the text binding; implements `InputPort` |
| `VoiceSession` | `conversation_adapter.py`, the microphone loop and the close of `manager.py`, `supervisor.py` | the voice binding; implements `InputPort` |
| `MicrophoneProtocol` | `protocol.py` | pure operators, used by the next |
| `MicrophoneBoundary` | `box3_esphome.py`, the capture and speaking of `manager.py` | device, driver, protocol and manager together |
| `HomeAssistantConnection`, `MCHomeAssistant` | `connection.py` | |
| `OllamaGate` | `ollama_connection.py` | the gate, by itself |
| `ModelRace` | `agent_loop_ollama_connection.py` | the race, by itself |
| `OllamaCalls` | the race on the gate | composition, refines `OllamaGate` |
| `AgentLoop` | `agent_loop.py` | one message of a tool loop |
| `HomeAssistantTask`, `InformationTask` | Home Assistant agent; weather, sky, Wikipedia, time, status agents | extend `AgentLoop` |
| `MediaTask` | media agent | |
| `DomainAgents` | the agents side by side | composition |
| `Orchestrator` | `orchestrator.py` | |
| `ServerLifecycle` | `server.py` | |
| `RendezvousProofs`, `ConversationBridgeProofs`, `AgentRuntimeProofs`, `HomeAssistantProofs` | | TLAPS proofs about the module they are named for (section 4) |
| `VoiceProofs` | | proofs about `VoiceSession` and `MicrophoneBoundary` |
| `ServerProofs` | | proofs about `WebsocketSession` and `ServerLifecycle` |
| `OllamaProofs` | | proofs about `OllamaGate` and `OllamaCalls` |
| `AgentsProofs` | | proofs about `MediaTask`, `DomainAgents` and `Orchestrator` |

`AgentPort` is where two detailed modules meet: `AgentRuntime` is proved to
implement it (`ImplementsPort`), and so is the agent of the bridge's environment,
so that the bridge is not built on an agent that the runtime cannot provide.
`InputPort` is the same on the other side of the bridge: `WebsocketSession` and
`VoiceSession` implement it (`ImplementsInput`), and the input of the bridge's
environment keeps it (`InputKeepsPort`). It has what the bridge hears (`ear`), the
one-slot control queue, and whether an answer to a follow-up is shut out, asked for
or awaited (`gate`). A websocket session listens until its bridge ends or fails; a
voice session is related to it up to the event its conversation ends for, because
`VoiceSession` does not tell apart what its bridge does after that. These three
refinements are properties of no run: they are proved. In the same way `OllamaCalls` is proved to be a
client of `OllamaGate`: the race adds nothing the gate was not proved for.

Operators called "seeded fault" in the modules are not part of a specification.
They are the mutations by which `PROJECT.json` shows that each property can
fail.

### Rendezvous

A member of `SendCall` or `ReceiveCall` is one call. `offers`, `closed` and
`accepted` are the fields of the class and of `_Offer`; `sender`, `receiver`
say where each call is suspended, `notified` which waiting receivers the
condition has woken, `cancelled` which suspended calls' tasks were cancelled.
The condition's lock is never held over a suspension other than
`Condition.wait`, so a critical section is one step.

### ConversationBridge

`pc` is the await `run()` is suspended at, `op` the operation task the bridge
owns with its result so far, `inputTask` the standing `receive_control()` call.
The bridge actions follow `_race_operation`, `_race_sink`, `_follow_up`,
`_cancel_agent`, `_abort_sink`, `_finish`, `_exit_agent_scope`, `_fatal`.
`medium` is the binding (text over websocket, voice over microphone), one of
`Media`, fixed at the start;
`Faults` switches on slow operations, a failing agent scope, a failing worker,
loss of the device, failures of a microphone's input (recoverable ones close the
conversation, an `AssertionError` is raised again by `_fail_input()` and is fatal).
The environment actions
are translated from `websocket_server.py`, `conversation_adapter.py` and
`agent_runtime.py` at the interface the bridge sees. Message texts, users and
rooms are not distinguished.

### AgentRuntime

`worker` and `heartbeat` say where the two tasks are suspended, `phase` and
`streamOpen` are the channel's, `message`, `outgoing`, `taken` and the closed
flags are the two rendezvous, reduced to what one bridge and two senders can
do with them. `bridge` and `heard` are the bridge's call and what it has heard.
`kind` says whether a model helps the agent, so that it awaits with a heartbeat and
may drain a lost race. A `CancelledError` is on its way from the call of `cancel()` or
`close()` (`cancelled`) until the worker has unwound (`WorkerStopped`); the join of
the heartbeat and the drain of the race drop it (`lost`), and the worker goes on.
An agent is any sequence
of events that `AgentChannel` admits, with two
restrictions read off the agents of this repository: one stream per turn, and no
progress report after the stream. The bridge cannot call `cancel()` or `close()`
in the very loop turn in which it has taken an offer (`SenderResumed`): it
awaits its own receive task first, which takes longer than the sender's
wake-up.

### WebsocketSession

One connection, from the handshake to `admission.release()`. `state`,
`incoming`, `control`, `retained`, `committed`, `lease` are the fields of
`WebsocketInputSession`; `handler`, `reader`, `finish` say where the handler,
the reader and the task of `close()` are suspended, `write` how far the frame
the handler's side sends has come. A write waits for the writer lock
(`queued`), is certain to be handed over (`begun`: its own task exists, and
cancellation does not reach it), is with the transport (`written`) or has
failed (`reset`). `transport` is whether the websocket takes frames: aiohttp's
`close()` refuses them at once and then waits for the client.

Two facts of the event loop are in the guards. The reader commits frames that
arrived together without an await (`burst`); between frames that did not, a
bridge that has something to hear has been resumed. And a `close()` that
waited for a conversation scope is resumed before the first write that
follows the scope (`CloseIsAhead`). Without the second the session that goes
back to accepting (section 5) would also appear to hang.

`IDLE` is not a state of the model: the code goes on from it to `ACCEPTING`
without an await. The bridge is reduced to what matters here: it hears one
event at a time, writes, asks, waits and ends.

### VoiceSession

`loop` is where `_run_microphone()` with `supervise_input()` in it is suspended,
`session` the `VoiceInputSession` (`closer` its closing task, `accept` its
acceptance task, `active`/`exited` the scope of a conversation), `talk` the
conversation with its queue of control events and its follow-up collector,
`shutdown` the progress of `MicrophoneManager.close()`. `Turn` is the supervising
loop from the end of one conversation to the next acceptance, which has no
await in it. `CollectorDecides` and `CollectorGoesOn` are the two sides of the
await in `_wait_for_speech_start` that suppresses `CancelledError`: a
cancellation that arrives in between is lost (`swallowed`). What the microphone
does is left to the next module.

### MicrophoneProtocol, MicrophoneBoundary

`MicrophoneProtocol` gives, for each command and each event, the condition under
which `MicrophoneProtocolState` admits it and the state that follows.
`MicrophoneBoundary` runs it between its two users. `device` is the satellite,
which may start a stream, speak, fall silent and stop at any time; `driver` and
`events` are the fields and the queue of `Box3EsphomeMicrophone`, changed by the
device's callbacks (`Device...`) and by `command`, the command under way and the
await it has reached; `manager` is the one task that uses the microphone at a
time, as acceptor, follow-up collector or speaker. Each receive of the manager
takes an event, asks the protocol and goes on, so that an event which the
protocol refuses is visible as `violation` with its kind; `Awaited` is the event
it would take next, so that a refusal is seen before it happens as well. Audio is loud or
quiet, an utterance is a number, levels and pre-roll are left out. The code's
queue has no limit; in the model the satellite sends no more *audio* while
`MaxQueue` events wait, and everything else is still queued.

### HomeAssistantConnection

`actual` and `registered` are the house, `refresh` and `fetched` the refresh loop
with what it has read, `subscription` and `events` the subscription with what is
on its way, `details`, `cache` and `inventory` the connection's memory, `request`
one batch of `modify_devices`. A state is the number of changes the entity has
had. A request resolves its names one after the other against the inventory of
that moment, and calls the services of the devices in order, each of which can
fail. `excused` is history: the entities on which the cache may rightly be
behind, each for a reason given where it is changed.

### OllamaGate, ModelRace, OllamaCalls

`at` is where each call is at the gate (out, waiting, woken, in); `active`,
`exclusive`, `waiters`, `closed` are the fields of `OllamaConnection`. A visit to
the gate is one step, because no task suspends while it holds the condition's
lock. `resident` is how much of the protected model is in GPU memory; any request
may change it while it runs. Nothing else is taken to load models: the Ollama server
gives up a request that the connection has given up, and serves nobody else.
`repair` follows `ensure_protected_model_gpu_residency()`: look, unload, load, look
again, and return; a look that found the model (`seen`) and the return are two steps.
`ModelRace` follows `_race_cloud_and_local()` of the agent loop's connection with the grace period
for the cloud, the backoff after an `OllamaError`, and the draining of the loser.
`OllamaCalls` joins the two: the race's requests are the gate's.

### AgentLoop, HomeAssistantTask, InformationTask, MediaTask, DomainAgents

`AgentLoop` counts calls, repairs, tools that ran and calls answered in the
history; what a model says is any of the responses the code tells apart.
`HomeAssistantTask` reduces a command to what decides its outcome (the devices
found, those left out, one or all, kind of change); `touched` is what really
changed, `execution` what the task will report. A call that fails may have changed
its device all the same, and `run_task()` of a direct command may raise. `InformationTask` keeps what the
reading agents keep (`kept`), lets it grow old and sources fail, and follows the
order of cache, provider, fall-back and loop of each agent. `MediaTask` has one
queue of music on a set of speakers (`playing`), the inventory's picture of it
(`seen`), and the calls of a start, search, play, stop or relocation in their
order; a call that fails may have reached any of its speakers. Parsing, ranking
and wording are left out. `DomainAgents` runs one task at a time, as a
conversation does, while the world goes on.

### Orchestrator

`at` is the step of `_run_execution_context()`, `model` the model being asked
(each question has a fall-back model), `plan` the tasks with their dependencies,
`results` the results so far, `pending` the question whose answer is awaited, of
the router or of a domain agent. A text is the set of the user's messages it was
made from. `_validate_plan()` gives the plans: a task depends on earlier tasks
only. A task resumed with the user's answer does not look at dependencies again,
as in the code. `told` is what the user has heard since the message was received; the
empty reply to a word that drops a question is nothing.

### ServerLifecycle

`sAt` is where `run_server()` and `_close_runtime()` are, `open` the resources
opened and not yet closed, `residency` the task that watches the protected model,
`inputs` the two concurrent closes, `deadline` the grace period. Every operation
of the start-up may fail, hang or be interrupted. An operation that is abandoned, for
an interrupt or for the residency task, is awaited until it ends (`abandoning`);
one that is done when the interrupt comes loses its result, and with it the manager
of the microphones (`dropped`). Every close may raise or hang, and may swallow the
`CancelledError` of the deadline: `gather()` then waits until one input raises or
both have closed, and the agent and Home Assistant are closed as if nothing had
happened. `raised` tells the deadline's cancellation, which becomes a hard exit, from an
exception, which does not. `exit` is how `run_server()` ends; that `asyncio.run()`
then waits for tasks that are left is outside, and so is an interrupt while a
start-up that has failed closes.

## 3. Runs

| run | instance | distinct states | question |
|---|---|---|---|
| `rendezvous` | 3 senders, 2 receivers, fair | 19,811 | are senders told the truth, no lost wake-up; are suspended calls released; is it the abstract handoff? |
| `bridge` | text and voice, all faults, fair | 19,039 | is every stream ended, in which situations is the process ended, does a ready input stop work, does the conversation end, is it the abstract outcome? |
| `bridge_later_turn` | one more turn | about 2,600 when it stops | disagreement 1 of section 5 |
| `agent_runtime` | with and without heartbeats, fair | 881 | quiescence, `AgentPort`; every stop is acknowledged unless its `CancelledError` was dropped, and then the deadline ends the wait |
| `websocket_session` | one queue place, shutdown at any time, fair | 4,323 | do the session's tasks keep each other's assertions, is a close heard, is the slot given back? |
| `voice_session` | 3 sessions, fair | 1,265 | does a close win, leave nothing and return; is a lost microphone taken up again? |
| `microphone` | 3 generations, streams, utterances and queued events, 1 turn, 1 failure, fair | 127,277 | does an armed microphone hear, what does the protocol ever refuse, does a capture end? |
| `home_assistant` | 2 devices, one ambiguous name, 2 changes, 1 failure, 1 request, 2 starts, fair | 508,206 | is the inventory right, does it become right, what does "ok" mean? |
| `ollama` | cloud and local request, 1 residency check, 1 close, fair | 65,043 | exclusion, wake-ups, residency, leases, a close that is served |
| `orchestrator` | 1 domain, 2 models, 3 tasks, 2 messages, fair | 54,241 | is a task built on a failure, is a message answered? |
| `domain_agents` | 3 tool calls, 1 repair, 2 devices, 3 speakers, 1 item, 2 providers | 167,329 | bounded effects, true reports, music goes on, what is known is answered |
| `server` | no constants, fair | 766 | does what is shared outlive the inputs, what can keep the server from stopping? |

### Bounds

Three senders and two receivers are enough for every pairing of a winner, a
loser and a bystander; the proofs remove the bound. The bridge model has no
bound: a conversation may have any number of turns, chunks and follow-ups, and
the state space is finite because payloads are not distinguished. So are those of
the agent runtime and of the websocket session, whose ingress queue has one
place, the least a configuration may give it: a client that waits for
`conversation_ready` never has two events in it, and three places give the same
states.

Of three voice sessions the first and the second can be lost and the third
closed; a session inherits nothing from the one before it, and the safety proofs
have no bound. Three listening generations give a stale generation while another
is being armed, which is the shape of every correlation error; the queue takes
three events, enough for a whole segment that is spoken while a command waits. In
the house one device is registered from the beginning and one may come and go;
two changes of an entity make an older and a newer event, one failure hits each
place of each loop in turn. For the gate, two requests, one check and one
close meet in every order, and the proofs remove the bound. Three tasks are
enough for a task that depends on another through a third. Three tool calls and
one repair reach both limits; three speakers are one that plays, one that is
wanted and one that is neither.

### Deadlock

`CHECK_DEADLOCK FALSE` stands where an instance really stops: calls that happen
once each (`rendezvous`, `ollama`), a process or manager that ends (`server`,
`voice_session`), and counters that reach their bound (`microphone`,
`home_assistant`, `orchestrator`, `domain_agents`). The bridge, the agent runtime
and the websocket session have an explicit `Over` step at their end, and anything
else that stops is reported.

### Fairness

`WF` on what the event loop does by itself: resume a task whose await is over.

- *Bridge*: also a cancelled or bounded operation and a write of the clean-up,
  which `bridge.py` awaits (some under a deadline, `_finish` and `_abort_sink`
  without: that a write to the client returns is an assumption).
- *Agent runtime*: also a worker that is being cancelled: what an agent awaits in its
  clean-up returns (none of the agents of this repository awaits more than the tasks
  it has cancelled). The deadline of `cancel()` and `close()` is fair, and cannot
  expire before a task that resumes by itself; it is what ends the wait for a
  worker that has dropped the cancellation.
- *Websocket session*: each of the tasks; that a write is drained or reset is
  again an assumption, which aiohttp's heartbeat backs by resetting a client
  that does not answer.
- *Voice session*: the loop, the closing task, the manager, the collector, and
  the bridge once it has a control event, which is what the bridge model shows.
  The acceptance is not fair: nobody has to speak.
- *Microphone*: the driver and the manager, whose waits have timeouts, the loss of
  a command the device does not answer, and that the device ends a stream it has
  started. The last is an assumption about the device on which
  `CaptureEnds` really depends: outside open mic the manager has no timeout.
- *Home Assistant*: both loops, whose waits are bounded by receive timeouts and
  sleeps; nothing of the house.
- *Ollama*: a woken task runs, a cancelled request returns, a residency check
  ends, by failure if need be, and the deadline of the loop arrives. Nothing
  makes a model answer.
- *Orchestrator*: each call of a model or agent ends, by its timeout.
- *Server*: the server's own steps, the grace period and the close of the
  connection to Ollama, which waits for requests that aiohttp ends after 300
  seconds at the latest and is not overtaken by new ones (`CloseIsServed`). The
  residency task ends when it is cancelled: it sleeps, waits for the gate or for an
  answer. Operations of the start-up and the closes of inputs, agent and Home
  Assistant may hang, also after they have been cancelled.

Nothing is assumed of users, agents, models or operators, and no deadline is
assumed to be kept. Some properties name their exception in the formula rather
than assume it away: `StopsInTheEnd` an await that has no deadline (`Hangs`), `CloseReturns` and `LostIsReconnected` exclude a cancellation
that was swallowed (observation 5 of section 5), `FreshUnlessExcused` the entities
in `excused`, `ArmedMeansHearing` an arm that dropped the end of a segment.

## 4. What is proved

TLAPS proves the following for every value of the constants; each module states
its inductive invariant and proves it action by action.

`RendezvousProofs`, for all sets of calls, from `CallAssumption` (`NoCall` is not
a call): `TypeCorrect`, `SenderIsTruthful`, `AtMostOnce`, `WakeupsArrive`,
`QueueMatchesFutures` and `RendezvousIsHandoff` (`Spec => ImplementsHandoff`).
`QueuedIffPending` ties the queue to the futures and keeps it free of duplicates;
with it, taking the head of the queue resolves a future that was pending and
therefore was in nobody's `received`; an offer whose future has its result is
exactly one somebody received, which with the sender's position gives
`SenderTellsTheTruth`. The refinement maps the fate of an offer to its future
while its sender is suspended and to the sender's report afterwards.

`ConversationBridgeProofs`, for any bindings (`ConstantAssumption`) and with any
faults, for conversations of any number of turns. The properties say what must
hold when the conversation ends or loses its input; none of them is inductive,
because what the bridge does at the end depends on what it was doing when the
input became ready. `BridgeInv` (`BridgeInvariant`) says so in parts: which
operation the bridge owns at each await (`PhaseInv`), which state of the turn that
operation fits (`TurnInv`), what has been decided and told (`VerdictInv`), how far
the sink is ahead of the flags while an operation on it is settled (`SinkInv`),
where the worker is (`AgentInv`) and why it was cancelled (`CancelInv`), which
events of the worker fit the turn (`AdmitInv`), and that an answer is on its way
only to a bridge that waits (`AnswerInv`). `FatalitiesAreKnown` says in which
situations `_fatal()` is reached. It needs what leads there (`CauseInv`: an abort is
refused only on a lost text session with an open stream, a sink is refused only when
it is completed, a voice follow-up only when the one before is spent) and that
nothing takes the situation away again until the process ends (`SituationInv`); both
lean on `BridgeInv`. From that alone follow `StreamsAreClosed`, `EndingIsConsistent`, `NoAssertionFires` and `ReturnIsClean`; the
action property `CancellationWins`; `BridgeIsOutcome`, the refinement of
`ConversationOutcome`, proved for a step of the bridge, of the agent and of the
input in turn; `BridgeAgentIsPort`: the agent the bridge is composed with does
nothing that `AgentPort` does not allow; and `BridgeInputIsPort`, the same of its
input. The last needs to know what the control queue can hold while the bridge's
receive may still take it (`QueueInv`): nothing but its close where the session is
gone, and with a microphone that is up only the end of the one follow-up or the
failure of an operation that does not return. `CloseReachesTheBridge` is what the
contract is worth: an answer, from the moment it is queued, finds a bridge that
waits for it, and once a close is queued nothing else is heard.

`AgentRuntimeProofs`, for both kinds of agent (`KindsAssumption`):
`StoppedIsQuiet`, `EventsFit`, `FailuresAreHeard`, `OnlyLostStopsExpire` (the safety
half of `StopIsAcknowledged`) and `RuntimeIsPort`, the other half of the contract. The centre of `RuntimeInv` is that at most one offer is
outstanding (`OfferInv`): while the worker awaits with a heartbeat, only the
heartbeat sends, and the worker goes on only after the join. With it, where the
bridge will be after the event on its way is determined (`TurnInv`), so that the
channel and the bridge agree again as soon as it has been taken.

`ServerProofs`, about one websocket session, for any capacity of the ingress
queue, any client, also one that sends frames early, and a shutdown at any time
(`ConfigAssumption`): `TasksAgree` (`AssertionsHold`, with `AcceptedOnce` and
`OutcomeOnlyWhenAwaited`) and the action property `ClosingIsHeard`. The five tasks
meet in a handful of fields, and `SessionInv` is what each may rely on: a queued
conversation is active and the handler is where it will take it (`QueueInv`); a
conversation is active from its commit to the end of its scope, and a close that
has got past the scope finds none (`ScopeInv`); each state of the session leaves
the handler only certain awaits (`PlaceInv`); an outcome is queued or heard only
where the bridge waits, or no longer listens (`AnswerInv`); an outcome is held
back only with nothing else on its way, which needs that no frame of one burst
leaves a lease to commit to (`HeldInv`); and a closing session has its close in
the control queue or in the bridge's hands (`CloseInv`). The session that reopens
(section 5, 6) keeps all of this: that is why the proof is by the place of the
handler and not by an order of the states. `SessionIsInput` is the refinement of
`InputPort`, for which a bridge at work must have its receive open or the answer
to it (`HeardInv`), and `ContractIsKept` states the two consequences of it for this
session. Neither is inductive over the contract alone: at most one outcome is
between the user and the bridge, and nothing is queued for a bridge that has
ended (`ContractInv`).

In the same module, about `run_server()`: `InputsCloseFirst`, for any interleaving of
failures, hangs, interrupts, signals and the deadline. `SharedOutlivesInputs` alone
does not say in which order the start-up opens, nor that `closeAgent` is reached only
after both known inputs are closed, `closeOllama` only so or because one has raised;
`LifecycleInv` adds these, and that a manager is dropped only before there is a
websocket.

`OllamaProofs`, for any finite disjoint sets of requests, checks and closes
(`GateAssumption`): `ExclusionHolds`, `GateWakesEveryone`, `RepairIsTrue`. The
invariant says that the counters are the numbers of calls at the places they
count and that there is at most one exclusive holder. `RepairIsTrue` is an action
property. The check looks at the running models, awaits the answer and returns later;
that what it saw still holds then (`LookStands`) needs the exclusion, since a request
in between would load another model. About the composition, `CallsKeepTheGate` is a step
simulation, `CallsSpec` implies the specification of the gate, so that
`GateHoldsForTheRace` follows; `RaceReturnsItsLeases` needs what the race waits for
in each of its places (`Settles`) and that a finished request holds no lease
(`OverIsOut`).

`VoiceProofs`, first for any number of sessions (`SessionAssumption`):
`ClosedSessionsAreQuiet` and `CloseAlwaysWins`. The scope of a conversation is
entered exactly while the loop is in it (`ScopeInv`), and the closing task has
ended the acceptance before it waits for the scope and has waited before it
closes (`ClosingInv`). The invariant as it stands in the property is not
inductive: nothing in it says that a `CLOSED` session cannot still be in the bridge.
`VoiceIsInput` is the refinement of `InputPort`: the collector of a follow-up
publishes its outcome as the last thing it does, and only an existing one is
acknowledged (`TalkInv`).

In the same module, about the boundary with the device, whatever the bounds on
generations, streams, segments, queue, playbacks and failures
(`BoundaryAssumption`): `OnlyKnownRefusals`, `ArmedMicrophonesHear` and
`PlaybackStaysLit`. The difficulty is that the callbacks
write the queue while the manager is somewhere else, so that the invariant has to
say, for every place of the manager, what may be in the queue. `TaskInv` ties the
manager's task to the state of the protocol; it is proved on its own, since no
callback touches either. `DeskInv` describes the desk between them: nothing is
queued and the driver is idle while disarmed (`QuietInv`); a stop or playback has
its command under way or its answer, and nothing else, in the queue (`StoppingInv`,
`PlayingInv`); an arm has in front of its answer nothing but early speech
(`ArmingInv`); and while it listens the queue is a `Phrase`, which is well formed as
a word of the segments' grammar, whose first event fits the protocol and whose last
one leaves the segment where the driver has it (`HearingInv`). That both ends hold
is what makes the invariant inductive: a callback appends at one, a receive takes
from the other. A stop empties the queue because a phrase consists of capture
events of one generation (`StopDrops`). `ArmedInv` gives the second theorem: the
driver captures for the protocol's generation, or has ended the only segment of it,
and then that end is in the queue or was dropped (`lost`). The exceptions of the
first theorem are reached: early speech while an arm calls its service, and, in
open mic, after a stream that restarts has dropped the end of a segment; a late
stop when a deadline meets a segment that the driver has ended.

`HomeAssistantProofs`, for any house and any history: `InventoryIsFresh`. The
inventory is what `BuildInventory` makes of details and cache; the newest event
of an entity on its way carries its actual state, and without a subscription
none is on its way; so applying the queue in order leaves every entity right,
pending or excused.

In the same module, about the requests of the agents: `BatchIsTrue`, that "ok" means
that every name was understood and every device called, and has answered, in that
request, and not in an earlier one (`OkMeansEveryDeviceTold`). It takes what the
resolution of a list of names is, `BatchResolution`: the device of each name that
can be resolved and no other, each once, in the order first named. That is a
statement about a recursive function for lists of any length. The induction
theorems of the library cannot be used, so it is proved by the least
counterexample: were the set of lengths for which it holds not all of them, the
missing ones would have a least member (`LeastMember`), which is not 0 and, by
the step of the loop (`FindNextKeeps`), not the successor of one for which it holds.
`RequestInv` then says that the results so far belong to the first devices of the
list and that a good result means that its device was told. A name that is not
understood is skipped and counted, and so makes the batch "partial". `HaAssumption`
requires of the requests only that they are sequences of names.

`AgentsProofs`, first for plans and conversations of any length:
`DependenciesHold`. A task that was not left out had its needs among the
completed tasks when the task ran, and needs name earlier tasks only; the
completed tasks before `i` are therefore closed under dependency, and the
transitive needs of `i`, the least such set, lie among them. Then, for any limits,
devices, speakers and providers: `ToolsAreBounded` and `CallsAreAnswered` (tools
run plus calls to do stay within calls counted, and calls answered plus calls to
do are the calls counted), `ReportsAreTrue`, `MusicSurvives` and
`RelocationArrives` (what was seen playing at the beginning plays until it is
released, and it is released only after the join has been seen to succeed),
`KnowledgeIsKept`. The assumptions are `LoopAssumption` and
`InformationAssumption`.

Every inductive invariant was model-checked on the instances of section 3 before
it was proved. In `ConversationBridge` that showed a step to be wrong which no
property had caught: the assertion of a follow-up in a lost text session overwrote a
`receive_control()` that had already returned. In `AgentRuntime` a heartbeat that is
cancelled now removes its one offer, as `Rendezvous.send()` does, instead of
filtering the queue; the behaviours are the same. In `HomeAssistantConnection` the proof of `BatchResolution` failed because
the model folded over the names in an order that is not determined: it now goes
through the list as the code does. The refinement of `InputPort` failed on the bridge:
its text user overwrote a control event that was already queued, where the code
closes the session for `ingress_overflow`, and the acknowledgement of a follow-up
put a retained answer into a full queue, where the code raises. Both are now as
in the code. In `MicrophoneBoundary` it showed
a second place where a segment's beginning is refused, in open mic, and that
`Retained` has to compare the generation of an event as `_drain_capture_events()`
does.

*Only model-checked*: liveness (`CloseReleasesAll`, `EndIsReached`,
`StopIsAcknowledged`, `SlotReleased`, `CloseReturns`, `LostIsReconnected`,
`CaptureEnds`, `EventuallyFresh`, `CloseIsServed`, `MessageIsAnswered`,
`StopsInTheEnd`), since the prover has no support for fairness and `ENABLED`. Every
invariant and every action property that a run checks is proved as well. No module declares a recursive
operator.

## 5. Where the code and its documents disagree

The first is a run in which the checker finds the documented expectation
violated; `PROJECT.json` quotes the line. For those with a configuration in
brackets there is one to run beside the model, `tlc -config X.cfg M`: it ends
with a counterexample.

1. A later turn of a conversation that streams a message hits the one-shot
   sink and ends the process (run `bridge_later_turn`).
2. A second follow-up in a voice conversation hits the first one's task and
   ends the process [`MCBridgeSecondFollowUp`, `MCConversationBridge`].
3. A text session that closes between the commit and the acknowledgement of
   a follow-up, or a text client that disconnects during a stream, makes the
   bridge raise, which ends the process [`MCBridgeDisconnect`,
   `MCConversationBridge`]. `OnlyKnownFatalities` states these, and 1 and 2, as
   the only situations in which a conversation ends the process without the failure
   of a neighbour.
4. A cancellation that meets the join of a heartbeat or the drain of a model race
   is lost, and the missed acknowledgement ends the process [`MCAgentRuntimeHeartbeat`, `AgentRuntime`].
5. `start_conversation` is admitted from the moment the state is `ACCEPTING`,
   which is before `conversation_ready` has been handed over. If the client
   leaves in that window, `close()` waits for a scope that was never entered
   and the slot is lost [`MCWebsocketEarlyStart`, `WebsocketSession`]. The run
   `websocket_session` has a client that waits for `conversation_ready`.
6. A close that commits while `session_accepted` or `follow_up_requested` is on
   its way is overwritten by the state that follows the write
   [`MCWebsocketClosingReopened`, `WebsocketSession`]. `websocket_session` shows
   that the slot is given back all the same.
7. After a cancellation in a follow-up state the next follow-up frame fails an
   assertion of the reader [`MCWebsocketAnswerAfterCancel`, `WebsocketSession`].
8. A segment that the satellite speaks while `StopListening` or a re-arm waits
   for its run to finish is dropped by the drain of the new arm, after its
   callbacks have disarmed the driver: `ListeningStarted` is reported, and the
   driver ignores every start [`MCMicrophoneDeaf`, `MicrophoneBoundary`].
9. A protocol violation in `request_follow_up()` is fatal to the process, where
   MP-ERROR-001 has the boundary recreated [`MCMicrophoneFatal`,
   `MicrophoneBoundary`].
10. The loss of a microphone during the clean-up of a conversation lets the
    supervising loop ask a `CLOSING` session to accept, which fails the assertion
    of `accept()`; the manager then recovers as from any failure
    [`MCVoiceAcceptClosing`, `VoiceSession`].
11. After the grace period the process waits for the closes of the inputs and
    of the connection to Ollama before it exits, where CP-SHUTDOWN-002 has a
    hard limit [`MCServerGrace`, `ServerLifecycle`].

A cancellation that is read together with the answer before it finds the
control queue full and closes the session as `ingress_overflow`, where the
protocol document has the session remain active; the model contains the
behaviour.

Further behaviour of the code that a reader of the models should know, none of
which a document contradicts:

- `StopListening` for a segment that the driver has already ended, its end still
  queued or dropped, fails an assertion of the driver, and `_wait_for_speech_start` swallows a cancellation of its own
  task that arrives while it awaits the one it cancelled (`manager.py` 406-437).
- In open mic a stream that starts while the end of a segment is queued drops that
  end; the beginning of the next segment is then a violation, and the boundary is
  recreated.
- Wake-word and follow-up captures have no deadline in the manager.
- In the model race a cloud model that fails first with something other than an
  `OllamaError` discards the local answer and starts no backoff.
- A second clarification of the router keeps only the answer, not the request; a
  task that was blocked by a clarification does not run after the answer; of
  several clarifications the first is kept.
- The Home Assistant tool may run several times in a task; the last result is
  the one reported. A change of several devices, or of the volume of several
  speakers, of which every call fails is reported as "partial", a success of all.
- A task of a plan counts as completed unless it failed, was left out or asks: what
  depends on a task that found nothing, or was done in part, runs all the same.
- Concurrent relocations, or an inventory that is behind at the start, can
  silence music: `MusicKeepsPlaying` and `OkMeansOutputs` assume a true picture
  at the beginning of a task.
- The Wikipedia and weather loops accept a reply of the model without a tool
  having run, and a weather cache of any age is used when all providers fail.
- An input whose close raises lets the connection to Ollama close while the other
  input is still closing; agent and Home Assistant are then not closed.
- Ctrl-C in the loop turn in which the microphones have started drops their manager
  (`server.py` 258-266): they run on, without agent and Home Assistant connection, until
  the process has ended [`MCServerOrphan`, `ServerLifecycle`].
- `_cancel_task()` has no deadline, and `MicrophoneManager.close()`, the session closes
  and the closes of the agents' caches and of Home Assistant swallow a cancellation that
  meets them while they await a task they have cancelled themselves. If such an await
  does not end, the grace period does not end the process (`Hangs`); if it does, a
  shutdown that overran its grace period can exit zero.

## 6. Not modelled, and the plan

*Partly*: the websocket server beyond one connection (admission count, registry,
parsing of frames); speech to text, speaker recognition and wake phrases, which
are one choice in `MicrophoneBoundary`; searching of devices and tool wrappers of
the Home Assistant connection; parsing, ranking and settings of the media agent;
what the reading agents fetch.

*Not modelled, worth doing next*, in this order:

1. `OpenClawGateway` (request correlation, chat runs, reconnection) and the
   websocket client as the session's peer; until then `WebsocketSession` has a
   client that may do anything.
2. Two conversations at once over the caches of the domain agents (the timezone
   file is read, awaited over and written as a whole).

*Left out for good*: prompt construction and routing by model output, parsing
and wording in the domain agents (text in, text out), conversation contexts (a
lookup without state), text to speech and other audio and numerical code behind
library calls, configuration, settings and file stores, offline tools, firmware.
The *values* of deadlines are left out everywhere: a deadline is a step that may
be taken when the awaited thing has not happened.
