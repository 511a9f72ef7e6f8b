# A TLA+ verification project for rust-ssh

rust-ssh lets a person reach the SSH server of a machine behind NAT. The machine
runs the *client* (called *agent* in the code), which keeps one control
connection open to a public *relay*. Somebody who wants to log in runs the
*connect* program, which asks the relay for a session; the relay tells the agent
over the control connection, the agent dials the relay a second time for that
session, and the relay copies bytes between the two connections. All connections
run inside a Noise channel.

The modules here are written from the code under `src/src` (line numbers below
are of those files). The tests in `src/tests/control_recovery.rs` and the docs
under `src/docs` were read with it.

## 1. Inventory

### Parts, their state and their operations

| Part | Code | State | Operations |
|---|---|---|---|
| Session broker | `server.rs` 60-168, 367-847 | connection permits; registry device -> `Device`; per `Device`: stop signal, pending map, `open_tx` queue; per connection its handler | accept, Hello, register/replace/unregister an agent, forward Open, attach a session, list devices, open a session, bridge, time out, fail |
| Control channel | `server.rs` 474-572, `agent.rs` 186-302, `protocol.rs` | relay: reader task, writer task, bounded queues, last-seen time; agent: reader task, times of the last ping and frame | ping/pong, heartbeat deadline, feature negotiation, forward Open |
| Agent supervisor | `agent.rs` 83-185, 304-380 | reconnect delay, stop signal, session tasks | connect, back off, stop, run a session |
| Token snapshot | `server.rs` 194-366, `identity.rs` | token files, last good snapshot | add device, reload, authenticate |
| Noise stream | `noise.rs` | handshake state, pending encrypted frame, decrypted buffer | handshake, poll_read, poll_write, flush, shutdown |
| Bridge | `bridge.rs` | two copy directions | copy, half-close, end |
| Connect client | `connect.rs`, `bin/rust-ssh-connect.rs` | one request | list, open, bridge |
| Client window | `desktop.rs`, `bin/rust-ssh-client.rs` | running agent, status messages, tray | start, stop, poll, quit |
| Connect window | `desktop.rs` | device list, pending refresh, aliases | refresh, edit alias, save |
| Managed SSH config | `desktop.rs` 1483-1503, 1529-1691 | a block in `~/.ssh/config` | build, replace, repoint |
| Settings files | `desktop.rs` 1233-1321, 1399-1477, 1693-1701 | settings, setup code and legacy files | load, save, migrate |
| Installer helper | `bin/rust-ssh-installer-helper.rs` | process list | find, prompt, terminate |
| Key generation, token files | `identity.rs`, `server.rs` 180-211 | key and token files | keygen, device add |
| Codecs | `bootstrap.rs`, `device_id.rs` | none | encode, decode |
| Command line | `main.rs` | none | parse, dispatch |

### How they interact

- A control connection, a session connection and a controller's connection are
  three independent tasks in the relay. They meet only in shared state: the
  registry, the pending map of a `Device` (both behind an `RwLock`/`Mutex` that
  is never held across an await), the `open_tx` channel of a `Device`, its stop
  signal, and the one-shot reply channel that a controller leaves in the map.
- The session connection's handler moves its stream *and its connection permit*
  through that reply channel to the controller's handler (`SessionHandoff`,
  98-101), which then owns both connections.
- A client that reconnects registers a new `Device` object under the same id.
  Old handlers keep running until they notice; lookups made before the change
  keep pointing at the old object.
- The token snapshot is read at each Hello; the noise stream carries every
  frame; the bridge runs after Ready on both the relay and the endpoints.
- The windows run the agent and the connect client on threads of their own and
  hear from them through channels and shared cells.

### What is hard, and what makes each part correct

- **Broker.** Three generations of tasks interleave on one device. A deadline
  races the answer it waits for; an Open may be read after its controller left;
  cleanup of an old generation runs after a new one registered; queues fill up
  behind a peer that does not read. Correct means: permits balance, the registry
  points at live handlers, a live handler is reachable, a reply sender has one
  owner, a stream reaches the request it was dialled for, every request and
  every stopped handler ends.
- **Control channel.** A reader that is not cancellation safe, a select loop
  whose branches become ready together, heartbeats from two clocks, backoff.
  Correct means: an alive peer is not dropped, a dead one is, the stream is never
  desynchronised, the agent keeps trying and stops when told.
- **Noise stream.** Partial writes and reads; a frame accepted but not yet
  written. Correct means: the peer reads exactly the bytes the writer was told
  were accepted, in order; an end inside a frame is an error.
- **Token snapshot.** Files change while they are read. Correct means: the
  snapshot in force agrees with every file that stood still, one bad file never
  empties it, and in the end it follows the files.
- **Key and token files.** Several commands at once, writes that fail halfway.
  Correct means: a printed pairing code works.
- **A session as a whole.** Four ends with deadlines of their own, two
  connections, half-closed streams. Correct means: no setup holds a slot for
  longer than its deadlines, Ready means that the SSH server was reached, the
  output is complete when the program ends well, and nothing stays of a session
  that failed.
- **Windows, config, settings.** Late results for old inputs, in-place
  rewrites, aliases that collide, a window that is killed between two files.
  Correct means: what is shown belongs in the end to the current input, a host
  that was configured works, and what the user wrote outside the managed block
  survives.

`PROJECT.json` lists the individual hazards with their lines.

## 2. Plan

| # | Module | Models | Status |
|---|---|---|---|
| 1 | `SessionBroker` | all handlers of the relay and the state they share | written, checked, proved |
| 2 | `SessionPromise`, `SessionBrokerRefines` | what a controller is promised; the broker implements it | written, checked, proved |
| 3 | `ControlChannel` | both ends of a control connection, in time | written, checked, proved |
|   | `AgentLifecycle` | the supervisor around it (reconnect, stop, session tasks) and the window that starts and stops it | written, checked, proved |
| 4 | `NoiseStream` | the encrypted stream after its handshake | written, checked, proved |
|   | `ByteStream`, `NoiseStreamRefines` | a reliable byte pipe; the stream implements it | written, checked, proved |
| 5 | `TokenFiles` | key and token files, keygen, device add, the relay's reload, authenticate | written, checked, proved |
| 6 | `SshSession` | one session end to end, with its clock: handshakes, both dialogues, the three bridges | written, checked, proved |
| 7 | `DeviceList` | the refresh of the Connect window and its thread | written, checked, proved |
| 8 | `SshHosts` | what the Connect window keeps on disk, its migration and crashes | written, checked, proved |

`SessionBrokerRefines` composes the broker with `SessionPromise`,
`NoiseStreamRefines` the stream with `ByteStream`, and `AgentLifecycle` is the
composition of the agent and its window. `SessionBroker` and `SshSession` look at
the same handlers from two sides: many sessions and generations without a clock,
and one session with its clock and its far ends.

"Proved" means every safety property of the module: what is left to TLC is
liveness. `LivePeerIsKept` is the only one with a condition on the constants beside the
named assumptions, because it depends on how the deadlines relate and on how many
Opens there are (section 4): it is proved under `SteadyTiming`.

## 3. The models

### SessionBroker (`server.rs`)

A connection is a member of `Agents`, `Attachers` or `Controllers`; its Hello
decides which, and the type of Hello is fixed in advance. Each has a label
saying where its handler stands. An action is the code between two points where
another task may run: an await that can block, or a lock taken again.

| Model | Code |
|---|---|
| `free`, the `Accept...` actions | the semaphore and `try_acquire_owned` in the accept loop |
| `registry`, `RegisterAgent`, `Unregister` | `RelayState.devices`, `handle_agent`, `unregister` with its `ptr_eq` |
| an agent `a` itself | the `Arc<Device>` its handler creates: one *generation* of `DeviceOf[a]` |
| `previous`, `shutdown`, `StopPrevious` | the displaced `Device` and `stop_device` |
| `pending` | `Device.pending`; the entry names the controller whose sender is stored |
| `openq`, `writeq`, `holding` | `open_tx`, `writer_tx`, the Open inside `writer_tx.send` |
| `ForwardOpen`, `BlockForward`, `ResumeForward` | the `open_rx` branch of the select loop |
| `WriteOpen` | the writer task, the wire and the start of `run_session` in the client |
| `ControlEnds`, `FailPending`, `AgentLeaves` | the exits of the loop and the cleanup after it |
| `LookupAttach` ... `HandOffTooLate` | `handle_agent_session` |
| `LookupTarget` ... `CloseBoth` | `handle_controller`, `register_pending`, `take_pending` |
| `reply`, `stream` | the one-shot channel and the `SessionHandoff` in it |

Abstractions, and why they lose nothing the properties see:

- Frame contents are reduced to device and session id. Session ids of honest
  controllers do not repeat, as in the run `broker_live`; `broker_safety` covers
  the case that they do.
- A connection is used once. A client that reconnects is another member of
  `Agents`.
- Emptying the pending map and notifying its senders is one step: the map is
  drained under its lock and the sends that follow cannot block. A
  controller whose reply is `error` a moment early differs from the code only
  in steps nobody else can see.
- The write of an Open, its delivery and its reading by the client are one
  step, taken at any later time. Frames lost when the connection ends are
  those still in `writeq`.
- Heartbeat, end of the reader and end of the writer are one nondeterministic
  `ControlEnds`. Their timing belongs to `ControlChannel`.
- Authentication is a choice between `AgentHelloFails` and success.
- What a bridge copies is left out; `CloseBoth` is its end.

Definitions headed "Faulty" are variants with a plausible bug. No specification
uses them; they are there to show that each property can tell the difference.

### SessionPromise and SessionBrokerRefines

`SessionPromise` says what a controller may rely on, with no handlers, queues or
generations: session streams are offered for a device and a session id, a
controller gets at most one final answer, and Ready means a stream of its own
that was on offer for exactly its request. `SessionBrokerRefines` maps the
broker's state to it: a stream is *offered* from hand-off and *granted* when
Ready is written, so the reply channel and the race with the open deadline all
have to map to nothing or to `Drop`.

### NoiseStream (`noise.rs` 164-434)

One direction of the stream: a writing `NoiseStream`, a TCP connection that
holds at most `PipeSize` bytes, and the reading `NoiseStream`. The other
direction has its own header, body, nonce and pending frame and shares nothing
with this one but the connection.

Bytes have numbers, not values. The caller's bytes are 1, 2, ...; the wire has
positions 0, 1, ...; `frames` remembers where each frame starts on both. A step
is one poll of the inner stream that transfers at least one byte, or what the
code does between two of them. `Poll::Pending` is a step that does not happen.

| Model | Code |
|---|---|
| `pending`, `offset`, the last of `frames` | `pending_write` with its `wire` and `plaintext_len` |
| `PollWrite`, `PollWriteAgain`, `WriteInner`, `FinishWrite` | `poll_write` and `poll_pending_write` |
| `PollShutdown`, `ShutdownInner` | `poll_shutdown`, called by the copy loops at the end of their input, and in `bridge.rs` 34 also after their input failed |
| `DropStream` | the stream is dropped or its connection fails |
| `read_header_filled`, `read_body`, `read_body_filled`, `plain_left` | the fields of the same names; `plaintext` less `plaintext_offset` |
| `ReadHeader` ... `Deliver`, `EndOfStream`, `ReadFails` | the loop of `poll_read` |
| `HeaderLengths`, the condition in `Decrypt` | what a header and `read_message` give when the reader is, or is not, where a frame starts |

What the model relies on:

- The caller that sees Pending polls again with the same bytes at the front of
  its buffer, perhaps with more behind them. `write_all` and the copy loops do
  that. A caller that gave a write up and then wrote *other* bytes would be told
  they were written when the old ones were; nobody in this repository
  does that, and only shutdown follows a write that was given up.
- Flushing finds nothing pending, because a write is not reported before its
  frame is out. It is therefore not an action.
- `read_message` succeeds on exactly the next ciphertext, complete, and fails on
  anything else (a cipher with a counter nonce).
- A reset may overtake bytes in flight.

`ByteStream` is what the rest of the program relies on, and
`NoiseStreamRefines` maps to it: a byte is in the pipe once its frame is
complete on the connection.

### ControlChannel (`agent.rs` 186-302, `server.rs` 474-572, `protocol.rs`)

One control connection from HelloOk on. `Ends` are the agent and the relay; what
both have in the same form (a reader task with its channel, the dead-after
deadline, the cleanup) is modelled once for an end `e`.

| Model | Code |
|---|---|
| `loop` | where the select loop stands: waiting in `select!`, writing a Ping inside a branch, waiting for room in `writer_tx` inside a branch, left, cleaned up |
| `reader`, `in_hand`, `Read`, `HandOver`, `ReadFails` | the reader task: in `read_u32`, in `read_exact`, in `frame_tx.send`, ended |
| `frame_rx`, `writer_rx` | the bounded channels of the same names |
| `writer`, `writing`, `TakeFrame`, `WriteFrame`, `WriterFails` | the relay's writer task |
| `parts`, `write_age`, `PutPart`, `WriteFails` | `write_frame` inside its `timeout` |
| `frame_age`, `ping_age`, `HeartbeatMissed`, `StartPing` | `last_frame`, `last_agent_frame`, `last_ping` and the `sleep_until` branches |
| `ForwardOpen`, `RelayReceive`, `Send`, `Sent` | the relay's branches that send to the writer, blocked in them or not |
| `Negotiate` | the `features` of Hello and HelloOk: each end may be a version without heartbeats |

A frame is on the wire in two parts, its length and its payload, because a read
or a write can be interrupted between them. Where a part is cut again makes no
difference to who is waiting for what.

Time passes in ticks, and only when no task has anything to do: the code's own
steps take no time compared with deadlines of seconds. When several branches of
a `select!` are ready they are taken in any order, which is what tokio does
(the order is random). A part arrives within `Latency` unless the connection is lost.
That no task has anything to do is written out, as the guards of all the tasks'
steps (`CanRun`, `CanRead`), because the prover knows nothing of ENABLED; TLC was
used to compare both with the ENABLED they stand for, in all states of both runs.

`lost_age` and `forwarded_before` are history: the time since messages to an end
began to vanish, and how many Opens the relay had forwarded by then.
`DeadPeerIsNoticed` speaks of them, and no action depends on them.

The network may lose an end (`Lose`): nothing reaches it any more, while the
other direction may still work. What is written to an end that is lost or gone
may stay in the send buffer, and fill it, or be taken. `Reset` breaks the
connection so that both can tell. A write to an end that has gone may fail before its
timeout, and a read may report the end before or after what was still under way.

### AgentLifecycle (`agent.rs` 83-157, `desktop.rs` 270-527)

The client program: the window `ClientApp`, one thread, and for every click on
start a thread with a runtime of its own, in which the supervisor calls
`run_control`, waits, and calls it again. A *run* is one such click; the runs are
numbered, so that a message or a task of an earlier one can be told apart.

| Model | Code |
|---|---|
| `phase[r]` | where `run_until_stopped_with_timing` stands, and its thread |
| `connected`, `delay`, `retry_delay`, `sessions` | its locals of the same names |
| `control[r]` | the control connection: held by `run_control`, or only by its reader task (`"detached"`) |
| `stop[r]`, `status[r]` | the one-shot stop signal; the channel of `Status` messages |
| `agent_thread`, `stop_tx`, `status_rx`, `connection_state` | the fields of `ClientApp`, as far as they are Some; all belong to the last run |
| `gui`, `Drain`, `Check` | one `update`: `poll_agent` drains the channel, then looks whether the thread has finished, then come the buttons and the tray. The agent may move between these steps |
| `StopSeen` | the stop branch of either `select!`; `run_control` is dropped at whatever await it is |
| `Close`, `Exit` | the tray's quit, with `Drop`; the process's end |

`ControlChannel` says when and why `run_control` ends; here it may end at any time.
Starting with settings that are not valid changes nothing but the text, and a
target that is not a loopback address is refused by the window before a thread exists.
The sender of `status` is dropped a moment before its thread is finished; both are
`ThreadEnds` here, because by then the channel holds all it will ever hold.

### TokenFiles (`identity.rs`, `server.rs` 118-126, 180-256, 325-437)

Every program that touches the key and token files, one file access per step:
runs of keygen and of device add, the operator's shell, and the relay. Tokens and keys
are random, so a file's content is who made it up, and whether it is written:
a created file is empty until its write, which may fail.

| Model | Code |
|---|---|
| `file`, `aside` | the files, and what the operator has moved to `.disabled` or `.old` |
| `generate`, `KeygenChecks`, `CreateNew`, `Write` | `identity::generate` with `write_new_private` and `write_new` |
| `add_device`, `AddChecks`, `LoadPublicKey` | `server::add_device` with `load_public_key` and `write_token` |
| `MoveAway`, `MoveBack`, `Tee` | the operator's `mv` and `openssl rand -hex 32 \| tee` of `docs/deployment-detailed.md` |
| `Start`, `ReadController`, `ListDevices`, `ReadDevice`, `Apply`, `LoadFails` | `ServerIdentity::load`, `load_auth_snapshot` at start and in `spawn_auth_reload` |
| `auth`, `authenticate` | the snapshot and the check of a Hello against it |

The listing of the directory is one step; `read_dir` may in fact see some names before and
some after a change, which here is a listing before or after it for the files that
moved. A file that changes while a load runs is free to be seen or not:
`LoadsSeeSteadyFiles` speaks of the others. The write of 64 characters is whole
or has not happened.

### SshSession (`connect.rs`, `agent.rs` 304-379, `server.rs`, `noise.rs` 19-162, `bridge.rs`)

One session: `connect` and its handler in the relay (`relay_c`), the agent's
session task (`agent`) and its handler (`relay_a`). `at` says which message an
end waits for, `timer` what is left of the deadline it waits under.

| Model | Code |
|---|---|
| `Dial` ... `HearMessage3` | `client_connect`, `client_handshake`, the accept loop, `server_handshake` |
| `HearHello` | `handle_connection`: one deadline for the whole Hello |
| `ConnectHelloOk`, `HearResponse` | `connect::run_with_timing` and `list_devices_with_timing` |
| `AgentHelloOk`, `HearAccepted`, `LocalConnect` | `run_session` |
| `HearRequest`, `HandlerGrants`, `HandlerRefuses`, `OpenExpires` | `handle_controller` |
| `HearAttach`, `HearReady`, `Reply` | `handle_agent_session`, and the reply channel between the two handlers |
| `Upload`, `Download` | `stdin_stdout`; `done` are the directions that have ended |
| `Pipe`, `Serve`, `BridgeEnds`, `BridgeFails` | `bidirectional` in the relay and in the agent; dropping both streams |
| `Timeout`, `Break`, `SeeEnd` | each `timeout` of the setup; an error; the end of the stream |

A message may take any time, for ever included: that is how a silent peer, a dripping
one and a dead network look to the code. Deadlines are exact: time stops when one
is due until it has been acted on. Writes of the setup are not waited for; their frames
are smaller than any send buffer. The connection to the local SSH server and the bridges have
no deadline, as in the code. The Open frame travels in `told`; the control
connection it takes belongs to `ControlChannel`.

### SshHosts (`desktop.rs` 553-785, 1233-1321, 1399-1503, 1529-1701)

The Connect window as the writer of three files. The SSH configuration is the
user's lines before and after the managed block, the state of its two markers,
and its Host blocks. A write in place may be cut off: what is left is a
beginning of the new text (`CutOff`), which lacks the end marker, or only lines behind it.
A Host block is written or not as a whole; a block cut inside has no end marker behind it
either, and no code reads it again before that marker is back.

| Model | Code |
|---|---|
| `MigrateSetup`, `RewriteSetupPath`, `Rewritten` | `migrate_setup_code_file`, `rewrite_setup_path_in_managed_block` |
| `LoadSettings` | `load_settings` with its own migration; what does not parse is the default |
| `Save`, `SaveSettings` | `save_settings`, `write_private_file`: the rename happens or the old file stays |
| `SaveHostAlias`, `HostOf` | `save_host_alias`, `host_alias_for` |
| `Configure`, `WriteSetup`, `UpdateConfig` | `configure_selected` and `connect_selected`: the three writes of `install_ssh_host`, in its order |
| `Updated`, `Replace` | `update_managed_ssh_config`, `split_host_blocks` with its `retain` |
| `Exit` | the window is closed or killed, at any step |
| `AddLine`, `DeleteManaged` | the user edits the file |

Assumed of the surroundings: one window runs at a time (a named mutex on Windows, the
application bundle on macOS); the user does not save the file in an editor in the
instant between its being read and written; v0.5.5's data folder stays where it is.
`Legacy` says whether there is such a folder; `Legacy` FALSE is every other
platform and is covered by the first states in which nothing is migrated.

### DeviceList (`desktop.rs` 529-684, 794-903)

The list of online devices: a refresh runs on a thread of its own, with the
pairing code of the moment it began.

| Model | Code |
|---|---|
| `frame` | one `update`: `poll_refresh`, the automatic refresh, the widgets with at most one event of the user's |
| `refresh_rx` | the receiver, with the code the thread was given and what it has sent |
| `Refresh`, `PollRefresh`, `AutoRefresh`, `Kept` | `refresh`, `poll_refresh`, the head of `update`, the `filter` of the selection |
| `ThreadEnds` | the thread sends a list or an error, or dies |
| `Quit`, `Close` | `poll_tray`; the window's end with `Drop`, which cancels the refresh |

## 4. What is checked

| Run | Shows |
|---|---|
| `broker_safety` | `RegistryIsServed`, `UnstoppedIsReachable`, `SendersHaveOneOwner`, `PermitsMatchConnections`; `PromiseKept`: the broker implements `SessionPromise`, even when one controller withdraws another's sender |
| `broker_live` | `StreamsMatchRequests`; `RequestsEnd`: the open deadline ends every request; `StoppedHandlersLeave`: a replaced handler goes away, even one blocked on its writer |
| `broker_orphan` | a counterexample, see below |
| `noise` | `EndIsComplete`, `ErrorsMeanTruncation`; `PipeKept`: the stream implements `ByteStream`; `AcceptedArrives`: piecewise progress through a connection smaller than a frame |
| `control_loss` | `FramesStayAligned`, `DeadPeerIsNoticed`, with loss, reset and replacement at any moment |
| `control_steady` | `LivePeerIsKept`, `OpensReachAgent` on a connection that works |
| `lifecycle` | `TypeOK`, `OneAgentAtATime`, `DisplayAgrees`, `StoppedIsQuiet`, `BackoffFollowsFailures`, `SessionsSurviveReconnect`, `StopEnds`, `KeepsTrying` |
| `token_files` | `PrintedCodesWork`, `LoadsSeeSteadyFiles`, `ReloadCatchesUp` |
| `ssh_session` | `TypeOK`, `SlotsAreBrief`, `ReadyMeansReached`, `CleanExitIsComplete`; `SetupsEnd`, `HalfSessionsEnd`: every end of a session that fails is given up |
| `ssh_hosts` | `TypeOK`, `ConfiguredHostsWork`, `NamesAreUnique`, `UserLinesKept`, with kills, failed and cut-off writes |
| `ssh_hosts_upgrade` | a counterexample, see below |
| `device_list` | `TypeOK`, `SearchIsShown`, `ListCatchesUp` |

The type invariants of `SessionBroker`, `NoiseStream`, `ControlChannel` and
`TokenFiles` are theorems (section 5) and not checked by a run, and neither are
`HandedStreamsAreHeld`, `ReceivedInOrder` and `PublicKeyMatches`. The inductive
invariants, which stand at the head of the proof modules, were checked by TLC with the
constants of these runs before they were proved.

**Bounds, broker.** Two agents of one device are an old and a new generation, the case
in which lookups, cleanup and replacement interleave. Two attachers
are as many as there are Opens, so a late Open and a current one can both be
dialled. `MaxConnections` is below the number of connections, so refusal for
want of a permit happens. `MaxPending` 1 makes the limit, the full Open queue
and the stale Open in it happen with two controllers in `broker_live`; `broker_safety`,
where both name one session id, uses 2 to let the second controller past the limit. `WriterCapacity` 1 makes the handler
block in `writer_tx.send`. Connections of one kind are symmetric in the safety
run; the liveness run uses no symmetry, and one attacher.

**Bounds, stream.** Five bytes in buffers of one to three, with chunks of two,
give up to five frames and every way a buffer is larger than, equal to or
smaller than a chunk. The header is two bytes, the fewest that can arrive in part. A
frame has up to five bytes on the wire and the connection holds four, so that a
full frame takes several rounds of both sides.

**Bounds, control channel.** The code's 15 s, 45 s and 10 s are 3, 9 and 2 ticks
in `control_steady`, the ratio they have; latency is one tick. `control_loss`
has 2, 5 and 2, so that a write timeout can outlast the rest of the dead-after
window, which is the case that makes detection late. One place in each channel
and two parts on the wire make every queue full and every sender wait; three
Opens can overtake a Ping or wait behind it.

`DeadPeerIsNoticed` allows an end `DeadAfter` and one `WriteTimeout` for each write
that may stand in its way (`Writes`). For the agent these are two: a frame read
just before the loss may stay in the channel while the loop is blocked in a Ping,
then count as a sign of life, and at the end the deadline may fall due during
another blocked Ping. With the code's numbers an unreachable relay is noticed after
at most 65 s, not 45. For the relay they are the Pongs of the frames it has
read, the frame its writer has in hand, and every Open it forwards
meanwhile: the select loop takes ready branches in any order, so it may serve `open_rx`
again and again while a frame or the deadline is ready, and each time wait for room in
`writer_tx`. A constant bound is wrong: `DeadAfter + 2 * WriteTimeout` holds in
`control_loss`, where there is one Open, but with five Opens waiting at the
loss (`DeadAfter` 4, `WireSize` 1) TLC finds the relay still in its loop.

`LivePeerIsKept` needs slack, and few Opens, for the same reason. At a ping interval of 3
and a latency of 1, `DeadAfter` 5 drops live peers when a frame waits for one blocked
write, 6 does not; the code has 45 s for 15 s. With the constants of `control_steady` it holds
for three, five and seven Opens, and fails with nine: the relay forwards Open after Open
into a connection that is slow, up to a write timeout each, until `HeartbeatMissed`
is ready, and takes that branch though a Ping waits in `frame_rx`. The run keeps three.

`SteadyTiming` states the slack as a condition, and section 5 proves that it is enough:
`Latency` is below `PingInterval` and `WriteTimeout`, and the longest that a Ping can wait,
`Latency * (MaxOpens + 2)`, is below `PingInterval * (Capacity + 1)` and leaves
`PingInterval` free in `DeadAfter`. The constants of the run satisfy it (5 < 6 and
8 < 9), those with five Opens do not though TLC finds no
counterexample: it is sufficient, not necessary. With the code's 15 s, 45 s and 10 s and its
capacity it allows 27 Opens at a latency of one second and 297 at a tenth of one. The
bound is on all Opens of a connection, while what matters is how many of them
come while one Ping waits; a connection that lives long enough for more Opens than that
is outside the theorem, however slowly they come.

**Bounds, agent.** Two runs, so that a start can meet what is left of the run
before it. At most two messages unread (`MaxUnread`; the last words of a run are always
sent, so there may be three): the agent can be ahead of the display by a whole
attempt. Delays 1, 2 and then 3 instead of 1 to 30 s: growth and cap, with four
failures in a row told apart (`CountTo`). Two sessions, so that one may outlive
a connection while another is opened on the next.

**Bounds, token files.** Two runs of each command, on any of two devices: both
device adds may be for the same id, both keygens race. Two moves and one new controller
token let a file go and come back, or an added one replace it, while a load is
between two of its files. All counters are finite, so the files come to rest,
which is when `ReloadCatchesUp` asks for agreement.

**Bounds, session.** A tick is five seconds and the deadlines are the program's own,
10, 10, 10 and 15 s. One unit of input and two of output let data be on both
connections at once and lie behind an end. There is one session, because sessions share only
what `SessionBroker` has.

**Bounds, SSH hosts.** Two devices with a nickname between them give every
collision of names there is between two blocks. One line of the user's can stand before or
behind the block. Two cut-off writes: one to tear the block open, another on top of it.

**Bounds, device list.** Two codes, two devices: a result for the one while the
other is there, and a selection that is or is not in the next list. Nothing
counts, so there is no other bound.

**Fairness.** Nothing is assumed of the peers. `FairSpec` of `SessionBroker` assumes
`ControllersRun` and `AgentsRun`, and nothing of sessions and control
connections, which may block for ever.

- `ControllersRun`: a controller's handler that can move does. Its only wait
  is inside `timeout(open_timeout, ..)`, so it always can. The Failed and Ready
  frames have no deadline of their own (the code writes them with a plain
  `write_frame`): the assumption is that a frame of that size is written or its
  write fails.
- `AgentsRun`: the handler looks at its stop signal again; while blocked on the
  writer it is released by room in the channel or by the end of the writer task,
  which `write_timeout` guarantees; the cleanup waits for nobody. Only weak
  fairness is used.

- `FairSpec` of `NoiseStream`: the reading side keeps polling while there is
  something to do (it is woken by the connection, and the copy loops and
  `read_frame` have no other wait), and a write or shutdown in progress is polled
  again when the connection has room. Nobody has to write, end or shut down.

- `SteadySpec` of `ControlChannel`: a task that can run does, and time passes.
  This is the runtime and the clock; nothing of the network is assumed beyond
  `Latency`, which is part of when time may pass.

- `FairSpec` of `AgentLifecycle`: the window is updated again and again, also
  without input (`request_repaint_after`, 507); nobody has to click. The
  supervisor's own steps happen and its timer fires. A stop signal that was sent
  stays ready, and both `select!`s poll it whenever they are woken. No attempt has
  to end or to succeed.

- `Spec` of `TokenFiles`: the relay's interval ticks and its reads return. No command has
  to run or to finish, and nobody has to start the relay.

- `Spec` of `SshSession`: the clock runs, deadlines that are due are acted on, a
  closed connection is noticed, the loopback accepts or refuses, the bridges move what
  they have. Nothing is assumed of messages, of ssh, or of the SSH server before its input
  has ended; that it ends after its input has is what sshd does, and only
  `HalfSessionsEnd` needs it.

- `Spec` of `DeviceList`: the window is repainted every 250 ms
  (`request_repaint_after`), the thread ends (all of `list_devices` is under
  deadlines), time passes. Nobody clicks.

**Counterexamples.**

- `broker_orphan`. `src/CHANGELOG.md` says that requests not yet established on an
  old control connection fail promptly when it ends. A controller that looked
  the `Device` up before the cleanup's `fail_pending` and calls
  `register_pending` after it enters the map of a handler that is going away. If its
  Open is also queued before `open_rx` is dropped, nothing will answer it until
  the open deadline. `RequestsEnd` still holds, thanks to that deadline.
- `ssh_hosts_upgrade`. `src/CHANGELOG.md` says that hosts configured by v0.5.5
  are pointed at the new place of the pairing code, with no click needed. The result of
  copying the code there is ignored, so that after a failed copy, or one that was
  cut off when the window was killed, hosts that worked name a file that is
  missing or partial, though the old one is still there. `ConfiguredHostsWork`
  holds all the same, because it speaks of hosts that this version configured.

Seen while modelling, without a run: `src/docs/deployment-detailed.md` 197 says that
the relay refuses to run two clients of one device id, while the code
registers the newer one and stops the older; dropping `run_control` on a stop
detaches its reader task, which keeps the control connection until the runtime is
dropped (`agent.rs` 109, 234); `src/CHANGELOG.md` 9 speaks of 45 s, while the relay may
need longer to notice an unreachable client, and may drop one that answers, when
it forwards many Opens into a slow connection (`server.rs` 503-560; the bounds of the
control channel above).

## 5. What is proved

Each safety property that a run checks is a theorem for all values of the constants;
for `LivePeerIsKept`, all that satisfy `SteadyTiming`. The liveness properties (`RequestsEnd`, `StoppedHandlersLeave`,
`AcceptedArrives`, `OpensReachAgent`, `StopEnds`, `KeepsTrying`, `ReloadCatchesUp`,
`SetupsEnd`, `HalfSessionsEnd`, `ListCatchesUp`) are only model-checked: reasoning with
fairness is outside the prover's reach. What is assumed of the constants are the named
ASSUMEs of the modules and nothing else; bounds that stand for "any number" in a run are
arbitrary naturals here. A proof module holds what the theorems need: first the inductive
invariant with its named parts, then one lemma per part, with a step for each action.

### The broker

`SessionBroker_proofs` proves, for any finite sets of connections, any devices
and ids, and any limits:

| Theorem | States |
|---|---|
| `TypeCorrect` | `[]TypeOK` |
| `LookupsFindServedDevices` | `[]RegistryIsServed` |
| `UnstoppedHandlersAreReachable` | `[]UnstoppedIsReachable` |
| `OneOwnerPerSender` | `[]SendersHaveOneOwner` |
| `StreamsReachTheirRequest` | `[]StreamsMatchRequests` |
| `HandedStreamsHaveAHolder` | `[]HandedStreamsAreHeld` |
| `NoPermitIsLost` | `[]PermitsMatchConnections` |
| `RelayKeepsItsPromise` | `PromiseKept`: `SessionBroker` implements `SessionPromise` |

Assumptions: the three named ASSUMEs of `SessionBroker` (connections are finite
sets without `None`; `DeviceOf`, `Target` and `IdOf` are functions of the right
type; the limits are naturals). Session ids may repeat.

The argument is one inductive invariant, `IInv`. The properties are not
inductive alone: that a stream matches its request needs to know that the
attacher's sender belongs to the request it dialled for (`TakenAreOwned`), which
needs that a pending entry under an id belongs to a controller with that id on
that `Device` (`PendingAreOpening`), which needs that labels and lookups agree
(`HandlesAreSet`); that no second stream reaches a controller needs
that the entry leaves the map when it is taken, and that a reply channel with
something in it no longer has a sender (`StreamsAreReplies`). Each part has a
lemma with one step per action, and `InvariantStep` puts them together.

`NoPermitIsLost` counts. Each label of a handler accounts for a permit or for none
(`HeldByAgent` and the like); a stream handed off still accounts for its permit under the
label of the connection it came from. `AgentCounts`, `AttacherCounts` and
`ControllerCounts` say how a change of one label changes one of the three cardinalities, the
`Balances` lemmas what that means together with `free`, and the proof goes through the
actions.

`RelayKeepsItsPromise` is the refinement. An action maps to `Offer`, `Drop`, `Grant`,
`Answer`, `Close` or a stutter; which one depends on who holds the stream, so the
lemmas about that come first (`OfferIs`, `BridgedByHolder`, `Unseen`, `Dropped`): a
controller that leaves with a stream in its channel drops it. Beside `IInv` it uses one
fact more, that an answer is the last act of a controller, but for Ready (`AnswersAreLast`).

### The stream

`NoiseStream_proofs` proves, for any amount of input and any sizes of buffers,
chunks, header, tag and connection (`SizesAssumption`: naturals, and all but the
input positive):

| Theorem | States |
|---|---|
| `TypeCorrect` | `[]TypeOK` |
| `BytesInOrder` | `[]ReceivedInOrder` |
| `NoErrorByFragmentation` | `[]ErrorsMeanTruncation` |
| `CleanEndIsComplete` | `[]EndIsComplete` |
| `Refinement` | `PipeKept`: `NoiseStream` implements `ByteStream` |

The argument keeps three facts beside the properties. `FramesInLine`: frames lie
without a gap, on the wire and in the caller's bytes. `WriterInPlace`: what was
sent ends at the last frame's end, or `offset` bytes into it, and the reported
count is what lies before that frame, or includes it. `ReaderInPlace`: what was taken is the
decrypted frames and the part of the next one that the header and body counters
say, and what was delivered is the decrypted plaintext less what is left. From
these, `ReaderAtEnd` shows that a reader who has taken everything is inside a
frame exactly if the writer is; `LengthIsGenuine` and `BodyIsGenuine` show that a
complete header and body are always the next frame's, so that the branches for
other contents are dead on a connection that alters nothing.

### The control channel

`ControlChannel_proofs` proves, for any intervals, deadlines, latency and
capacities (`TimingAssumption`):

| Theorem | States |
|---|---|
| `Invariant` | `[]IInv` |
| `TypeCorrect` | `[]TypeOK` |
| `AlwaysAligned` | `[]FramesStayAligned` |
| `DeadPeersAreNoticed` | `[]DeadPeerIsNoticed` |
| `LivePeersAreKept` | `[]LivePeerIsKept`, if `SteadyTiming` |

`FramesStayAligned` follows from `Alignment`: as long as an end can still be
read from, the parts on its wire alternate between length and payload, begin
with the one its reader waits for, and end as the writer's `parts` says. A
read removes the first, a write adds the one that is due (`TakeAlternates`,
`PutAlternates`), and no other step touches reader, wire and writer of one
direction unless it ends one of them: a timeout in the middle of a write ends
the writer task for good, and a deadline never interrupts the reader task.
`HeldFrames` supplies what the type of the queues needs: a task that is about to
hand a frame on has one.

`DeadPeerIsNoticed` is not inductive: nothing in it says why an end that is still there
will not stay. `AgentInTime` and `RelayInTime` say how far the time since the loss can
have come in every state. For the agent, either a frame that will count is still waiting,
and then only the Ping that keeps it waiting has taken time; or `frame_age` has been
counting since, behind at most that one Ping; or the deadline is due, and the Ping
being written is the only thing the loop can still be in. For the relay the time
spent in writes takes the place of the first Ping: `Spent` counts the Opens
forwarded since the loss and the frames that can no longer come (a frame that the loop takes leaves
`Signs` and adds to `Spent`), `SendTime` is what the write in progress has taken, and
time passes only in a write that is counted, or in `frame_age`. `Tick` is the
step where this has to be shown; it can only happen when no task can run, so a loop in
`select` has no frame and is not due (`CanRun`).

`LivePeerIsKept` has an inductive invariant of its own, `SteadyInv`, which says something only
while the connection works and nobody stops it (`Works`), and is inductive relative to
`IInv`. It bounds every clock that could end a loop:

- No write waits longer than `Latency`. `RelayWrites` says that what the writer waits for was
  on the wire when its wait began, and a part is read within `Latency` of being put
  there; its reader takes it or ends, and `TasksRun` says that no task has ended.
- A Ping is read before the next one is due, so the agent's own write finds room
  (`AgentWrites`).
- The agent hears a frame every `PingInterval + 2 * Latency` (`AgentHears`): the Pong of each Ping
  is on the wire `Latency` after the Ping unless the writer is busy, and what it is busy with
  counts as a sign of life too.
- The relay may leave Pings unread, since its loop takes ready branches in any order. `Silence`,
  one `PingInterval` for each unanswered Ping and the age of the last, bounds
  `frame_age["relay"]` (`RelayHears`). Only the write of an Open or of one Pong can keep
  the loop from them, each at most `Latency`, so `Silence` stays within
  `MostSilence`, which grows with `forwarded`. `SteadyTiming` puts that below `DeadAfter`, and
  keeps the Pings that wait from filling the channel and the reader's hand.

`TasksStep`, `RelayWritesStep`, `AgentWritesStep`, `AgentHearsStep` and `RelayHearsStep` carry one part
each over a step. `SteadyMoves` says which actions are left on a connection that works: none that
gives up; `SteadyIdles` what is true when time passes. TLC checked `SteadyInv` for
three sets of constants first.

### The token files

`TokenFiles_proofs` proves, for any devices, runs of the commands and moves
(`PathsAssumption`: no device id is another file's name; `MakersAssumption`: the
commands are different, none is called "nobody"; `MovesAssumption`):

| Theorem | States |
|---|---|
| `Invariant` | `[]IInv` |
| `TypeCorrect` | `[]TypeOK` |
| `KeysMatch` | `[]PublicKeyMatches` |
| `PrintedCodesAreGood` | `[]PrintedCodesWork` |
| `LoadsAreFaithful` | `LoadsSeeSteadyFiles` |

What makes it inductive is what a command on its way may rely on: a keygen that
has written its private key finds it there until the end (`KeysInPlace`), because
nobody else can create the file again; and a device add that has read a public key
knows that this key file is whole and stays (`CodesInPlace`). `create_new` is
needed for both: the checks of `exists` before it decide nothing.

`LoadsAreFaithful` is about a step that ends many others: `LoadInPlace` says what a load
that has come so far knows of the files that have stood still since it began. A file leaves
`steady` with the step that changes it, and a file that is read is never taken back
while it is steady.

### The SSH hosts

`SshHosts_proofs` proves, for any devices, names and lines and any number of cut-off
writes (`NamesAssumption`: no nickname is a device's own name; `LegacyAssumption`;
`BoundsAssumption`; `FilesAssumption`: a missing and a partial file are not a good one):

| Theorem | States |
|---|---|
| `Invariant` | `[]IInv` |
| `TypeCorrect` | `[]TypeOK` |
| `ConfiguredHostsAlwaysWork` | `[]ConfiguredHostsWork` |
| `NamesStayUnique` | `[]NamesAreUnique` |
| `OnlyTornWritesLoseLines` | `UserLinesKept` |

`ConfiguredHostsAlwaysWork` follows from `SetupInPlace`: who stands behind `WriteSetup` has
left a good code, and from then on it is only replaced by a good one; the migration does not
touch a file that is there. `OnlyTornWritesLoseLines` needs only that the configuration is a
record of its four parts (`ConfigInv`): both texts the program writes keep the
parts before and after the block (`NewTexts`), and a write that completes leaves that text.

For the names, `ReplacedList` shows that replacing a device's block in a list without
collisions gives one without: `retain` keeps only blocks that share nothing with the
new one, in their order, and the list that is cut off is a beginning of it
(`BeginningOfList`). `retain` is a recursive function over the list, and the prover
has no induction over data; `RetainedExists` supplies the one instance that is
needed, from a well-founded order on the naturals (`SetInduction`: a set of naturals with
0 and every successor is all of them) and with it that the function exists and
has its recursive equation.

### The agent

`AgentLifecycle_proofs` proves, for any sessions, delays and numbers of runs
(`SessionsAssumption`: finitely many; `DelaysAssumption`: delays and bounds are positive,
and the first delay is not above the largest):

| Theorem | States |
|---|---|
| `TypeCorrect` | `[]TypeOK` |
| `OneAgent` | `[]OneAgentAtATime` |
| `StoppedAgentsAreQuiet` | `[]StoppedIsQuiet` |
| `DisplayTellsTheAgent` | `[]DisplayAgrees` |
| `SessionsOutliveConnections` | `SessionsSurviveReconnect` |
| `DelaysFollowFailures` | `[]BackoffFollowsFailures` |

`RunsInTurn` says that only the last run can be alive, and that the window knows its thread
as long as it is; `OwnedByPhase` what a supervisor holds at each point. What is displayed lags
behind the agent, so `DisplayAgrees` follows from `MessagesTell`: what *will* be
displayed once every message was read always fits the phase; reading one more message
does not change it (`ReadingShowsTheSame`), and every change of phase sends the message
that fits. `DelaysFollow` ties the delay to the number of failures in a row, through
`Doubled`, a recursive function whose equation is again obtained from `SetInduction`
(`DoubledIsDefined`).

### The session

`SshSession_proofs` proves, for any deadlines and amounts of data (`TimesAssumption`: deadlines
are positive naturals; `BoundsAssumption`):

| Theorem | States |
|---|---|
| `TypeCorrect` | `[]TypeOK` |
| `SlotsComeBack` | `[]SlotsAreBrief` |
| `ReadyIsKept` | `[]ReadyMeansReached` |
| `NoOutputIsCutShort` | `[]CleanExitIsComplete` |

`SlotsAreTimed` is what makes a chain of deadlines add up: what a handler has spent and
what is left of its present deadline are together no more than the deadlines up to this one. A tick
moves one to the other, and a new deadline starts with the sum of those
before. For `ReadyIsKept`, the two handlers are tied together by the reply between them
(`HandlersMeet`), and a Ready on its way by those who must have sent it (`ReadyIsMeant`): the
agent bridges or ended as bridges end. For `NoOutputIsCutShort`, `OutputFlows`
counts: what the SSH server sent is what was received and what is on the two
connections; the end of the output is behind all of it on both, and is passed on only
by a handler that has passed on what was before it.

### The device list

`DeviceList_proofs` proves, for any pairing codes and devices (`CodesAssumption`: the special
values are not codes or devices):

| Theorem | States |
|---|---|
| `TypeCorrect` | `[]TypeOK` |
| `DisplayTellsTheSearch` | `[]SearchIsShown` |

`SearchIsShown` is inductive together with the types: every step that takes or drops the
receiver sets the display with it, and none sets the display to something else meanwhile.

## 6. What is not modelled, and why

- `bin/rust-ssh-installer-helper.rs`: a list of process ids is taken, the user
  is asked, the processes are ended. What could go wrong is the reuse of
  an id by the system in between, which neither the program nor a model of it can see.
- `client.json` (`desktop.rs` 228-250, 1245-1262): one writer, read at start. A file
  without `config_version` is read as the newest version, unlike
  `docs/deployment-detailed.md` 468 has it; no state or order is involved.
- An editor that saves the SSH configuration while the window rewrites it (`desktop.rs`
  1614-1666): the program cannot notice, so it is an assumption of `SshHosts`.
- Which of two devices that want one Host name gets it (`desktop.rs` 721): the one
  configured last; `NamesAreUnique` says only that the other's block goes.
- `bootstrap.rs` and `device_id.rs`: stateless encodings, each covered by its
  unit tests; nothing interleaves with them.
- `main.rs`: argument parsing and calls into the other parts.
- Drawing, fonts, icons, tray pictures and message texts.
- The cipher and its keys (library code): the models rely on what the code does
  with its results.
