---------------------------- MODULE SshSession ------------------------------
(***************************************************************************)
(* One SSH session, from the connect program (src/src/connect.rs) to the   *)
(* SSH server beside the agent.  Four ends speak over two connections:     *)
(* connect and the handler the relay gives its connection, and the agent's *)
(* session task (run_session of src/src/agent.rs) and the handler of that  *)
(* one.  Each goes through the Noise handshake (src/src/noise.rs), Hello,  *)
(* a request and its answer, under deadlines; the two handlers             *)
(* (src/src/server.rs) meet in the pending entry and its reply channel.    *)
(* Then connect bridges its stdin and stdout (src/src/bridge.rs), the      *)
(* relay one connection with the other, the agent its connection with the  *)
(* SSH server.                                                             *)
(*                                                                         *)
(* Each wait has its deadline.  A message may take any time, for ever      *)
(* included, which is also how a silent peer or a dead network looks; any  *)
(* connection may break.  SessionBroker has many sessions and generations, *)
(* and no clock; here is one session, with its clock.                      *)
(***************************************************************************)
EXTENDS Integers, Sequences, FiniteSets, Functions

CONSTANTS
    HandshakeTime,  \* HANDSHAKE_TIMEOUT, NOISE_HANDSHAKE_TIMEOUT
    HelloTime,      \* HELLO_TIMEOUT
    RequestTime,    \* request_timeout and attach_timeout
    AnswerTime,     \* open_timeout, ready_timeout, response_timeout
    MaxInput, MaxOutput  \* bounds: what ssh and the SSH server send

Times == {HandshakeTime, HelloTime, RequestTime, AnswerTime}
ASSUME TimesAssumption == Times \subseteq Nat \ {0}
ASSUME BoundsAssumption == MaxInput \in Nat /\ MaxOutput \in Nat

Clients == {"connect", "agent"}
Handlers == {"relay_c", "relay_a"}
Ends == Clients \cup Handlers
Peer == [connect |-> "relay_c", relay_c |-> "connect",
         agent |-> "relay_a", relay_a |-> "agent"]

\* Labels of an end that waits for a message, named for the message; and of
\* one whose setup is over.
Receiving == {"m1", "m2", "m3", "Hello", "HelloOk", "Request", "Response",
              "Attach", "Accepted", "Ready"}
Settled == {"bridge", "handed", "ended"}
Unborn == {"start", "listening"}
Labels == Receiving \cup Settled \cup Unborn \cup {"dialing", "opening", "local"}

Messages == Receiving \cup
    {"ListRequest", "OpenRequest", "DeviceList", "Failed", "data", "eof"}

MaxTime == HandshakeTime + HelloTime + RequestTime + AnswerTime
Off == -1

VARIABLES
    at,      \* where each end is
    timer,   \* what is left of the deadline it waits under, or Off
    wire,    \* the messages on their way to each end
    asks,    \* what connect wants: "list" (list_devices) or "open" (run)
    pending, \* the pending entry is in the Device's map
    told,    \* the Open frame is on its way to the agent
    answer,  \* the reply channel: "empty", "stream" or "error"
    done,    \* the directions an end's bridge has brought to their end
    input,   \* how much ssh has sent
    sent, received, \* how much the SSH server sent, and ssh got
    exit,    \* how connect's bridge ended: "none", "ok" or "error"
    broken,  \* for the properties: a bridge failed
    age      \* for the properties: ticks since a handler accepted its
             \* connection, while its setup lasts

shared == <<asks, pending, told, answer>>
bridgeVars == <<done, input, sent, received, exit, broken>>
vars == <<at, timer, wire, shared, bridgeVars, age>>

Init ==
    /\ at = [e \in Ends |-> IF e \in Clients THEN "start" ELSE "listening"]
    /\ timer = [e \in Ends |-> Off]
    /\ wire = [e \in Ends |-> <<>>]
    /\ asks \in {"list", "open"}
    /\ pending = FALSE
    /\ told = FALSE
    /\ answer = "empty"
    /\ done = [e \in {"connect", "relay_c", "agent"} |-> {}]
    /\ input = 0 /\ sent = 0 /\ received = 0
    /\ exit = "none"
    /\ broken = FALSE
    /\ age = [e \in Handlers |-> 0]

-----------------------------------------------------------------------------
(* Steps of an end.                                                        *)

Wait(e, label, time) ==
    /\ at' = [at EXCEPT ![e] = label]
    /\ timer' = [timer EXCEPT ![e] = time]

Say(e, messages) == wire' = [wire EXCEPT ![Peer[e]] = @ \o messages]

\* e takes a message off the wire and answers it.
Hear(e, message, messages) ==
    /\ wire[e] # <<>> /\ Head(wire[e]) = message
    /\ wire' = [wire EXCEPT ![e] = Tail(@), ![Peer[e]] = @ \o messages]

\* Ends drop their sockets.
Drop(es) ==
    /\ at' = [e \in Ends |-> IF e \in es THEN "ended" ELSE at[e]]
    /\ timer' = [e \in Ends |-> IF e \in es THEN Off ELSE timer[e]]

\* What a handler of a session stream says in the reply channel; nobody hears
\* it once the other handler has left the wait.
Reply(outcome) ==
    answer' = IF at["relay_c"] = "opening" THEN outcome ELSE answer

-----------------------------------------------------------------------------
(* The handshake, on both connections (client_connect, server_handshake).  *)

\* TcpStream::connect, under its deadline.
Dial(e) ==
    /\ e \in Clients
    /\ \/ e = "connect" /\ at[e] = "start" /\ told' = told
       \/ e = "agent" /\ at[e] = "start" /\ told /\ told' = FALSE
    /\ Wait(e, "dialing", HandshakeTime)
    /\ UNCHANGED <<wire, asks, pending, answer, bridgeVars, age>>

\* The connection is in the relay's backlog; message 1 is written into it.
Connected(e) ==
    /\ at[e] = "dialing"
    /\ Say(e, <<"m1">>)
    /\ Wait(e, "m2", HandshakeTime)
    /\ UNCHANGED <<shared, bridgeVars, age>>

\* The relay accepts, and drops the connection when it has no permit left.
Accept(e) ==
    /\ at[e] = "listening" /\ at[Peer[e]] \notin {"start", "dialing"}
    /\ \/ Wait(e, "m1", HandshakeTime)
       \/ Drop({e})
    /\ UNCHANGED <<wire, shared, bridgeVars, age>>

\* Faulty: each message has a deadline of its own.
HearMessage1Anew(e) ==
    /\ at[e] = "m1"
    /\ Hear(e, "m1", <<"m2">>)
    /\ Wait(e, "m3", HandshakeTime)
    /\ UNCHANGED <<shared, bridgeVars, age>>

HearMessage1(e) ==
    /\ at[e] = "m1"
    /\ Hear(e, "m1", <<"m2">>)
    /\ Wait(e, "m3", timer[e])
    /\ UNCHANGED <<shared, bridgeVars, age>>

\* The relay's key is the pinned one, or the client breaks off.  Message 3
\* and Hello are written at once.
HearMessage2(e) ==
    /\ at[e] = "m2"
    /\ \/ /\ Hear(e, "m2", <<"m3", "Hello">>)
          /\ Wait(e, "HelloOk", HelloTime)
       \/ /\ Hear(e, "m2", <<>>)
          /\ Drop({e})
    /\ UNCHANGED <<shared, bridgeVars, age>>

\* Faulty: what is left of the handshake's time is added to the Hello's.
HearMessage3Adding(e) ==
    /\ at[e] = "m3"
    /\ Hear(e, "m3", <<>>)
    /\ Wait(e, "Hello", timer[e] + HelloTime)
    /\ UNCHANGED <<shared, bridgeVars, age>>

\* Faulty: an accepted connection has no deadline for its Hello.
HearMessage3Untimed(e) ==
    /\ at[e] = "m3"
    /\ Hear(e, "m3", <<>>)
    /\ Wait(e, "Hello", Off)
    /\ UNCHANGED <<shared, bridgeVars, age>>

HearMessage3(e) ==
    /\ at[e] = "m3"
    /\ Hear(e, "m3", <<>>)
    /\ Wait(e, "Hello", HelloTime)
    /\ UNCHANGED <<shared, bridgeVars, age>>

-----------------------------------------------------------------------------
(* The dialogues.                                                          *)

\* handle_connection: the token is accepted, or the connection ends.
HearHello(e) ==
    /\ at[e] = "Hello"
    /\ \/ /\ Hear(e, "Hello", <<"HelloOk">>)
          /\ Wait(e, IF e = "relay_c" THEN "Request" ELSE "Attach", RequestTime)
       \/ /\ Hear(e, "Hello", <<>>)
          /\ Drop({e})
    /\ UNCHANGED <<shared, bridgeVars, age>>

\* run and list_devices of connect.rs: the request is written at once.
ConnectHelloOk ==
    /\ at["connect"] = "HelloOk"
    /\ Hear("connect", "HelloOk", <<IF asks = "list" THEN "ListRequest" ELSE "OpenRequest">>)
    /\ Wait("connect", "Response", AnswerTime)
    /\ UNCHANGED <<shared, bridgeVars, age>>

\* run_session: and SessionAttach.
AgentHelloOk ==
    /\ at["agent"] = "HelloOk"
    /\ Hear("agent", "HelloOk", <<"Attach">>)
    /\ Wait("agent", "Accepted", AnswerTime)
    /\ UNCHANGED <<shared, bridgeVars, age>>

\* handle_controller: a list is answered at once; so is an Open for a device
\* that is offline or has too many waiting.
HearRequest ==
    /\ at["relay_c"] = "Request"
    /\ \/ /\ Hear("relay_c", "ListRequest", <<"DeviceList">>)
          /\ Drop({"relay_c"})
          /\ UNCHANGED <<pending, told>>
       \/ /\ Hear("relay_c", "OpenRequest", <<"Failed">>)
          /\ Drop({"relay_c"})
          /\ UNCHANGED <<pending, told>>
       \/ /\ Hear("relay_c", "OpenRequest", <<>>)
          /\ Wait("relay_c", "opening", AnswerTime)
          /\ pending' = TRUE /\ told' = TRUE
    /\ UNCHANGED <<asks, answer, bridgeVars, age>>

\* A controller that has left is found out when Ready is written to it, or
\* by the bridge.
HandlerGrants ==
    /\ at["relay_c"] = "opening" /\ answer = "stream"
    /\ \/ /\ Say("relay_c", <<"Ready">>)
          /\ Wait("relay_c", "bridge", Off)
       \/ /\ at["connect"] = "ended"
          /\ Drop({"relay_c", "relay_a"})
          /\ UNCHANGED wire
    /\ UNCHANGED <<shared, bridgeVars, age>>

HandlerRefuses ==
    /\ at["relay_c"] = "opening" /\ answer = "error"
    /\ Say("relay_c", <<"Failed">>)
    /\ Drop({"relay_c"})
    /\ UNCHANGED <<shared, bridgeVars, age>>

\* open_timeout: the entry is withdrawn.  An answer that is there is taken
\* first.
OpenExpires ==
    /\ at["relay_c"] = "opening" /\ timer["relay_c"] = 0 /\ answer = "empty"
    /\ pending' = FALSE
    /\ Say("relay_c", <<"Failed">>)
    /\ Drop({"relay_c"})
    /\ UNCHANGED <<asks, told, answer, bridgeVars, age>>

\* connect has its answer.
HearResponse ==
    /\ at["connect"] = "Response"
    /\ \/ /\ Hear("connect", "Ready", <<>>)
          /\ Wait("connect", "bridge", Off)
       \/ /\ Hear("connect", "Failed", <<>>) \/ Hear("connect", "DeviceList", <<>>)
          /\ Drop({"connect"})
    /\ UNCHANGED <<shared, bridgeVars, age>>

\* Faulty: the stream goes to the controller with Accepted, not with Ready.
HearAttachGranting ==
    /\ at["relay_a"] = "Attach"
    /\ pending /\ pending' = FALSE
    /\ Hear("relay_a", "Attach", <<"Accepted">>)
    /\ Wait("relay_a", "handed", Off)
    /\ Reply("stream")
    /\ UNCHANGED <<asks, told, bridgeVars, age>>

\* handle_agent_session: the pending entry is taken, by nobody else.
HearAttach ==
    /\ at["relay_a"] = "Attach"
    /\ \/ /\ pending /\ pending' = FALSE
          /\ Hear("relay_a", "Attach", <<"Accepted">>)
          /\ Wait("relay_a", "Ready", AnswerTime)
       \/ /\ ~pending /\ UNCHANGED pending
          /\ Hear("relay_a", "Attach", <<"Failed">>)
          /\ Drop({"relay_a"})
    /\ UNCHANGED <<asks, told, answer, bridgeVars, age>>

HearAccepted ==
    /\ at["agent"] = "Accepted"
    /\ \/ /\ Hear("agent", "Accepted", <<>>)
          /\ Wait("agent", "local", Off)
       \/ /\ Hear("agent", "Failed", <<>>)
          /\ Drop({"agent"})
    /\ UNCHANGED <<shared, bridgeVars, age>>

\* The SSH server on the loopback accepts or not; this wait has no deadline.
LocalConnect ==
    /\ at["agent"] = "local"
    /\ \/ /\ Say("agent", <<"Ready">>)
          /\ Wait("agent", "bridge", Off)
       \/ /\ Say("agent", <<"Failed">>)
          /\ Drop({"agent"})
    /\ UNCHANGED <<shared, bridgeVars, age>>

\* Faulty: the stream is kept though nobody takes it.
HearReadyKeeping ==
    /\ at["relay_a"] = "Ready"
    /\ Hear("relay_a", "Ready", <<>>)
    /\ Wait("relay_a", "handed", Off)
    /\ Reply("stream")
    /\ UNCHANGED <<asks, pending, told, bridgeVars, age>>

\* The stream goes into the reply channel, or is dropped with it.
HearReady ==
    /\ at["relay_a"] = "Ready"
    /\ \/ /\ Hear("relay_a", "Ready", <<>>)
          /\ IF at["relay_c"] = "opening" THEN Wait("relay_a", "handed", Off)
                                          ELSE Drop({"relay_a"})
          /\ Reply("stream")
       \/ /\ Hear("relay_a", "Failed", <<>>)
          /\ Drop({"relay_a"})
          /\ Reply("error")
    /\ UNCHANGED <<asks, pending, told, bridgeVars, age>>

-----------------------------------------------------------------------------
(* The bridges.  Data and ends travel in order on each connection.         *)

Bridging(e) == at[e] = "bridge"
End(e, direction) == done' = [done EXCEPT ![e] = @ \cup {direction}]

\* stdin_stdout, upload: stdin has something, or ends and the write half is
\* shut down.
Upload ==
    /\ Bridging("connect") /\ "up" \notin done["connect"]
    /\ \/ /\ input < MaxInput
          /\ input' = input + 1
          /\ Say("connect", <<"data">>)
          /\ UNCHANGED done
       \/ /\ Say("connect", <<"eof">>)
          /\ End("connect", "up")
          /\ UNCHANGED input
    /\ UNCHANGED <<at, timer, shared, sent, received, exit, broken, age>>

\* Faulty: the program ends with its upload.
DownloadUntilUpload ==
    /\ Bridging("connect")
    /\ \/ /\ Hear("connect", "data", <<>>)
          /\ received' = received + 1
          /\ UNCHANGED <<at, timer, exit>>
       \/ /\ "up" \in done["connect"]
          /\ Drop({"connect"})
          /\ exit' = "ok"
          /\ UNCHANGED <<wire, received>>
    /\ UNCHANGED <<shared, done, input, sent, broken, age>>

\* stdin_stdout, download: its end is the end of the program, whether stdin
\* has ended or not.
Download ==
    /\ Bridging("connect")
    /\ \/ /\ Hear("connect", "data", <<>>)
          /\ received' = received + 1
          /\ UNCHANGED <<at, timer, exit>>
       \/ /\ \/ Hear("connect", "eof", <<>>)
             \/ wire["connect"] = <<>> /\ at["relay_c"] = "ended" /\ UNCHANGED wire
          /\ Drop({"connect"})
          /\ exit' = "ok"
          /\ UNCHANGED received
    /\ UNCHANGED <<shared, done, input, sent, broken, age>>

\* bidirectional in the relay: what one stream has goes to the other; a peer
\* that has gone may look like an end.
Pipe(direction, from, to) ==
    /\ Bridging("relay_c") /\ direction \notin done["relay_c"]
    /\ \/ /\ wire[from] # <<>>
          /\ wire' = [wire EXCEPT ![from] = Tail(@), ![to] = Append(@, Head(wire[from]))]
          /\ IF Head(wire[from]) = "eof" THEN End("relay_c", direction)
                                         ELSE UNCHANGED done
       \/ /\ wire[from] = <<>> /\ at[Peer[from]] = "ended"
          /\ wire' = [wire EXCEPT ![to] = Append(@, "eof")]
          /\ End("relay_c", direction)
    /\ UNCHANGED <<at, timer, shared, input, sent, received, exit, broken, age>>

\* bidirectional in the agent, and the SSH server: it takes input and its end,
\* sends output and ends it.
Serve ==
    /\ Bridging("agent")
    /\ \/ /\ Hear("agent", "data", <<>>)
          /\ UNCHANGED <<done, sent>>
       \/ /\ \/ Hear("agent", "eof", <<>>)
             \/ wire["agent"] = <<>> /\ at["relay_a"] = "ended" /\ UNCHANGED wire
          /\ "up" \notin done["agent"] /\ End("agent", "up")
          /\ UNCHANGED sent
       \/ /\ "down" \notin done["agent"] /\ sent < MaxOutput
          /\ Say("agent", <<"data">>)
          /\ sent' = sent + 1
          /\ UNCHANGED done
    /\ UNCHANGED <<at, timer, shared, input, received, exit, broken, age>>

\* The SSH server ends, when its input has, or before.
ServerEnds ==
    /\ Bridging("agent") /\ "down" \notin done["agent"]
    /\ Say("agent", <<"eof">>)
    /\ End("agent", "down")
    /\ UNCHANGED <<at, timer, shared, input, sent, received, exit, broken, age>>

\* copy_bidirectional returns when both directions have ended, and both
\* streams are dropped.
BridgeEnds(e) ==
    /\ e \in {"relay_c", "agent"} /\ Bridging(e)
    /\ done[e] = {"up", "down"}
    /\ Drop(IF e = "relay_c" THEN Handlers ELSE {e})
    /\ UNCHANGED <<wire, shared, bridgeVars, age>>

\* A bridge fails: a read or a write of either side does.  The other
\* direction is dropped as it stands, and what was on its way to this end.
BridgeFails(e) ==
    /\ e \in {"connect", "relay_c", "agent"} /\ Bridging(e)
    /\ Drop(IF e = "relay_c" THEN Handlers ELSE {e})
    /\ exit' = IF e = "connect" THEN "error" ELSE exit
    /\ broken' = TRUE
    /\ UNCHANGED <<wire, shared, done, input, sent, received, age>>

-----------------------------------------------------------------------------
(* Failures and time.                                                      *)

\* What an end that gives up leaves behind.
Fail(e) ==
    /\ Drop({e})
    /\ IF e = "relay_a" /\ at[e] = "Ready" THEN Reply("error") ELSE UNCHANGED answer
    /\ UNCHANGED <<wire, asks, pending, told, bridgeVars, age>>

\* A deadline passes.
Timeout(e) ==
    /\ at[e] \in Receiving \cup {"dialing"} /\ timer[e] = 0
    /\ Fail(e)

\* The connection breaks under an end that reads or dials.
Break(e) ==
    /\ at[e] \in Receiving \cup {"dialing"}
    /\ Fail(e)

\* An end that reads finds that its peer has closed.  relay_c does not read
\* while it waits for the agent.
SeeEnd(e) ==
    /\ at[e] \in Receiving
    /\ wire[e] = <<>> /\ at[Peer[e]] = "ended"
    /\ Fail(e)

\* Time passes when no deadline is due.
Tick ==
    /\ \E e \in Ends : timer[e] # Off
    /\ \A e \in Ends : timer[e] # 0
    /\ timer' = [e \in Ends |-> IF timer[e] = Off THEN Off ELSE timer[e] - 1]
    /\ age' = [e \in Handlers |->
                 IF at[e] \in Settled \cup Unborn THEN age[e] ELSE age[e] + 1]
    /\ UNCHANGED <<at, wire, shared, bridgeVars>>

Bridges ==
    \/ Upload \/ Download
    \/ Pipe("up", "relay_c", "agent") \/ Pipe("down", "relay_a", "connect")
    \/ Serve \/ ServerEnds
    \/ \E e \in Ends : BridgeEnds(e) \/ BridgeFails(e)

Next ==
    \/ \E e \in Clients : Dial(e) \/ Connected(e) \/ HearMessage2(e)
    \/ ConnectHelloOk \/ AgentHelloOk
    \/ \E e \in Handlers :
          Accept(e) \/ HearMessage1(e) \/ HearMessage3(e) \/ HearHello(e)
    \/ HearRequest \/ HandlerGrants \/ HandlerRefuses \/ OpenExpires
    \/ HearResponse
    \/ HearAttach \/ HearReady
    \/ HearAccepted \/ LocalConnect
    \/ \E e \in Ends : Timeout(e) \/ Break(e) \/ SeeEnd(e)
    \/ Bridges
    \/ Tick

\* The clock runs and what is due is done; the handler that has its answer
\* gives it; the loopback answers.  Nothing is assumed of messages, ssh, or
\* the SSH server before its input has ended; bridges move what they have, and
\* a closed connection is noticed.
Spec ==
    /\ Init /\ [][Next]_vars
    /\ WF_vars(Tick)
    /\ WF_vars(OpenExpires \/ HandlerGrants \/ HandlerRefuses)
    /\ WF_vars(LocalConnect)
    /\ \A e \in Ends : WF_vars(Timeout(e) \/ SeeEnd(e))
    /\ WF_vars(Pipe("up", "relay_c", "agent") \/ BridgeEnds("relay_c"))
    /\ WF_vars(\/ Serve
               \/ "up" \in done["agent"] /\ ServerEnds
               \/ BridgeEnds("agent"))

-----------------------------------------------------------------------------
(* Properties.                                                             *)

TypeOK ==
    /\ at \in [Ends -> Labels]
    /\ \A e \in Ends : timer[e] = Off \/ \E t \in Times : timer[e] \in 0..t
    /\ wire \in [Ends -> Seq(Messages)]
    /\ asks \in {"list", "open"}
    /\ pending \in BOOLEAN /\ told \in BOOLEAN
    /\ answer \in {"empty", "stream", "error"}
    /\ done \in [{"connect", "relay_c", "agent"} -> SUBSET {"up", "down"}]
    /\ input \in 0..MaxInput /\ {sent, received} \subseteq 0..MaxOutput
    /\ exit \in {"none", "ok", "error"} /\ broken \in BOOLEAN
    /\ age \in [Handlers -> Nat]

\* Slow drips do not extend a deadline: a connection that does not
\* authenticate gives its slot back in the time of the handshake and the Hello
\* together, and one that does is in use or gone when a request and an answer
\* have had theirs (handle_connection 263-269; attach_timeout, ready_timeout,
\* request_timeout, open_timeout).
SlotsAreBrief ==
    \A e \in Handlers :
        /\ at[e] \in {"m1", "m3"} => age[e] <= HandshakeTime
        /\ at[e] = "Hello" => age[e] <= HandshakeTime + HelloTime
        /\ at[e] \notin Settled => age[e] <= MaxTime

\* connect is told Ready only when the agent has reached its SSH server and
\* the relay holds both streams: what it then reads comes from there
\* (run_session 354-378, handle_agent_session 644-648).
ReadyMeansReached ==
    (at["connect"] = "bridge" \/ "Ready" \in Range(wire["connect"])) =>
        /\ at["agent"] \in {"bridge", "ended"}
        /\ at["relay_a"] = "handed" <=> at["relay_c"] = "bridge"

\* Unless a bridge failed, connect ends well only with all the output of the
\* SSH server: neither the end of stdin nor a half-closed connection on the
\* way cuts it short (bridge.rs 29-51).
CleanExitIsComplete ==
    exit = "ok" /\ ~broken => received = sent /\ "down" \in done["agent"]

-----------------------------------------------------------------------------
(* Liveness.                                                               *)

\* Every setup ends, whatever the peer does or does not do; the agent's is
\* bounded by the loopback.
SetupsEnd == \A e \in Ends : at[e] \notin Unborn ~> at[e] \in Settled

\* An agent whose SSH connection is up and whose controller has gone, perhaps
\* while Ready was on its way, does not keep it: the deadlines of the three
\* programs may pass in any order (connect.rs 141, server.rs 732).
HalfSessionsEnd ==
    at["agent"] = "bridge" /\ at["connect"] = "ended" ~> at["agent"] = "ended"

=============================================================================
