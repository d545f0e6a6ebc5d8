------------------------------ MODULE Session ------------------------------
(***************************************************************************)
(* How a client and the server come to share a session and how they part.  *)
(*                                                                         *)
(* The server's network thread accepts a control connection, asks the      *)
(* compositor thread for the client's display mode, probes the link, sends *)
(* its configuration, and then binds the input and selection channels      *)
(* (required) and the video and audio channels (optional, also late).  It  *)
(* serves one session at a time; everything else waits in, or is refused   *)
(* from, the listen backlog.  A client is one run of the viewer: it        *)
(* connects, answers the probes, opens its channels, starts its reader and *)
(* decode threads, and on any failure takes everything down again.         *)
(*                                                                         *)
(* Actors: the server's compositor (main) thread and network thread; for   *)
(* every attempt to connect, the client's main thread, its network reader  *)
(* and its media workers.  TCP connections are pairs of message queues.    *)
(***************************************************************************)
EXTENDS Integers, Sequences, FiniteSets

CONSTANTS
    SessionScenarios, \* budgets: [attempts, media, quits, resizes, stops, probes, faults]
    SessionIdMax,     \* UINT8_MAX, the last session id before it wraps
    PingCount         \* WD_NET_LINK_PROBE_COUNT

VARIABLES
    left,     \* the scenario's budgets not used yet
    main,     \* server: where the compositor thread is
    net,      \* server: the network thread and struct wd_net_state
    req,      \* server: the display mode request both threads share
    backlog,  \* connections the listening socket has not handed out yet
    conn,     \* attempt, kind -> the TCP connection
    cl        \* attempt -> the client run

svars == <<left, main, net, req, backlog, conn, cl>>

Media == {"video", "audio"}
Required == {"input", "selection"}
Aux == Required \cup Media
Kinds == {"control"} \cup Aux
Attempts == DOMAIN cl

NoIdentity == [sid |-> 0, token |-> 0]
Msg(t, n, id) == [t |-> t, n |-> n, id |-> id, media |-> {}]
Unbound == [k \in Aux |-> 0]
Closed == [up |-> <<>>, down |-> <<>>, c |-> "none", s |-> "none", cut |-> FALSE]

SessionInit ==
    /\ left \in SessionScenarios
    /\ main = "wait"
    /\ net = [pc |-> "open", run |-> TRUE, startup |-> "pending", listening |-> FALSE, cut |-> FALSE,
              ctl |-> 0, bound |-> Unbound, cand |-> <<0, "control">>, from |-> "aux",
              id |-> NoIdentity, tokens |-> 0, late |-> FALSE, media |-> {}, probe |-> 0, samples |-> 0,
              connected |-> FALSE, fd |-> 0, after |-> "none", asleep |-> FALSE, mode |-> "idle",
              back |-> "idle", refused |-> FALSE]
    /\ req = [serial |-> 0, done |-> 0, pending |-> FALSE, mode |-> "idle", ok |-> FALSE, failed |-> FALSE]
    /\ backlog = <<>>
    /\ cl = [a \in 1..left.attempts |->
               [pc |-> "idle", offer |-> left.media, id |-> NoIdentity, media |-> {}, running |-> FALSE,
                reader |-> "none", workers |-> {}, asleep |-> {}, decode |-> FALSE]]
    /\ conn = [a \in 1..left.attempts |-> [k \in Kinds |-> Closed]]

Fault == left.faults > 0 /\ left' = [left EXCEPT !.faults = @ - 1]
ProbeFault == left.probes > 0 /\ left' = [left EXCEPT !.probes = @ - 1]
Calm == UNCHANGED left

-----------------------------------------------------------------------------
(* Connections.  What was sent before a close is still read.               *)

Up(a, k, m) == [conn EXCEPT ![a][k].up = Append(@, m)]
Down(a, k, m) == [conn EXCEPT ![a][k].down = Append(@, m)]
ClientSees(a, k) == conn[a][k].down = <<>> /\ (conn[a][k].s = "closed" \/ conn[a][k].cut)
ServerSees(a, k) == conn[a][k].up = <<>> /\ (conn[a][k].c = "closed" \/ conn[a][k].cut)
Deaf(a, k) == conn[a][k].c = "closed" \/ conn[a][k].cut

\* close() of the server's end of a set of connections.
ServerCloses(S) == [a \in DOMAIN conn |-> [k \in Kinds |->
    IF <<a, k>> \in S THEN [conn[a][k] EXCEPT !.s = "closed"] ELSE conn[a][k]]]
BoundConns(n) == {<<n.bound[k], k>> : k \in {j \in Aux : n.bound[j] # 0}}
SessionConns(n) == BoundConns(n) \cup {<<n.ctl, "control">>}

-----------------------------------------------------------------------------
(* The display mode request: the network thread sleeps on a condition      *)
(* variable until the compositor thread has applied the mode.              *)

\* wd_server_request_display_mode up to the wait, continuing at after.
Ask(n, mode, after) ==
    /\ req' = [req EXCEPT !.serial = @ + 1, !.pending = TRUE, !.mode = mode]
    /\ net' = [n EXCEPT !.pc = "ask", !.after = after, !.asleep = n.run]

\* wd_server_rollback_failed_negotiation: forget what was negotiated and, while running,
\* ask for the mode there was before.
Rollback(n) ==
    LET cleared == [n EXCEPT !.media = {}, !.probe = 0, !.samples = 0]
    IN  IF n.run THEN Ask(cleared, n.back, "rollback")
        ELSE net' = [cleared EXCEPT !.pc = "drop"] /\ UNCHANGED req

\* wd_net_run_state and the deadline of the stage.
Active(n) == n.run /\ ~n.late

\* wd_wait_server_negotiation_message: what the wait for a message on a connection ends with.
Outcome(a, k) ==
    IF ~net.run THEN "cancelled"
    ELSE IF net.late THEN "timeout"
    ELSE IF conn[a][k].up # <<>> THEN "message"
    ELSE IF ServerSees(a, k) THEN "closed" ELSE "wait"

Received(a, k) ==
    IF Outcome(a, k) = "message" THEN [conn EXCEPT ![a][k].up = Tail(@)] ELSE conn

\* wd_server_fill_config: the identity and the media of the session.
FillConfig(n) == [Msg("config", 0, n.id) EXCEPT !.media = n.media]

\* wd_protocol_message_allowed on the control channel once a session is established.
AllowedEstablished(t) == t \in {"resize", "stats"}

-----------------------------------------------------------------------------
(* The compositor thread.                                                  *)

\* wd_server_run: wait for the listener, then run the event loop; a failed listener ends it.
MainReady ==
    /\ main = "wait" /\ net.startup # "pending"
    /\ main' = IF net.startup = "ready" THEN "run" ELSE "join"
    /\ UNCHANGED <<left, net, req, backlog, conn, cl>>

\* server_process_pending_display_resize, from the frame timer.
MainAppliesMode ==
    /\ main = "run" /\ req.pending
    /\ \/ /\ Calm
          /\ net' = [net EXCEPT !.mode = req.mode, !.asleep = FALSE]
          /\ req' = [req EXCEPT !.pending = FALSE, !.done = req.serial, !.ok = TRUE]
       \/ /\ Fault
          /\ net' = [net EXCEPT !.asleep = FALSE]
          /\ req' = [req EXCEPT !.pending = FALSE, !.done = req.serial, !.ok = FALSE, !.failed = TRUE]
    /\ UNCHANGED <<main, backlog, conn, cl>>

\* Mutant of RequestStop: the session's control socket is not shut down.
RequestStopQuietly ==
    /\ net' = [net EXCEPT !.run = FALSE, !.asleep = FALSE, !.cut = net.listening]
    /\ UNCHANGED conn

\* server_request_network_stop: wake every wait of the network thread.
RequestStop ==
    /\ net' = [net EXCEPT !.run = FALSE, !.asleep = FALSE, !.cut = net.listening]
    /\ conn' = IF net.fd = 0 THEN conn ELSE [conn EXCEPT ![net.fd]["control"].cut = TRUE]

\* A signal, or a startup command that cannot be launched, ends the event loop.
MainStops ==
    /\ main = "run" /\ left.stops > 0
    /\ left' = [left EXCEPT !.stops = @ - 1]
    /\ RequestStop
    /\ main' = "join"
    /\ UNCHANGED <<req, backlog, cl>>

\* pthread_join(net_thread).
MainJoins ==
    /\ main = "join" /\ net.pc = "exited"
    /\ main' = "joined"
    /\ UNCHANGED <<left, net, req, backlog, conn, cl>>

MainStep == MainReady \/ MainAppliesMode \/ MainStops \/ MainJoins

-----------------------------------------------------------------------------
(* The network thread: startup and the control handshake.                  *)

\* wd_net_listener_open and wd_net_publish_startup_result.
OpenListener ==
    /\ net.pc = "open"
    /\ \/ Calm /\ net' = [net EXCEPT !.pc = "loop", !.startup = "ready", !.listening = TRUE]
       \/ Fault /\ net' = [net EXCEPT !.pc = "exited", !.startup = "failed", !.run = FALSE, !.asleep = FALSE]
    /\ UNCHANGED <<main, req, backlog, conn, cl>>

\* The head of the accept loop: every descriptor is closed when it ends.
AcceptLoop ==
    /\ net.pc = "loop"
    /\ IF net.run
       THEN net' = [net EXCEPT !.pc = "accept"] /\ UNCHANGED <<backlog, conn>>
       ELSE /\ net' = [net EXCEPT !.pc = "exited", !.listening = FALSE]
            /\ conn' = ServerCloses({backlog[i] : i \in DOMAIN backlog})
            /\ backlog' = <<>>
    /\ UNCHANGED <<left, main, req, cl>>

\* accept4 of a control connection; it fails once the listening socket is shut down.
Accept ==
    /\ net.pc = "accept"
    /\ \/ /\ net.cut
          /\ net' = [net EXCEPT !.pc = "loop"] /\ UNCHANGED backlog
       \/ /\ ~net.cut /\ backlog # <<>>
          /\ net' = [net EXCEPT !.pc = "hello", !.cand = Head(backlog), !.late = FALSE]
          /\ backlog' = Tail(backlog)
    /\ UNCHANGED <<left, main, req, conn, cl>>

\* wd_receive_client_hello, then the mode the client asked for.
ReceiveHello ==
    /\ net.pc = "hello"
    /\ LET a == net.cand[1]
           k == net.cand[2]
           o == Outcome(a, k)
       IN  /\ o # "wait"
           /\ IF o = "message" /\ Head(conn[a][k].up).t = "hello"
              THEN /\ Ask([net EXCEPT !.ctl = a, !.back = net.mode], "session", "hello")
                   /\ conn' = Received(a, k)
              ELSE /\ net' = [net EXCEPT !.pc = "loop"]
                   /\ conn' = ServerCloses({<<a, k>>})
                   /\ UNCHANGED req
    /\ UNCHANGED <<left, main, backlog, cl>>

\* wd_connection_next_session_id: 0 is never used, and the id wraps.
NextSessionId(sid) == IF sid = 0 \/ sid = SessionIdMax THEN 1 ELSE sid + 1

\* wd_connection_identity_generate and the new session's identity; tokens do not repeat.
NewIdentity(n) ==
    [n EXCEPT !.pc = "mtu", !.late = FALSE, !.probe = 0, !.samples = 0,
              !.id = [sid |-> NextSessionId(n.id.sid), token |-> n.tokens + 1], !.tokens = @ + 1]

\* close() of the whole session, and back to the accept loop.
CloseSession(n) ==
    /\ net' = [n EXCEPT !.pc = "loop", !.ctl = 0, !.bound = Unbound]
    /\ conn' = ServerCloses(SessionConns(n))

\* The rest of wd_server_request_display_mode, and what each caller does with its result.
ModeAnswered ==
    /\ net.pc = "ask" /\ ~net.asleep
    /\ LET waits == net.run /\ req.done < req.serial
           ok    == net.run /\ req.ok
       IN  IF waits THEN net' = [net EXCEPT !.asleep = TRUE] /\ UNCHANGED <<left, conn, req>>
           ELSE CASE net.after = "hello" /\ ok ->
                       \/ Calm /\ net' = NewIdentity(net) /\ UNCHANGED <<conn, req>>
                       \/ Fault /\ Rollback(net) /\ UNCHANGED conn
                  [] net.after = "resize" ->
                       /\ net' = [net EXCEPT !.pc = "serve"]
                       /\ conn' = IF ok /\ ~Deaf(net.ctl, "control")
                                  THEN Down(net.ctl, "control", FillConfig(net)) ELSE conn
                       /\ UNCHANGED <<left, req>>
                  [] OTHER -> CloseSession(net) /\ UNCHANGED <<left, req>>
    /\ UNCHANGED <<main, backlog, cl>>

\* pthread_cond_wait may return although nobody signalled.
SpuriousWake ==
    /\ net.pc = "ask" /\ net.asleep /\ Fault
    /\ net' = [net EXCEPT !.asleep = FALSE]
    /\ UNCHANGED <<main, req, backlog, conn, cl>>

\* A negotiation given up while the server stops needs no mode.
DropSession ==
    /\ net.pc = "drop"
    /\ CloseSession(net)
    /\ UNCHANGED <<left, main, req, backlog, cl>>

-----------------------------------------------------------------------------
(* The network thread: probes and configuration.                           *)

\* A send to a client that is gone may fail, or be lost.
SendFails == Deaf(net.ctl, "control")
Control(m) == Down(net.ctl, "control", m)

\* One probe: send its start, then either wait for the client's answer or, when the probe
\* cannot be run (no DF socket, no packet memory), go on with the default.
ProbeStart(start, answer, next) ==
    \/ /\ Calm
       /\ conn' = Control(Msg(start, 0, net.id))
       /\ net' = [net EXCEPT !.pc = answer]
    \/ /\ SendFails /\ Calm
       /\ net' = [net EXCEPT !.pc = next] /\ UNCHANGED conn
    \/ /\ ProbeFault
       /\ conn' = Control(Msg(start, 0, net.id))
       /\ net' = [net EXCEPT !.pc = next]

\* One message is read, whichever it is; a wrong or missing one leaves the default.
ProbeAnswer(answer, next) ==
    /\ net.pc = answer
    /\ Outcome(net.ctl, "control") # "wait"
    /\ conn' = Received(net.ctl, "control")
    /\ net' = [net EXCEPT !.pc = next]
    /\ UNCHANGED <<left, main, req, backlog, cl>>

\* run_udp_mtu_probe.
RunMtuProbe ==
    /\ net.pc = "mtu"
    /\ ProbeStart("mtu", "mtuAnswer", "throughput")
    /\ UNCHANGED <<main, req, backlog, cl>>
MtuAnswer == ProbeAnswer("mtuAnswer", "throughput")

\* run_udp_throughput_probe, unless the negotiation is over.
RunThroughputProbe ==
    /\ net.pc = "throughput"
    /\ IF Active(net) THEN ProbeStart("throughput", "throughputAnswer", "terms") /\ UNCHANGED req
       ELSE Rollback(net) /\ UNCHANGED <<left, conn>>
    /\ UNCHANGED <<main, backlog, cl>>
ThroughputAnswer == ProbeAnswer("throughputAnswer", "terms")

\* What the session negotiates: the media both sides offer (the audio only if the link carries it).
InstallTerms ==
    /\ net.pc = "terms"
    /\ IF Active(net)
       THEN /\ UNCHANGED req
            /\ \E media \in {cl[net.ctl].offer, cl[net.ctl].offer \ {"audio"}} :
                 net' = [net EXCEPT !.pc = "ping", !.media = media]
       ELSE Rollback(net)
    /\ UNCHANGED <<left, main, backlog, conn, cl>>

\* run_tcp_link_probe, one ping.
LinkPing ==
    /\ net.pc = "ping"
    /\ \/ /\ net.probe < PingCount /\ Active(net)
          /\ conn' = Control(Msg("ping", net.probe + 1, net.id))
          /\ net' = [net EXCEPT !.pc = "pong"]
       \/ /\ net.probe = PingCount \/ ~Active(net) \/ SendFails
          /\ net' = [net EXCEPT !.pc = "config"] /\ UNCHANGED conn
    /\ UNCHANGED <<left, main, req, backlog, cl>>

\* A link that yields no sample is given up after two pings.
GiveUpPings(samples, probe) == samples = 0 /\ probe >= 1

\* run_tcp_link_probe, one answer: only the pong of this ping is a sample.
LinkPong ==
    /\ net.pc = "pong"
    /\ Outcome(net.ctl, "control") # "wait"
    /\ conn' = Received(net.ctl, "control")
    /\ IF Outcome(net.ctl, "control") = "message"
       THEN LET m == Head(conn[net.ctl]["control"].up)
                n == net.samples + (IF m.t = "pong" /\ m.n = net.probe + 1 THEN 1 ELSE 0)
            IN  net' = [net EXCEPT !.samples = n, !.probe = @ + 1,
                                   !.pc = IF GiveUpPings(n, net.probe) THEN "config" ELSE "ping"]
       ELSE net' = [net EXCEPT !.pc = "config"]
    /\ UNCHANGED <<left, main, req, backlog, cl>>

\* The configuration is sent; the aux channels have their own deadline.
SendConfig ==
    /\ net.pc = "config"
    /\ \/ /\ Active(net)
          /\ conn' = Control(FillConfig(net))
          /\ net' = [net EXCEPT !.pc = "aux", !.late = FALSE]
          /\ UNCHANGED req
       \/ /\ ~Active(net) \/ SendFails
          /\ Rollback(net) /\ UNCHANGED conn
    /\ UNCHANGED <<left, main, backlog, cl>>

-----------------------------------------------------------------------------
(* The network thread: binding the auxiliary channels.                     *)

\* Mutant of IdentityMatches: the session id alone names the session.
IdMatchesSession(id, n) == n.id.sid # 0 /\ id.sid = n.id.sid

\* wd_aux_identity_matches.
IdentityMatches(id, n) == n.id.sid # 0 /\ n.id.token # 0 /\ id = n.id

\* wd_aux_channel_validate_hello: the channel a hello binds, if it may.
Binds(m, n) ==
    /\ m.t \in Aux
    /\ n.bound[m.t] = 0
    /\ m.t \in Required \cup n.media
    /\ IdentityMatches(m.id, n)

\* wd_accept_aux_channel_fd, as far as the wait for the hello.
AcceptAux ==
    /\ \/ net.pc = "aux" /\ Active(net) /\ \E k \in Required : net.bound[k] = 0
       \/ net.pc = "poll" /\ \E k \in net.media : net.bound[k] = 0
    /\ ~net.cut /\ backlog # <<>>
    /\ net' = [net EXCEPT !.pc = "auxHello", !.cand = Head(backlog), !.from = net.pc,
                          !.late = IF net.pc = "poll" THEN FALSE ELSE @]
    /\ backlog' = Tail(backlog)
    /\ UNCHANGED <<left, main, req, conn, cl>>

\* The rest of it: the hello is validated and the connection bound or closed.  A late audio
\* channel starts the audio stream, which may fail.
AuxHello ==
    /\ net.pc = "auxHello"
    /\ LET a == net.cand[1]
           k == net.cand[2]
           o == Outcome(a, k)
           m == Head(conn[a][k].up)
           n == [net EXCEPT !.pc = IF net.from = "poll" THEN "serve" ELSE "aux"]
       IN  /\ o # "wait"
           /\ IF o = "message" /\ Binds(m, net)
              THEN \/ /\ Calm
                      /\ net' = [n EXCEPT !.bound[m.t] = a]
                      /\ conn' = [Received(a, k) EXCEPT ![a][k].s = "open"]
                   \/ /\ m.t = "audio" /\ net.from = "poll" /\ Fault
                      /\ net' = n /\ conn' = ServerCloses({<<a, k>>})
              ELSE Calm /\ net' = n /\ conn' = ServerCloses({<<a, k>>})
    /\ UNCHANGED <<main, req, backlog, cl>>

\* wd_accept_required_aux_channels: done, or given up with every channel closed.
AuxDone ==
    /\ net.pc = "aux"
    /\ IF \A k \in Required : net.bound[k] # 0
       THEN net' = [net EXCEPT !.pc = "install"] /\ UNCHANGED <<req, conn>>
       ELSE /\ net.late \/ net.cut
            /\ Rollback([net EXCEPT !.bound = Unbound])
            /\ conn' = ServerCloses(BoundConns(net))
    /\ UNCHANGED <<left, main, backlog, cl>>

\* The deadline of the stage the network thread waits in.  A live client answers in time
\* unless the environment is slow.
Deadline ==
    /\ net.pc \in {"hello", "mtuAnswer", "throughputAnswer", "pong", "aux", "auxHello"}
    /\ ~net.late
    /\ net' = [net EXCEPT !.late = TRUE]
    /\ \/ Fault
       \/ net.pc = "aux" /\ cl[net.ctl].pc \in {"leave", "join", "closed"} /\ backlog = <<>> /\ Calm
    /\ UNCHANGED <<main, req, backlog, conn, cl>>

-----------------------------------------------------------------------------
(* The network thread: the established session.                            *)

\* The session is published under net.lock.  The client opens its media channels after the
\* required ones, so none is bound yet and no audio stream is started here.
InstallSession ==
    /\ net.pc = "install"
    /\ net' = [net EXCEPT !.pc = "serve", !.connected = TRUE, !.fd = net.ctl]
    /\ UNCHANGED <<left, main, req, backlog, conn, cl>>

\* The head of the poll loop.
ServeLoop ==
    /\ net.pc = "serve"
    /\ net' = [net EXCEPT !.pc = IF net.run THEN "poll" ELSE "cleanup"]
    /\ UNCHANGED <<left, main, req, backlog, conn, cl>>

\* A closed input or selection channel ends the session.
RequiredClosed(k) ==
    /\ net.pc = "poll" /\ net.bound[k] # 0 /\ ServerSees(net.bound[k], k)
    /\ net' = [net EXCEPT !.pc = "cleanup", !.bound[k] = 0]
    /\ conn' = ServerCloses({<<net.bound[k], k>>})
    /\ UNCHANGED <<left, main, req, backlog, cl>>

\* A closed video or audio channel only ends that stream.
MediaClosed(k) ==
    /\ net.pc = "poll" /\ net.bound[k] # 0 /\ ServerSees(net.bound[k], k)
    /\ net' = [net EXCEPT !.pc = "serve", !.bound[k] = 0]
    /\ conn' = ServerCloses({<<net.bound[k], k>>})
    /\ UNCHANGED <<left, main, req, backlog, cl>>

\* The control channel: a message the phase does not allow ends the session, a resize asks
\* the compositor thread, other messages are for the stream.
ControlReady ==
    /\ net.pc = "poll"
    /\ \/ /\ conn[net.ctl]["control"].up # <<>>
          /\ conn' = [conn EXCEPT ![net.ctl]["control"].up = Tail(@)]
          /\ LET m == Head(conn[net.ctl]["control"].up)
             IN  IF ~AllowedEstablished(m.t)
                 THEN net' = [net EXCEPT !.pc = "cleanup", !.refused = TRUE] /\ UNCHANGED req
                 ELSE IF m.t = "resize" /\ m.id = net.id
                 THEN Ask(net, net.mode, "resize")
                 ELSE net' = [net EXCEPT !.pc = "serve"] /\ UNCHANGED req
       \/ /\ ServerSees(net.ctl, "control")
          /\ net' = [net EXCEPT !.pc = "cleanup"]
          /\ UNCHANGED <<conn, req>>
    /\ UNCHANGED <<left, main, backlog, cl>>

\* The end of a session, under net.lock.
Cleanup ==
    /\ net.pc = "cleanup"
    /\ net' = [net EXCEPT !.pc = "rotate", !.connected = FALSE, !.fd = 0, !.media = {}]
    /\ UNCHANGED <<left, main, req, backlog, conn, cl>>

\* wd_server_rotate_session_tcp_senders; without fresh senders the service stops.  Then the
\* idle refresh rate is asked for.
RotateSenders ==
    /\ net.pc = "rotate"
    /\ \/ Calm /\ Ask(net, "idle", "idle")
       \/ Fault /\ Ask([net EXCEPT !.run = FALSE], "idle", "idle")
    /\ UNCHANGED <<main, backlog, conn, cl>>

NetStep ==
    \/ OpenListener \/ AcceptLoop \/ Accept \/ ReceiveHello \/ ModeAnswered \/ SpuriousWake \/ DropSession
    \/ RunMtuProbe \/ MtuAnswer \/ RunThroughputProbe \/ ThroughputAnswer \/ InstallTerms
    \/ LinkPing \/ LinkPong \/ SendConfig \/ AcceptAux \/ AuxHello \/ AuxDone \/ Deadline
    \/ InstallSession \/ ServeLoop \/ ControlReady \/ Cleanup \/ RotateSenders
    \/ \E k \in Required : RequiredClosed(k)
    \/ \E k \in Media : MediaClosed(k)

-----------------------------------------------------------------------------
(* A client run.                                                           *)

Client(a, r) == cl' = [cl EXCEPT ![a] = r]
Leaving(a) == [cl[a] EXCEPT !.pc = "leave"]

\* connect_tcp_fd: the kernel completes the connection while somebody listens.
Listens == net.listening /\ ~net.cut
Dial(a, k, m) ==
    /\ conn' = [conn EXCEPT ![a][k] = [Closed EXCEPT !.c = "open", !.up = <<m>>]]
    /\ backlog' = Append(backlog, <<a, k>>)

\* client_connect as far as CLIENT_HELLO: the sockets, the decoder and the senders.
Connect(a) ==
    /\ cl[a].pc = "idle" /\ net.startup # "pending"
    /\ \/ /\ Listens /\ Calm
          /\ Dial(a, "control", Msg("hello", 0, NoIdentity))
          /\ Client(a, [cl[a] EXCEPT !.pc = "negotiate"])
       \/ /\ ~Listens /\ Calm
          /\ Client(a, Leaving(a)) /\ UNCHANGED <<conn, backlog>>
    /\ UNCHANGED <<main, net, req>>

\* handle_mtu_probe_start, handle_throughput_probe_start, handle_link_probe_ping: the client
\* answers every probe, also one of which it received nothing.
MtuResult(m) == Msg("mtuResult", 0, m.id)
ThroughputResult(m) == Msg("throughputResult", 0, m.id)
Pong(m) == Msg("pong", m.n, m.id)
AnswerTo(m) ==
    CASE m.t = "mtu" -> MtuResult(m)
      [] m.t = "throughput" -> ThroughputResult(m)
      [] m.t = "ping" -> Pong(m)

\* receive_server_config: answer probes until the configuration arrives.
Negotiate(a) ==
    /\ cl[a].pc = "negotiate"
    /\ LET c == conn[a]["control"]
       IN  \/ /\ c.down # <<>>
              /\ IF Head(c.down).t = "config"
                 THEN /\ conn' = [conn EXCEPT ![a]["control"].down = Tail(@)]
                      /\ Client(a, [cl[a] EXCEPT !.pc = "config", !.id = Head(c.down).id,
                                                 !.media = Head(c.down).media])
                 ELSE /\ conn' = [conn EXCEPT ![a]["control"].down = Tail(@),
                                              ![a]["control"].up = Append(@, AnswerTo(Head(c.down)))]
                      /\ UNCHANGED cl
           \/ /\ ClientSees(a, "control")
              /\ Client(a, Leaving(a)) /\ UNCHANGED conn
    /\ UNCHANGED <<left, main, net, req, backlog>>

\* The negotiation deadline of the client passes, or a probe's answer cannot be sent.
NegotiationFails(a) ==
    /\ cl[a].pc = "negotiate" /\ Fault
    /\ Client(a, Leaving(a))
    /\ UNCHANGED <<main, net, req, backlog, conn>>

\* The configuration is validated against the client's offer, the UDP socket connected.
CheckConfig(a) ==
    /\ cl[a].pc = "config"
    /\ \/ Calm /\ Client(a, [cl[a] EXCEPT !.pc = "input"])
       \/ Fault /\ Client(a, Leaving(a))
    /\ UNCHANGED <<main, net, req, backlog, conn>>

NextOpen(k) == CASE k = "input" -> "selection" [] k = "selection" -> "video"
                 [] k = "video" -> "audio" [] k = "audio" -> "start"

\* open_input_tcp_socket .. open_audio_tcp_socket: the required channels or nothing, the
\* others if they were negotiated and can be opened.
OpenChannel(a, k) ==
    /\ cl[a].pc = k
    /\ LET on == [cl[a] EXCEPT !.pc = NextOpen(k)]
       IN  IF k \in Required \cup cl[a].media
           THEN \/ /\ Listens /\ Calm
                   /\ Dial(a, k, Msg(k, 0, cl[a].id))
                   /\ Client(a, on)
                \/ /\ (~Listens /\ Calm) \/ Fault
                   /\ Client(a, IF k \in Required THEN Leaving(a) ELSE on)
                   /\ UNCHANGED <<conn, backlog>>
           ELSE Calm /\ Client(a, on) /\ UNCHANGED <<conn, backlog>>
    /\ UNCHANGED <<main, net, req>>

OpenMedia(a) == {k \in Media : conn[a][k].c = "open"}

\* client_connect's end: the stream state starts afresh, the UDP receiver may fail.
FinishConnect(a) ==
    /\ cl[a].pc = "start"
    /\ \/ Calm /\ Client(a, [cl[a] EXCEPT !.pc = "threads", !.running = TRUE])
       \/ Fault /\ Client(a, Leaving(a))
    /\ UNCHANGED <<main, net, req, backlog, conn>>

\* client_start_network_worker: the media workers, then the reader; a thread that cannot be
\* started ends the run.
StartThreads(a) ==
    /\ cl[a].pc = "threads"
    /\ \/ Calm /\ Client(a, [cl[a] EXCEPT !.pc = "view", !.reader = "poll", !.decode = TRUE,
                                          !.workers = OpenMedia(a), !.asleep = OpenMedia(a)])
       \/ Fault /\ Client(a, Leaving(a))
    /\ UNCHANGED <<main, net, req, backlog, conn>>

\* request_client_media_workers_stop: under the queue's mutex, then notify.
StopWorkers(r) == [r EXCEPT !.decode = FALSE, !.asleep = {}]

\* close() of the client's end of a set of its connections.
ClientCloses(a, S) == [conn EXCEPT ![a] = [k \in Kinds |->
    IF k \in S /\ conn[a][k].c = "open" THEN [conn[a][k] EXCEPT !.c = "closed"] ELSE conn[a][k]]]

\* client_network_reader_main: a lost control or selection channel, or the end of the run,
\* ends the reader, which closes the media channels and stops the workers.
ReaderEnds(a) ==
    /\ cl[a].reader = "poll"
    /\ ~cl[a].running \/ ClientSees(a, "control") \/ ClientSees(a, "selection")
    /\ Client(a, [StopWorkers(cl[a]) EXCEPT !.reader = "exited", !.running = FALSE])
    /\ conn' = ClientCloses(a, Media)
    /\ UNCHANGED <<left, main, net, req, backlog>>

\* handle_control_tcp_message: a configuration for a resize.
ReaderMessage(a) ==
    /\ cl[a].reader = "poll" /\ conn[a]["control"].down # <<>>
    /\ conn' = [conn EXCEPT ![a]["control"].down = Tail(@)]
    /\ UNCHANGED <<left, main, net, req, backlog, cl>>

\* close_video_receive_channel, close_audio_receive_channel: the server closed the channel,
\* or sent something on it that cannot be read.
ReaderMediaCloses(a, k) ==
    /\ cl[a].reader = "poll" /\ conn[a][k].c = "open"
    /\ \/ ClientSees(a, k) /\ Calm
       \/ Fault
    /\ conn' = ClientCloses(a, {k})
    /\ UNCHANGED <<main, net, req, backlog, cl>>

\* A media worker leaves its wait for packets once it is told to stop.
WorkerExits(a, k) ==
    /\ k \in cl[a].workers \ cl[a].asleep /\ ~cl[a].decode
    /\ Client(a, [cl[a] EXCEPT !.workers = @ \ {k}])
    /\ UNCHANGED <<left, main, net, req, backlog, conn>>

\* client_send_display_resize, or any message for the stream.
SendControl(a) ==
    /\ cl[a].pc = "view" /\ cl[a].running /\ left.resizes > 0
    /\ left' = [left EXCEPT !.resizes = @ - 1]
    /\ \E t \in {"resize", "stats"} : conn' = Up(a, "control", Msg(t, 0, cl[a].id))
    /\ UNCHANGED <<main, net, req, backlog, cl>>

\* run_sdl_viewer returns: the reader or a sender failed, or the user quits.
ViewerEnds(a) ==
    /\ cl[a].pc = "view"
    /\ \/ ~cl[a].running /\ Calm
       \/ left.quits > 0 /\ left' = [left EXCEPT !.quits = @ - 1]
    /\ Client(a, Leaving(a))
    /\ UNCHANGED <<main, net, req, backlog, conn>>

\* client_disconnect: shut every descriptor down, so that the reader wakes.
BeginDisconnect(a) ==
    /\ cl[a].pc = "leave"
    /\ Client(a, [cl[a] EXCEPT !.pc = "join", !.running = FALSE])
    /\ conn' = [conn EXCEPT ![a] = [k \in Kinds |->
                  IF conn[a][k].c = "open" THEN [conn[a][k] EXCEPT !.cut = TRUE] ELSE conn[a][k]]]
    /\ UNCHANGED <<left, main, net, req, backlog>>

\* client_disconnect after the reader is joined: stop the workers, join them, close.
JoinReader(a) ==
    /\ cl[a].pc = "join" /\ cl[a].reader # "poll"
    /\ Client(a, [StopWorkers(cl[a]) EXCEPT !.pc = "workers"])
    /\ UNCHANGED <<left, main, net, req, backlog, conn>>
EndDisconnect(a) ==
    /\ cl[a].pc = "workers" /\ cl[a].workers = {}
    /\ Client(a, [cl[a] EXCEPT !.pc = "closed"])
    /\ conn' = ClientCloses(a, Kinds)
    /\ UNCHANGED <<left, main, net, req, backlog>>

ClientStep(a) ==
    \/ Connect(a) \/ Negotiate(a) \/ NegotiationFails(a) \/ CheckConfig(a)
    \/ FinishConnect(a) \/ StartThreads(a) \/ ReaderEnds(a) \/ ReaderMessage(a)
    \/ SendControl(a) \/ ViewerEnds(a) \/ BeginDisconnect(a) \/ JoinReader(a) \/ EndDisconnect(a)
    \/ \E k \in Aux : OpenChannel(a, k)
    \/ \E k \in Media : ReaderMediaCloses(a, k) \/ WorkerExits(a, k)

-----------------------------------------------------------------------------
(* The specification and its properties.                                   *)

\* No thread has a step of its own left.
MainIdle == main = "joined" \/ (main = "run" /\ ~req.pending) \/ (main = "join" /\ net.pc # "exited")
NetIdle ==
    \/ net.pc = "exited"
    \/ net.pc = "accept" /\ backlog = <<>> /\ ~net.cut
    \/ net.pc = "ask" /\ net.asleep
    \/ /\ net.pc = "poll"
       /\ \A k \in Aux : net.bound[k] # 0 => ~ServerSees(net.bound[k], k)
       /\ conn[net.ctl]["control"].up = <<>> /\ ~ServerSees(net.ctl, "control")
       /\ \/ backlog = <<>> \/ net.cut
          \/ \A k \in net.media : net.bound[k] # 0
ClientIdle(a) ==
    LET quiet(k) == conn[a][k].down = <<>> /\ ~ClientSees(a, k)
    IN  \/ cl[a].pc = "closed"
        \/ cl[a].pc = "negotiate" /\ quiet("control")
        \/ cl[a].pc = "view" /\ cl[a].running /\ \A k \in Kinds : conn[a][k].c = "open" => quiet(k)
        \/ cl[a].pc = "workers" /\ cl[a].workers # {} /\ cl[a].workers = cl[a].asleep
AtRest == MainIdle /\ NetIdle /\ \A a \in Attempts : ClientIdle(a)
AtRestStep == AtRest /\ UNCHANGED svars

SessionNext == MainStep \/ NetStep \/ (\E a \in Attempts : ClientStep(a)) \/ AtRestStep

SessionSpec == SessionInit /\ [][SessionNext]_svars

\* Threads and processes are scheduled, sockets deliver, deadlines pass: the system moves on
\* until nothing is left to do.
SessionFairSpec == SessionSpec /\ ([]<>AtRest \/ []<><<TRUE>>_svars)

\* Every channel the server binds to a session was opened by the client run that owns the
\* session's control connection, though session ids wrap and the hellos of an abandoned
\* attempt may still sit in the backlog (wd_aux_channel_validate_hello).
OneClientPerSession == \A k \in Aux : net.bound[k] # 0 => net.bound[k] = net.ctl

Served(a) == net.pc = "poll" /\ net.ctl = a /\ net.connected

\* In the end nobody is left hanging: the network thread has exited if the server was told to
\* stop, otherwise it waits for a connection with the idle display mode restored, or serves a
\* client that considers itself connected; every client run is over, is that one, or waits in
\* the backlog of a busy server (wd_net_thread_main, server_request_network_stop,
\* wd_server_request_display_mode, client_disconnect).
SessionSettled ==
    /\ main = "joined" => net.pc = "exited"
    /\ net.pc = "accept" => net.mode = "idle" \/ req.failed
    /\ net.pc = "poll" => cl[net.ctl].pc = "view"
    /\ net.pc \in {"accept", "poll", "exited"}
    /\ main \in {"run", "joined"}
    /\ \A a \in Attempts :
         \/ cl[a].pc = "closed"
         \/ cl[a].pc = "view" /\ Served(a)
         \/ cl[a].pc = "negotiate" /\ net.pc = "poll" /\ net.ctl # a
EventuallySettled == <>[]SessionSettled

\* A session that was negotiated is not ended by a message the server refuses: every answer
\* of the negotiation was read before the session was established.
NothingRefused == ~net.refused
=============================================================================
