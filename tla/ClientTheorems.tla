--------------------------- MODULE ClientTheorems ---------------------------
(***************************************************************************)
(* What holds of the client's display, whatever its render thread, receive *)
(* thread and decode worker and the server beside them do.                 *)
(***************************************************************************)
EXTENDS ClientRender

-----------------------------------------------------------------------------
(* The server.                                                             *)

client_vars == <<config, remote, local, gens, uploads, dirty, framebuffer, frames, net, decode, render,
                 surface, acks, newest>>

\* What a step of the server must show.
ServerOK ==
    /\ UNCHANGED client_vars
    /\ server' \in Server /\ udp' \in SUBSET Packet /\ stream' \in Seq(VideoMessage)
    /\ last_frame' \in [epoch : Nat, frame_id : Nat]
    /\ server.epoch <= server'.epoch /\ server.config <= server'.config
    /\ last_frame'.epoch <= server'.epoch
    /\ \A p \in udp' : p.epoch <= server'.epoch
    /\ \A i \in 1..Len(stream') :
          \/ \E j \in 1..Len(stream) : stream'[i] = stream[j]
          \/ stream'[i].config = server'.config /\ stream'[i].epoch <= server'.epoch
    /\ \/ server'.control = server.control
       \/ server'.control = <<Newest'>> /\ server.epoch < server'.epoch

\* A step of the server leaves the client as it is: it may announce a configuration
\* and send content of the newest one.
LEMMA ServerStep ==
    ASSUME ClientInv, ServerOK, ConfigUnderWay', GensBounded'
    PROVE  ClientInv'
<1>1. UNCHANGED <<config, remote, local, gens, uploads, dirty, framebuffer, frames, net, decode, render,
                  surface, acks, newest>>
  BY Zenon DEF ServerOK, client_vars
<1>2. /\ server' \in Server /\ stream' \in Seq(VideoMessage) /\ server'.epoch \in Nat
      /\ server'.config \in Nat
      /\ \A i \in 1..Len(stream') : stream'[i].config \in Nat /\ stream'[i].epoch \in Nat
  <2>1. \A i \in 1..Len(stream') : stream'[i] \in VideoMessage
    BY DEF ServerOK
  <2> QED BY <2>1 DEF ServerOK, Server, VideoMessage
<1>0. /\ remote.epoch \in Nat /\ local.epoch \in Nat /\ server.epoch \in Nat /\ server.config \in Nat
      /\ config.applied.id \in Nat /\ config.applied.epoch \in Nat /\ config.pending.id \in Nat
      /\ server.epoch <= server'.epoch /\ server.config <= server'.config
  BY HeldTypes, Zenon DEF Configuration, ServerOK
<1>3. ClientTypes'
  BY <1>1, Zenon DEF ClientInv, ClientTypes, ServerOK
<1>4. config.applied.id <= server.config /\ config.pending.id <= server.config
  <2>1. config.pending = NoConfig \/ config.pending = Newest
    BY DEF ClientInv, ConfigUnderWay
  <2>2. Newest.id = server.config /\ NoConfig.id = 0 /\ server.config \in Nat
        /\ config.applied.id \in Nat
    BY HeldTypes DEF Newest, NoConfig, Configuration
  <2>3. config.applied.id = server.config \/ config.applied.id < server.config
    BY <2>2 DEF ClientInv, ConfigUnderWay
  <2> QED BY <2>1, <2>2, <2>3
<1>5. EpochsOrdered'
  <2>1. /\ 1 <= server'.config /\ 1 <= local'.epoch
        /\ remote'.epoch <= server'.epoch /\ config'.applied.epoch <= server'.epoch
        /\ render'.pc # "reset" => config'.applied.epoch <= remote'.epoch
    BY <1>0, <1>1, <1>2 DEF ClientInv, EpochsOrdered
  <2>2. ASSUME NEW i \in 1..Len(stream')
        PROVE  stream'[i].epoch <= server'.epoch /\ stream'[i].config <= server'.config
    <3>1. CASE \E j \in 1..Len(stream) : stream'[i] = stream[j]
      <4>1. PICK j \in 1..Len(stream) : stream'[i] = stream[j]
        BY <3>1
      <4>2. stream[j].epoch <= server.epoch /\ stream[j].config <= server.config
        BY DEF ClientInv, EpochsOrdered
      <4>3. stream[j].config \in Nat /\ stream[j].epoch \in Nat
        BY HeldTypes DEF VideoMessage
      <4>4. stream[j].epoch <= server'.epoch /\ stream[j].config <= server'.config
        <5>1. server'.epoch \in Nat /\ server'.config \in Nat
          BY <1>2
        <5>2. \A a, b, c \in Nat : a <= b /\ b <= c => a <= c
          OBVIOUS
        <5> QED BY <1>0, <4>2, <4>3, <5>1, <5>2, Zenon
      <4> QED BY <4>1, <4>4
    <3>2. CASE stream'[i].config = server'.config /\ stream'[i].epoch <= server'.epoch
      BY <1>2, <3>2
    <3> QED BY <3>1, <3>2 DEF ServerOK
  <2> QED BY <2>1, <2>2 DEF EpochsOrdered, ServerOK
<1>6. VideoOfConfig'
  <2>1. ASSUME NEW f, f.config \in Nat, f.epoch \in Nat, f.epoch <= server.epoch,
               \A j \in 1..Len(server.control) : Before(f, server.control[j])
        PROVE  \A j \in 1..Len(server'.control) : Before(f, server'.control[j])
    <3>1. CASE server'.control = server.control
      BY <2>1, <3>1
    <3>2. CASE server'.control = <<Newest'>> /\ server.epoch < server'.epoch
      <4>1. \A j \in 1..Len(server'.control) : server'.control[j].epoch = server'.epoch
        BY <3>2 DEF Newest
      <4>2. f.epoch < server'.epoch
        BY <1>2, <2>1, <3>2, HeldTypes
      <4> QED BY <4>1, <4>2 DEF Before
    <3> QED BY <3>1, <3>2 DEF ServerOK
  <2>2. ASSUME NEW i \in 1..Len(stream')
        PROVE  /\ Before(stream'[i], config.applied) /\ Before(stream'[i], config.pending)
               /\ \A j \in 1..Len(server'.control) : Before(stream'[i], server'.control[j])
    <3>1. CASE \E j \in 1..Len(stream) : stream'[i] = stream[j]
      <4>1. PICK j \in 1..Len(stream) : stream'[i] = stream[j]
        BY <3>1
      <4>2. /\ Before(stream[j], config.applied) /\ Before(stream[j], config.pending)
            /\ \A k \in 1..Len(server.control) : Before(stream[j], server.control[k])
            /\ stream[j].epoch <= server.epoch
        BY DEF ClientInv, EpochsOrdered, VideoOfConfig
      <4>3. stream[j].config \in Nat /\ stream[j].epoch \in Nat
        BY HeldTypes DEF VideoMessage
      <4> QED BY <2>1, <4>1, <4>2, <4>3
    <3>2. CASE stream'[i].config = server'.config
      <4>1. /\ config.applied.id <= server'.config /\ config.pending.id <= server'.config
            /\ config.applied.id \in Nat /\ config.pending.id \in Nat
        BY <1>0, <1>2, <1>4
      <4>2. \A j \in 1..Len(server'.control) : server'.control[j].id = server'.config
        <5>1. server'.control = <<>> \/ server'.control = <<Newest'>>
          BY DEF ConfigUnderWay
        <5> QED BY <5>1 DEF Newest
      <4> QED BY <1>2, <3>2, <4>1, <4>2 DEF Before
    <3> QED BY <3>1, <3>2 DEF ServerOK
  <2>3. decode.pc # "idle" =>
          /\ \A j \in 1..Len(server'.control) : Before(decode.frame, server'.control[j])
          /\ decode.frame.config <= server'.config /\ decode.frame.epoch <= server'.epoch
    <3> SUFFICES ASSUME decode.pc # "idle"
                 PROVE  /\ \A j \in 1..Len(server'.control) : Before(decode.frame, server'.control[j])
                        /\ decode.frame.config <= server'.config /\ decode.frame.epoch <= server'.epoch
      OBVIOUS
    <3>1. /\ \A j \in 1..Len(server.control) : Before(decode.frame, server.control[j])
          /\ decode.frame.config <= server.config /\ decode.frame.epoch <= server.epoch
      BY DEF ClientInv, VideoOfConfig
    <3>2. decode.frame.config \in Nat /\ decode.frame.epoch \in Nat
      BY HeldTypes, Zenon DEF DecodedFrame
    <3>3. \A j \in 1..Len(server'.control) : Before(decode.frame, server'.control[j])
      BY <2>1, <3>1, <3>2
    <3>4. decode.frame.config <= server'.config /\ decode.frame.epoch <= server'.epoch
      BY <1>0, <1>2, <3>1, <3>2
    <3> QED BY <3>3, <3>4
  <2>4. /\ decode.pc # "idle" => Before(decode.frame, config.applied) /\ Before(decode.frame, config.pending)
        /\ decode.pc = "publish" => decode.frame.config <= config.applied.id
    BY DEF ClientInv, VideoOfConfig
  <2> QED BY <1>1, <2>2, <2>3, <2>4 DEF VideoOfConfig, Before
<1>7. HeldAccepted' /\ FramesFenced' /\ FrameShownNewest'
  BY <1>1 DEF ClientInv, HeldAccepted, FramesFenced, Fenced, FrameShownNewest
<1>8. ReportsCurrent' /\ FramesFit' /\ AcksCurrent'
  BY <1>1 DEF ClientInv, ReportsCurrent, FramesFit, AcksCurrent
<1> QED BY <1>3, <1>5, <1>6, <1>7, <1>8 DEF ClientInv

\* The next generation of a rectangle is one more than its tiles have.
LEMMA NextGenerationIs ==
    ASSUME ClientInv, NEW rect \in server.scenario.rects
    PROVE  NextGeneration(rect) \in Nat
<1>1. server \in Server /\ server.scenario \in ContentScenarios /\ server.gen \in [Tiles -> Nat]
  BY DEF ClientInv, ClientTypes, Server
<1>2. rect \in SUBSET Tiles /\ rect # {} /\ server.scenario.gens \in Nat
  <2>1. server.scenario.rects \subseteq (SUBSET Tiles) \ {{}} /\ server.scenario.gens \in Nat
    BY <1>1, ClientContentAssumption, Zenon
  <2> QED BY <2>1
<1> DEFINE S == {server.gen[t] : t \in rect}
<1>3. /\ S \subseteq Nat /\ S # {} /\ \A k \in S : k <= server.scenario.gens
  BY <1>1, <1>2 DEF ClientInv, GensBounded
<1>4. PICK m \in S : \A k \in S : m >= k
  <2> HIDE DEF S
  <2> QED BY <1>2, <1>3, Greatest, Zenon
<1>5. PICK s \in rect : m = server.gen[s]
  OBVIOUS
<1>6. \A t \in rect : server.gen[t] <= m /\ server.gen[t] \in Nat
  <2> TAKE t \in rect
  <2>1. server.gen[t] \in S
    OBVIOUS
  <2> QED BY <1>3, <1>4, <2>1
<1>7. m \in Nat /\ m <= server.scenario.gens
  BY <1>3
<1> HIDE DEF S
<1> DEFINE g == m + 1
<1>8. g \in 1..server.scenario.gens + 1 /\ \A t \in rect : server.gen[t] < g
  BY <1>2, <1>6, <1>7
<1>9. g = 1 \/ \E t \in rect : server.gen[t] = g - 1
  BY <1>5, <1>7
<1>10. \E x \in 1..server.scenario.gens + 1 :
         /\ \A t \in rect : server.gen[t] < x
         /\ x = 1 \/ \E t \in rect : server.gen[t] = x - 1
  <2> HIDE DEF g
  <2> QED BY <1>8, <1>9
<1>11. NextGeneration(rect) \in 1..server.scenario.gens + 1
  BY <1>10 DEF NextGeneration
<1> QED BY <1>2, <1>11

\* A tile is sent.
LEMMA SendTileInv ==
    ASSUME ClientInv, NEW rect \in server.scenario.rects, SendTile(rect) PROVE ClientInv'
<1> DEFINE g == NextGeneration(rect)
           gen == [t \in Tiles |-> IF t \in rect THEN g ELSE server.gen[t]]
<1>1. /\ server.owner = "TILES" /\ ~server.config_pending /\ g <= server.scenario.gens
      /\ server' = [server EXCEPT !.gen = gen]
      /\ udp' = udp \cup {[epoch |-> server.epoch, rect |-> rect, gen |-> g]}
      /\ UNCHANGED <<stream, last_frame, client_vars>>
  BY DEF SendTile, client_vars, queue_vars, screen_vars
<1>2. server \in Server /\ server.scenario \in ContentScenarios /\ server.gen \in [Tiles -> Nat]
      /\ udp \in SUBSET Packet /\ stream \in Seq(VideoMessage)
      /\ last_frame \in [epoch : Nat, frame_id : Nat] /\ server.epoch \in Nat /\ server.config \in Nat
  BY DEF ClientInv, ClientTypes, Server
<1>3. g \in Nat /\ rect \in SUBSET Tiles /\ server.scenario.gens \in Nat
  BY <1>2, NextGenerationIs, ClientContentAssumption
<1> HIDE DEF g
<1>4. gen \in [Tiles -> Nat] /\ \A t \in Tiles : gen[t] <= server.scenario.gens
  BY <1>1, <1>2, <1>3 DEF ClientInv, GensBounded
<1> HIDE DEF gen
<1>5. server' \in Server
  BY <1>1, <1>2, <1>4, SetServer, Zenon
<1>6. /\ server'.epoch = server.epoch /\ server'.config = server.config
      /\ server'.control = server.control /\ server'.config_pending = server.config_pending
      /\ server'.owner = server.owner /\ server'.gen = gen /\ server'.scenario = server.scenario
  BY <1>1, <1>2 DEF Server
<1>7. udp' \in SUBSET Packet /\ \A p \in udp' : p.epoch <= server.epoch
  <2>1. [epoch |-> server.epoch, rect |-> rect, gen |-> g] \in Packet
    BY <1>2, <1>3 DEF Packet
  <2> QED BY <1>1, <1>2, <2>1 DEF ClientInv, EpochsOrdered
<1>8. ConfigUnderWay'
  <2>1. config' = config /\ render' = render
    BY <1>1 DEF client_vars
  <2> QED BY <1>1, <1>6, <2>1 DEF ClientInv, ConfigUnderWay
<1>9. GensBounded'
  BY <1>4, <1>6 DEF GensBounded
<1>10. ServerOK
  BY <1>1, <1>2, <1>5, <1>6, <1>7 DEF ServerOK, ClientInv, EpochsOrdered
<1> QED BY <1>8, <1>9, <1>10, ServerStep

\* The tiles hand over to the video, and the channel is dropped.
LEMMA BeginVideoInv == ASSUME ClientInv, BeginVideo PROVE ClientInv'
<1> DEFINE s1 == [server EXCEPT !.epoch = server.epoch + 1]
<1>1. /\ ~server.config_pending
      /\ server' = [s1 EXCEPT !.owner = "VIDEO"] /\ UNCHANGED <<udp, stream, last_frame, client_vars>>
  BY DEF BeginVideo, client_vars, queue_vars, screen_vars
<1>2. server \in Server /\ udp \in SUBSET Packet /\ stream \in Seq(VideoMessage)
      /\ last_frame \in [epoch : Nat, frame_id : Nat] /\ server.epoch \in Nat /\ server.config \in Nat
  BY DEF ClientInv, ClientTypes, Server
<1>3. s1 \in Server /\ "VIDEO" \in Owners
  <2>1. server.epoch + 1 \in Nat
    BY <1>2
  <2>2. s1 \in Server
    BY <1>2, <2>1, SetServer, Zenon
  <2> QED BY <2>2 DEF Owners
<1>4. /\ server'.epoch = server.epoch + 1 /\ server'.config = server.config
      /\ server'.control = server.control /\ server'.config_pending = server.config_pending
      /\ server'.gen = server.gen /\ server'.scenario = server.scenario
  BY <1>1, <1>2 DEF Server
<1> HIDE DEF s1
<1>5. server' \in Server
  BY <1>1, <1>3, SetServer, Zenon
<1>6. ConfigUnderWay' /\ GensBounded'
  <2>1. config' = config /\ render' = render
    BY <1>1 DEF client_vars
  <2> QED BY <1>1, <1>4, <2>1 DEF ClientInv, ConfigUnderWay, GensBounded
<1>7. ServerOK
  <2>1. \A p \in udp : p.epoch \in Nat /\ p.epoch <= server.epoch
    BY <1>2 DEF ClientInv, EpochsOrdered, Packet
  <2>2. last_frame.epoch <= server.epoch
    BY Zenon DEF ClientInv, EpochsOrdered
  <2> QED BY <1>1, <1>2, <1>4, <1>5, <2>1, <2>2 DEF ServerOK
<1> QED BY <1>6, <1>7, ServerStep

\* While the video owns the display no configuration is under way.
LEMMA VideoSettled ==
    ASSUME ClientInv, server.owner = "VIDEO"
    PROVE  ~server.config_pending
BY DEF ClientInv, ConfigUnderWay

\* The server's variables have their types.
LEMMA ServerTypes ==
    ASSUME ClientInv
    PROVE  /\ server \in Server /\ udp \in SUBSET Packet /\ stream \in Seq(VideoMessage)
           /\ last_frame \in [epoch : Nat, frame_id : Nat] /\ server.epoch \in Nat /\ server.config \in Nat
           /\ \A p \in udp : p.epoch \in Nat /\ p.epoch <= server.epoch
           /\ last_frame.epoch <= server.epoch
<1>1. /\ server \in Server /\ udp \in SUBSET Packet /\ stream \in Seq(VideoMessage)
      /\ last_frame \in [epoch : Nat, frame_id : Nat] /\ server.epoch \in Nat /\ server.config \in Nat
  BY DEF ClientInv, ClientTypes, Server
<1>2. /\ \A p \in udp : p.epoch \in Nat /\ p.epoch <= server.epoch
      /\ last_frame.epoch <= server.epoch
  BY <1>1 DEF ClientInv, EpochsOrdered, Packet
<1> QED BY <1>1, <1>2

\* A message is put behind a queue.
LEMMA Behind ==
    ASSUME NEW S, NEW q \in Seq(S), NEW m \in S, NEW r, r = Append(q, m)
    PROVE  /\ r \in Seq(S)
           /\ \A i \in 1..Len(r) : r[i] = m \/ \E j \in 1..Len(q) : r[i] = q[j]
OBVIOUS

\* A video frame is sent.
LEMMA SendFrameInv == ASSUME ClientInv, SendFrame PROVE ClientInv'
<1> DEFINE id == IF last_frame.epoch = server.epoch THEN last_frame.frame_id + 1 ELSE 1
           m == [epoch |-> server.epoch, frame_id |-> id, config |-> server.config]
<1>1. /\ server.owner = "VIDEO" /\ stream' = Append(stream, m)
      /\ last_frame' = [epoch |-> server.epoch, frame_id |-> id]
      /\ UNCHANGED <<server, udp, client_vars>>
  BY DEF SendFrame, client_vars, queue_vars, screen_vars
<1>2. id \in Nat
  BY ServerTypes
<1>3. m \in VideoMessage /\ m.config = server.config /\ m.epoch = server.epoch
  BY <1>2, ServerTypes DEF VideoMessage
<1> HIDE DEF id, m
<1>4. /\ stream' \in Seq(VideoMessage)
      /\ \A i \in 1..Len(stream') : stream'[i] = m \/ \E j \in 1..Len(stream) : stream'[i] = stream[j]
  BY <1>1, <1>3, ServerTypes, Behind
<1>5. ConfigUnderWay' /\ GensBounded'
  <2>1. config' = config /\ render' = render /\ server' = server
    BY <1>1 DEF client_vars
  <2> QED BY <2>1 DEF ClientInv, ConfigUnderWay, GensBounded, Newest
<1>6. ServerOK
  <2>1. last_frame' \in [epoch : Nat, frame_id : Nat] /\ last_frame'.epoch = server.epoch
    BY <1>1, <1>2, ServerTypes
  <2>2. \A i \in 1..Len(stream') :
           \/ \E j \in 1..Len(stream) : stream'[i] = stream[j]
           \/ stream'[i].config = server.config /\ stream'[i].epoch <= server.epoch
    BY <1>3, <1>4, ServerTypes
  <2> QED BY <1>1, <1>4, <2>1, <2>2, ServerTypes DEF ServerOK
<1> QED BY <1>5, <1>6, ServerStep

\* An end-of-stream frame is put behind what is left of the stream, or not sent.
LEMMA EndOfStreamIs ==
    ASSUME ClientInv, NEW e \in Nat, NEW c \in Nat, EndOfStream(e, c)
    PROVE  /\ stream' \in Seq(VideoMessage)
           /\ \A i \in 1..Len(stream') :
                \/ \E j \in 1..Len(stream) : stream'[i] = stream[j]
                \/ stream'[i].config = c /\ stream'[i].epoch = e
<1> DEFINE m == [epoch |-> e, frame_id |-> 0, config |-> c]
<1>1. m \in VideoMessage /\ m.config = c /\ m.epoch = e
  BY DEF VideoMessage
<1>2. \E kept \in {stream, <<>>} : stream' = kept \/ stream' = Append(kept, m)
  BY Zenon DEF EndOfStream
<1> HIDE DEF m
<1>3. stream \in Seq(VideoMessage) /\ <<>> \in Seq(VideoMessage)
  BY ServerTypes
<1>4. CASE stream' = stream
  BY <1>3, <1>4, Zenon
<1>5. CASE stream' = Append(stream, m)
  BY <1>1, <1>3, <1>5, Behind
<1>7. CASE stream' = <<>>
  BY <1>3, <1>7
<1>6. CASE stream' = Append(<<>>, m)
  <2>1. stream' = <<m>>
    BY <1>6
  <2> QED BY <1>1, <2>1
<1> QED BY <1>2, <1>4, <1>5, <1>6, <1>7, Zenon

\* The video gives the display back.
LEMMA EndVideoInv == ASSUME ClientInv, EndVideo PROVE ClientInv'
<1> DEFINE s1 == [server EXCEPT !.epoch = server.epoch + 1]
<1>1. /\ server.owner = "VIDEO" /\ server' = [s1 EXCEPT !.owner = "TILES"]
      /\ EndOfStream(server.epoch + 1, server.config)
      /\ UNCHANGED <<udp, last_frame, client_vars>>
  BY DEF EndVideo, client_vars, queue_vars, screen_vars
<1>2. server.epoch + 1 \in Nat /\ "TILES" \in Owners
  BY ServerTypes DEF Owners
<1>3. s1 \in Server
  BY <1>2, ServerTypes, SetServer, Zenon
<1>4. /\ server'.epoch = server.epoch + 1 /\ server'.config = server.config
      /\ server'.control = server.control /\ server'.config_pending = server.config_pending
      /\ server'.gen = server.gen /\ server'.scenario = server.scenario
  BY <1>1, ServerTypes DEF Server
<1> HIDE DEF s1
<1>5. server' \in Server
  BY <1>1, <1>2, <1>3, SetServer, Zenon
<1>6. ConfigUnderWay' /\ GensBounded'
  <2>1. config' = config /\ render' = render
    BY <1>1 DEF client_vars
  <2> QED BY <1>1, <1>4, <2>1, VideoSettled DEF ClientInv, ConfigUnderWay, GensBounded
<1>7. /\ stream' \in Seq(VideoMessage)
      /\ \A i \in 1..Len(stream') :
           \/ \E j \in 1..Len(stream) : stream'[i] = stream[j]
           \/ stream'[i].config = server'.config /\ stream'[i].epoch = server'.epoch
  <2>1. server.config \in Nat
    BY ServerTypes
  <2> QED BY <1>1, <1>2, <1>4, <2>1, EndOfStreamIs
<1>8. ServerOK
  <2>1. server'.epoch \in Nat /\ server.epoch <= server'.epoch /\ server.config <= server'.config
        /\ udp' = udp /\ last_frame' = last_frame
        /\ last_frame.epoch <= server'.epoch /\ \A p \in udp : p.epoch <= server'.epoch
    BY <1>1, <1>4, ServerTypes
  <2>2. \A i \in 1..Len(stream') :
           \/ \E j \in 1..Len(stream) : stream'[i] = stream[j]
           \/ stream'[i].config = server'.config /\ stream'[i].epoch <= server'.epoch
    BY <1>7, <2>1
  <2> QED BY <1>1, <1>4, <1>5, <1>7, <2>1, <2>2, ServerTypes DEF ServerOK
<1> QED BY <1>6, <1>8, ServerStep

\* A planned resize: everything on its way is of an older epoch than the new
\* configuration.
LEMMA ResizeInv == ASSUME ClientInv, Resize PROVE ClientInv'
<1> DEFINE c == [id |-> server.config + 1, epoch |-> server.epoch + 1]
           s1 == [server EXCEPT !.epoch = server.epoch + 1]
           s2 == [s1 EXCEPT !.owner = "TILES"]
           s3 == [s2 EXCEPT !.config = server.config + 1]
           s4 == [s3 EXCEPT !.config_pending = TRUE]
           s5 == [s4 EXCEPT !.gen = Zero]
           s6 == [s5 EXCEPT !.control = Append(server.control, c)]
<1>1. /\ ~server.config_pending /\ server' = s6
      /\ EndOfStream(server.epoch + 1, server.config + 1)
      /\ udp' \in {udp, {}} /\ UNCHANGED <<last_frame, client_vars>>
  BY DEF Resize, client_vars, queue_vars, screen_vars
<1>2. /\ server.control = <<>> /\ config.pending = NoConfig /\ render.pc # "reset"
      /\ config.applied.id = server.config
  BY <1>1 DEF ClientInv, ConfigUnderWay
<1>3. /\ server.epoch + 1 \in Nat /\ server.config + 1 \in Nat /\ c \in Configuration
      /\ TRUE \in BOOLEAN /\ "TILES" \in Owners /\ server.config < server.config + 1
  BY ServerTypes DEF Configuration, Owners
<1>4. Append(server.control, c) = <<c>> /\ <<c>> \in Seq(Configuration)
  BY <1>2, <1>3
<1>5. /\ server'.epoch = server.epoch + 1 /\ server'.config = server.config + 1
      /\ server'.control = Append(server.control, c) /\ server'.config_pending /\ server'.owner = "TILES"
      /\ server'.gen = Zero /\ server'.scenario = server.scenario
  BY <1>1, ServerTypes DEF Server
<1> HIDE DEF c
<1>6. server' \in Server
  <2>1. s1 \in Server
    BY <1>3, ServerTypes, SetServer, Zenon
  <2> HIDE DEF s1
  <2>2. s2 \in Server
    BY <1>3, <2>1, SetServer, Zenon
  <2> HIDE DEF s2
  <2>3. s3 \in Server
    BY <1>3, <2>2, SetServer, Zenon
  <2> HIDE DEF s3
  <2>4. s4 \in Server
    BY <1>3, <2>3, SetServer, Zenon
  <2> HIDE DEF s4
  <2>5. s5 \in Server
    BY <2>4, SetServer, Empty, Zenon
  <2> HIDE DEF s5
  <2>6. s6 \in Server
    BY <1>4, <2>5, SetServer, Zenon
  <2> QED BY <1>1, <2>6, Zenon
<1> HIDE DEF s1, s2, s3, s4, s5, s6
<1>7. server'.control = <<Newest'>>
  BY <1>4, <1>5 DEF Newest, c
<1>8. ConfigUnderWay'
  <2>1. config' = config /\ render' = render
    BY <1>1 DEF client_vars
  <2> QED BY <1>2, <1>3, <1>5, <1>7, <2>1 DEF ConfigUnderWay
<1>9. GensBounded'
  <2>1. server.scenario \in ContentScenarios
    BY ServerTypes DEF Server
  <2>2. server.scenario.gens \in Nat
    BY <2>1, ClientContentAssumption
  <2> QED BY <1>5, <2>2 DEF GensBounded, Zero
<1>10. /\ stream' \in Seq(VideoMessage)
       /\ \A i \in 1..Len(stream') :
            \/ \E j \in 1..Len(stream) : stream'[i] = stream[j]
            \/ stream'[i].config = server'.config /\ stream'[i].epoch = server'.epoch
  BY <1>1, <1>3, <1>5, EndOfStreamIs
<1>11. ServerOK
  <2>1. server'.epoch \in Nat /\ server.epoch <= server'.epoch /\ server.config <= server'.config
        /\ server.epoch < server'.epoch /\ last_frame' = last_frame
        /\ last_frame.epoch <= server'.epoch /\ \A p \in udp : p.epoch <= server'.epoch
    BY <1>1, <1>5, ServerTypes
  <2>2. \A i \in 1..Len(stream') :
           \/ \E j \in 1..Len(stream) : stream'[i] = stream[j]
           \/ stream'[i].config = server'.config /\ stream'[i].epoch <= server'.epoch
    BY <1>10, <2>1
  <2>3. udp' \in SUBSET Packet /\ \A p \in udp' : p.epoch <= server'.epoch
    BY <1>1, <2>1, ServerTypes
  <2> QED BY <1>1, <1>6, <1>7, <1>10, <2>1, <2>2, <2>3, ServerTypes DEF ServerOK
<1> QED BY <1>8, <1>9, <1>11, ServerStep

\* The server drops the video channel.
LEMMA CloseVideoChannelInv == ASSUME ClientInv, CloseVideoChannel PROVE ClientInv'
<1>1. /\ server' = [server EXCEPT !.channel = "closing"] /\ stream' \in {stream, <<>>}
      /\ UNCHANGED <<udp, last_frame, client_vars>>
  BY DEF CloseVideoChannel, client_vars, queue_vars, screen_vars
<1>2. server' \in Server
  BY <1>1, ServerTypes, SetServer, Zenon
<1>3. /\ server'.epoch = server.epoch /\ server'.config = server.config
      /\ server'.control = server.control /\ server'.config_pending = server.config_pending
      /\ server'.gen = server.gen /\ server'.scenario = server.scenario /\ server'.owner = server.owner
  BY <1>1, ServerTypes DEF Server
<1>4. ConfigUnderWay' /\ GensBounded'
  <2>1. config' = config /\ render' = render
    BY <1>1 DEF client_vars
  <2> QED BY <1>3, <2>1 DEF ClientInv, ConfigUnderWay, GensBounded, Newest
<1>5. /\ stream' \in Seq(VideoMessage)
      /\ \A i \in 1..Len(stream') : \E j \in 1..Len(stream) : stream'[i] = stream[j]
  <2>1. CASE stream' = stream
    BY <2>1, ServerTypes, Zenon
  <2>2. CASE stream' = <<>>
    BY <2>2
  <2> QED BY <1>1, <2>1, <2>2
<1>6. ServerOK
  BY <1>1, <1>2, <1>3, <1>5, ServerTypes DEF ServerOK
<1> QED BY <1>4, <1>6, ServerStep

\* Every step of the server keeps the invariant.
LEMMA ServerNextInv == ASSUME ClientInv, ServerNext PROVE ClientInv'
BY SendTileInv, BeginVideoInv, SendFrameInv, EndVideoInv, ResizeInv, CloseVideoChannelInv
   DEF ServerNext

-----------------------------------------------------------------------------
(* The receive thread and the decode worker.                               *)

NetThread == [pc : {"idle", "push", "blit", "dirty", "mark", "telemetry"}, tile : Packet]
Decoder == [pc : {"idle", "decoded", "publish"}, frame : DecodedFrame]
DirtyTiles == [tiles : SUBSET Tiles, epoch : Nat]

\* What is queued, drawn or held next comes from the tile in hand.
NetOK ==
    /\ UNCHANGED <<server, udp, stream, last_frame, config, remote, local, frames, decode, render,
                   surface, acks, newest>>
    /\ gens' \in Generations /\ uploads' \in Seq(Upload) /\ dirty' \in DirtyTiles
    /\ framebuffer' \in [Tiles -> Pixel] /\ net' \in NetThread
    /\ net'.tile.epoch <= remote.epoch
    /\ \A i \in 1..Len(uploads') : uploads'[i].epoch <= remote.epoch
    /\ \A t \in Tiles : framebuffer'[t].epoch <= remote.epoch

\* Such a step keeps the invariant.
LEMMA NetStep == ASSUME ClientInv, NetOK PROVE ClientInv'
<1> USE DEF NetOK
<1>1. ClientTypes'
  BY DEF ClientInv, ClientTypes, NetThread, DirtyTiles
<1>2. ConfigUnderWay' /\ GensBounded'
  BY DEF ClientInv, ConfigUnderWay, Newest, GensBounded
<1>3. EpochsOrdered' /\ VideoOfConfig'
  BY Zenon DEF ClientInv, EpochsOrdered, VideoOfConfig, Before
<1>4. HeldAccepted'
  BY Zenon DEF ClientInv, HeldAccepted
<1>5. FramesFenced' /\ FrameShownNewest' /\ ReportsCurrent'
  BY DEF ClientInv, FramesFenced, Fenced, FrameShownNewest, ReportsCurrent
<1>6. FramesFit' /\ AcksCurrent'
  BY DEF ClientInv, FramesFit, AcksCurrent
<1> QED BY <1>1, <1>2, <1>3, <1>4, <1>5, <1>6 DEF ClientInv

\* The types of what the receive thread uses, and the epochs of what it holds.
LEMMA NetTypes ==
    ASSUME ClientInv
    PROVE  /\ gens \in Generations /\ uploads \in Seq(Upload) /\ dirty \in DirtyTiles
           /\ framebuffer \in [Tiles -> Pixel] /\ net \in NetThread /\ local \in Fence
           /\ net.tile \in Packet /\ net.tile.epoch \in Nat /\ net.tile.gen \in Nat
           /\ net.tile.rect \in SUBSET Tiles /\ local.epoch \in Nat
           /\ net.tile.epoch <= remote.epoch /\ remote.epoch \in Nat
           /\ \A i \in 1..Len(uploads) : uploads[i].epoch <= remote.epoch
           /\ \A t \in Tiles : framebuffer[t].epoch <= remote.epoch
<1>1. /\ gens \in Generations /\ uploads \in Seq(Upload) /\ dirty \in DirtyTiles
      /\ framebuffer \in [Tiles -> Pixel] /\ net \in NetThread /\ local \in Fence
  BY DEF ClientInv, ClientTypes, NetThread, DirtyTiles
<1>2. /\ net.tile \in Packet /\ net.tile.epoch \in Nat /\ net.tile.gen \in Nat
      /\ net.tile.rect \in SUBSET Tiles /\ local.epoch \in Nat /\ remote.epoch \in Nat
  BY <1>1, HeldTypes DEF NetThread, Packet
<1>3. /\ net.tile.epoch <= remote.epoch
      /\ \A i \in 1..Len(uploads) : uploads[i].epoch <= remote.epoch
      /\ \A t \in Tiles : framebuffer[t].epoch <= remote.epoch
  BY DEF ClientInv, HeldAccepted
<1> QED BY <1>1, <1>2, <1>3

\* The receive thread moves on with the tile it holds.
LEMMA NetMoves ==
    ASSUME NEW n \in NetThread
    PROVE  \A x \in {"idle", "push", "blit", "dirty", "mark", "telemetry"} :
              [n EXCEPT !.pc = x] \in NetThread /\ [n EXCEPT !.pc = x].tile = n.tile
BY DEF NetThread

\* A rejected tile goes to the framebuffer, and its rectangle is marked dirty.
LEMMA BlitInv == ASSUME ClientInv, BlitTile \/ MarkDirty PROVE ClientInv'
<1>1. CASE BlitTile
  <2> DEFINE fb == [t \in Tiles |-> IF t \in net.tile.rect
                                    THEN [epoch |-> net.tile.epoch, gen |-> net.tile.gen]
                                    ELSE framebuffer[t]]
  <2>1. /\ framebuffer' = fb /\ net' = [net EXCEPT !.pc = "dirty"]
        /\ UNCHANGED <<server, udp, stream, last_frame, config, remote, local, frames, decode, render,
                       surface, acks, newest, gens, uploads, dirty>>
    BY <1>1 DEF BlitTile, server_vars, content_vars, screen_vars
  <2>2. fb \in [Tiles -> Pixel] /\ \A t \in Tiles : fb[t].epoch <= remote.epoch
    BY NetTypes DEF Pixel
  <2> HIDE DEF fb
  <2>3. net' \in NetThread /\ net'.tile = net.tile
    BY <2>1, NetTypes, NetMoves, Zenon
  <2>4. NetOK
    BY <2>1, <2>2, <2>3, NetTypes DEF NetOK
  <2> QED BY <2>4, NetStep
<1>2. CASE MarkDirty
  <2>1. /\ dirty' = [tiles |-> dirty.tiles \cup net.tile.rect, epoch |-> local.epoch]
        /\ net' = [net EXCEPT !.pc = "mark"]
        /\ UNCHANGED <<server, udp, stream, last_frame, config, remote, local, frames, decode, render,
                       surface, acks, newest, gens, uploads, framebuffer>>
    BY <1>2 DEF MarkDirty, server_vars, screen_vars
  <2>2. net' \in NetThread /\ net'.tile = net.tile
    BY <2>1, NetTypes, NetMoves, Zenon
  <2>3. dirty' \in DirtyTiles
    BY <2>1, NetTypes DEF DirtyTiles
  <2>4. NetOK
    BY <2>1, <2>2, <2>3, NetTypes DEF NetOK
  <2> QED BY <2>4, NetStep
<1> QED BY <1>1, <1>2

\* The generations of the tile are raised (mark_completed_base_generations).
LEMMA MarkGenerationsInv == ASSUME ClientInv, MarkGenerations PROVE ClientInv'
<1> DEFINE rect == net.tile.rect
           gen == net.tile.gen
           rx == [t \in Tiles |-> IF t \in rect /\ gen >= gens.received[t]
                                  THEN net.tile.epoch ELSE gens.rx_epoch[t]]
           g1 == [gens EXCEPT !.received = Raised(gens.received, rect, gen)]
           g2 == [g1 EXCEPT !.pending = Raised(gens.pending, rect, gen)]
           g3 == [g2 EXCEPT !.rx_epoch = rx]
<1>1. /\ gens' = g3 /\ net' = [net EXCEPT !.pc = "telemetry"]
      /\ UNCHANGED <<server, udp, stream, last_frame, config, remote, local, frames, decode, render,
                     surface, acks, newest, uploads, dirty, framebuffer>>
  BY DEF MarkGenerations, server_vars, queue_vars, screen_vars
<1>2. /\ gens.received \in [Tiles -> Nat] /\ gens.pending \in [Tiles -> Nat]
      /\ gens.rx_epoch \in [Tiles -> Nat] /\ gens \in Generations
  BY NetTypes DEF Generations
<1>3. \A f \in [Tiles -> Nat] : Raised(f, rect, gen) \in [Tiles -> Nat]
  BY NetTypes DEF Raised, Later
<1>4. rx \in [Tiles -> Nat]
  BY <1>2, NetTypes
<1> HIDE DEF rx, rect, gen
<1>5. g1 \in Generations
  BY <1>2, <1>3, SetGenerations, Zenon
<1> HIDE DEF g1
<1>6. g2 \in Generations
  BY <1>2, <1>3, <1>5, SetGenerations, Zenon
<1> HIDE DEF g2
<1>7. g3 \in Generations
  BY <1>4, <1>6, SetGenerations, Zenon
<1> HIDE DEF g3
<1>8. net' \in NetThread /\ net'.tile = net.tile
  BY <1>1, NetTypes, NetMoves, Zenon
<1>9. NetOK
  BY <1>1, <1>7, <1>8, NetTypes DEF NetOK
<1> QED BY <1>9, NetStep

\* The completion is noted for the telemetry, and the tile is done with.
LEMMA MarkTelemetryInv == ASSUME ClientInv, MarkTelemetry PROVE ClientInv'
<1> DEFINE tl == [t \in Tiles |->
                   IF t \in net.tile.rect /\ net.tile.gen >= gens.telemetry[t].gen
                     THEN [epoch |-> net.tile.epoch, gen |-> net.tile.gen] ELSE gens.telemetry[t]]
<1>1. /\ gens' = [gens EXCEPT !.telemetry = tl] /\ net' = [pc |-> "idle", tile |-> NoPacket]
      /\ UNCHANGED <<server, udp, stream, last_frame, config, remote, local, frames, decode, render,
                     surface, acks, newest, uploads, dirty, framebuffer>>
  BY DEF MarkTelemetry, server_vars, queue_vars, screen_vars
<1>2. gens.telemetry \in [Tiles -> Pixel] /\ gens \in Generations
  BY NetTypes DEF Generations
<1>3. tl \in [Tiles -> Pixel]
  BY <1>2, NetTypes DEF Pixel
<1> HIDE DEF tl
<1>4. gens' \in Generations
  BY <1>1, <1>2, <1>3, SetGenerations, Zenon
<1>5. net' \in NetThread /\ net'.tile.epoch = 0
  BY <1>1, Empty DEF NetThread
<1>6. NetOK
  BY <1>1, <1>4, <1>5, NetTypes DEF NetOK
<1> QED BY <1>6, NetStep

\* A queue without one of its items.
LEMMA WithoutIs ==
    ASSUME NEW S, NEW q \in Seq(S), NEW k \in 1..Len(q)
    PROVE  /\ Without(q, k) \in Seq(S)
           /\ \A i \in 1..Len(Without(q, k)) : \E j \in 1..Len(q) : Without(q, k)[i] = q[j]
<1> DEFINE a == SubSeq(q, 1, k - 1)
           b == SubSeq(q, k + 1, Len(q))
<1>1. a \in Seq(S) /\ Len(a) = k - 1 /\ \A i \in 1..Len(a) : a[i] = q[i]
  OBVIOUS
<1>2. b \in Seq(S) /\ Len(b) = Len(q) - k /\ \A i \in 1..Len(b) : b[i] = q[k + i]
  OBVIOUS
<1>3. Without(q, k) = a \o b
  BY DEF Without
<1>4. Len(q) \in Nat /\ k \in Nat
  OBVIOUS
<1> HIDE DEF a, b
<1>5. /\ a \o b \in Seq(S) /\ Len(a \o b) = Len(a) + Len(b)
      /\ \A i \in 1..Len(a \o b) : (a \o b)[i] = IF i <= Len(a) THEN a[i] ELSE b[i - Len(a)]
  <2>1. a \in Seq(S) /\ b \in Seq(S)
    BY <1>1, <1>2
  <2>2. /\ a \o b \in Seq(S) /\ Len(a \o b) = Len(a) + Len(b)
        /\ \A i \in 1..Len(a) + Len(b) : (a \o b)[i] = IF i <= Len(a) THEN a[i] ELSE b[i - Len(a)]
    BY <2>1, ConcatProperties, Zenon
  <2> QED BY <2>2, Zenon
<1>6. ASSUME NEW i \in 1..Len(a \o b) PROVE \E j \in 1..Len(q) : (a \o b)[i] = q[j]
  <2>1. CASE i <= k - 1
    <3>1. i \in 1..Len(a) /\ i \in 1..Len(q)
      BY <1>1, <1>4, <1>5, <2>1
    <3> QED BY <1>1, <1>5, <2>1, <3>1
  <2>2. CASE ~(i <= k - 1)
    <3>1. i - (k - 1) \in 1..Len(b) /\ k + (i - (k - 1)) \in 1..Len(q)
      BY <1>1, <1>2, <1>4, <1>5, <2>2
    <3>2. (a \o b)[i] = b[i - (k - 1)]
      BY <1>1, <1>5, <2>2
    <3> QED BY <1>2, <3>1, <3>2
  <2> QED BY <2>1, <2>2
<1> QED BY <1>3, <1>5, <1>6

\* The tile is queued for the render thread, or given up when its epoch has passed.
LEMMA PushTileInv == ASSUME ClientInv, PushTile PROVE ClientInv'
<1> DEFINE u == [rect |-> net.tile.rect, own |-> local.epoch, gen |-> net.tile.gen,
                 epoch |-> net.tile.epoch]
<1>1. /\ UNCHANGED <<server, udp, stream, last_frame, config, remote, local, frames, decode, render,
                     surface, acks, newest, gens, dirty, framebuffer>>
      /\ PushUpload(u) \/ (net' = [net EXCEPT !.pc = "idle", !.tile = NoPacket] /\ uploads' = uploads)
  BY DEF PushTile, server_vars, content_vars, screen_vars
<1>2. u \in Upload /\ u.epoch = net.tile.epoch
  BY NetTypes DEF Upload
<1> HIDE DEF u
<1>3. ASSUME net' \in NetThread, net'.tile.epoch <= remote.epoch, uploads' \in Seq(Upload),
             \A i \in 1..Len(uploads') : uploads'[i] = u \/ \E j \in 1..Len(uploads) : uploads'[i] = uploads[j]
      PROVE  ClientInv'
  <2>1. \A i \in 1..Len(uploads') : uploads'[i].epoch <= remote.epoch
    BY <1>2, <1>3, NetTypes, Zenon
  <2>2. NetOK
    BY <1>1, <1>3, <2>1, NetTypes DEF NetOK
  <2> QED BY <2>2, NetStep
<1>4. CASE net' = [net EXCEPT !.pc = "idle", !.tile = NoPacket] /\ uploads' = uploads
  <2>1. net' \in NetThread /\ net'.tile.epoch <= remote.epoch
    <3>1. net' \in NetThread /\ net'.tile = NoPacket
      BY <1>4, NetTypes, Empty, Zenon DEF NetThread
    <3> QED BY <3>1, NetTypes, Empty
  <2>2. \A i \in 1..Len(uploads') : \E j \in 1..Len(uploads) : uploads'[i] = uploads[j]
    BY <1>4, Zenon
  <2>3. uploads' \in Seq(Upload)
    BY <1>4, NetTypes
  <2> QED BY <1>3, <2>1, <2>2, <2>3
<1>5. CASE PushUpload(u)
  <2>1. /\ net' = [net EXCEPT !.pc = "mark"] \/ net' = [net EXCEPT !.pc = "blit"]
        /\ \/ uploads' = uploads
           \/ uploads' = Append(uploads, u)
           \/ \E k \in SameRect(u) : uploads' = Append(Without(uploads, k), u)
    BY <1>5, Zenon DEF PushUpload
  <2>2. net' \in NetThread /\ net'.tile.epoch <= remote.epoch
    <3>1. net' \in NetThread /\ net'.tile = net.tile
      BY <2>1, NetTypes, NetMoves, Zenon
    <3> QED BY <3>1, NetTypes
  <2>3. CASE uploads' = uploads
    <3>1. \A i \in 1..Len(uploads') : \E j \in 1..Len(uploads) : uploads'[i] = uploads[j]
      BY <2>3, Zenon
    <3>2. uploads' \in Seq(Upload)
      BY <2>3, NetTypes
    <3> QED BY <1>3, <2>2, <3>1, <3>2
  <2>4. CASE uploads' = Append(uploads, u)
    <3>1. uploads \in Seq(Upload)
      BY NetTypes
    <3>2. /\ uploads' \in Seq(Upload)
          /\ \A i \in 1..Len(uploads') : uploads'[i] = u \/ \E j \in 1..Len(uploads) : uploads'[i] = uploads[j]
      BY <1>2, <2>4, <3>1, Behind
    <3> QED BY <1>3, <2>2, <3>2
  <2>5. CASE \E k \in SameRect(u) : uploads' = Append(Without(uploads, k), u)
    <3>1. PICK k \in 1..Len(uploads) : uploads' = Append(Without(uploads, k), u)
      BY <2>5 DEF SameRect
    <3>2. uploads \in Seq(Upload)
      BY NetTypes
    <3>3. /\ Without(uploads, k) \in Seq(Upload)
          /\ \A i \in 1..Len(Without(uploads, k)) :
                \E j \in 1..Len(uploads) : Without(uploads, k)[i] = uploads[j]
      <4>1. k \in 1..Len(uploads)
        BY <3>1
      <4> QED BY <3>2, <4>1, WithoutIs
    <3>4. /\ uploads' \in Seq(Upload)
          /\ \A i \in 1..Len(uploads') : uploads'[i] = u
                \/ \E j \in 1..Len(Without(uploads, k)) : uploads'[i] = Without(uploads, k)[j]
      BY <1>2, <3>1, <3>3, Behind
    <3>5. \A i \in 1..Len(uploads') : uploads'[i] = u \/ \E j \in 1..Len(uploads) : uploads'[i] = uploads[j]
      BY <3>3, <3>4, Zenon
    <3> QED BY <1>3, <2>2, <3>4, <3>5
  <2> QED BY <2>1, <2>3, <2>4, <2>5
<1> QED BY <1>1, <1>4, <1>5

\* What accepting an epoch changes: nothing, or everything queued under the last one.
LEMMA Accepted ==
    ASSUME ClientInv, NEW e \in Nat, NEW o \in Owners, AcceptContentEpoch(e, o)
    PROVE  \/ e = remote.epoch /\ UNCHANGED <<remote, local, gens, dirty, frames>>
           \/ /\ e # remote.epoch
              /\ remote' \in Fence /\ remote'.epoch = e
              /\ local' \in Fence /\ local'.epoch = local.epoch + 1
              /\ gens' \in Generations /\ dirty' \in DirtyTiles /\ frames' = <<>>
<1>1. CASE e = remote.epoch
  BY <1>1 DEF AcceptContentEpoch, content_vars
<1>2. CASE e # remote.epoch
  <2>1. /\ local' = [epoch |-> local.epoch + 1, owner |-> o]
        /\ dirty' = [tiles |-> {}, epoch |-> local.epoch + 1] /\ frames' = <<>>
        /\ gens' = [gens EXCEPT !.pending = Zero, !.telemetry = [t \in Tiles |-> Blank]]
        /\ remote' = [epoch |-> e, owner |-> o]
    BY <1>2 DEF AcceptContentEpoch, ResetPendingContent, Advance
  <2>2. gens' \in Generations
    <3> DEFINE g1 == [gens EXCEPT !.pending = Zero]
    <3>1. g1 \in Generations /\ gens' = [g1 EXCEPT !.telemetry = [t \in Tiles |-> Blank]]
      BY <2>1, NetTypes, Empty, SetGenerations
    <3> HIDE DEF g1
    <3> QED BY <3>1, Empty, SetGenerations, Zenon
  <2> QED BY <1>2, <2>1, <2>2, NetTypes DEF Fence, DirtyTiles
<1> QED BY <1>1, <1>2

\* What a step that accepts epoch e for owner o must show.
AcceptOK(e, o) ==
    /\ ~Stale(e, o) /\ e <= server.epoch /\ AcceptContentEpoch(e, o)
    /\ UNCHANGED <<server, udp, last_frame, config, uploads, framebuffer, render, surface, acks, newest>>
    /\ stream' \in Seq(VideoMessage)
    /\ \A i \in 1..Len(stream') : \E j \in 1..Len(stream) : stream'[i] = stream[j]
    /\ net' \in NetThread /\ net'.tile.epoch <= e /\ decode' \in Decoder /\ VideoOfConfig'

\* A content epoch that is not stale is accepted: what was fenced before is held
\* to an older epoch, and what is queued now is of the new one.
LEMMA AcceptStep ==
    ASSUME ClientInv, NEW e \in Nat, NEW o \in Owners, AcceptOK(e, o)
    PROVE  ClientInv'
<1>1. /\ ~Stale(e, o) /\ e <= server.epoch /\ AcceptContentEpoch(e, o)
      /\ net' \in NetThread /\ net'.tile.epoch <= e /\ decode' \in Decoder /\ VideoOfConfig'
  BY Zenon DEF AcceptOK
<1>2. UNCHANGED <<server, udp, last_frame, config, uploads, framebuffer, render, surface, acks, newest>>
  BY Zenon DEF AcceptOK
<1>3. /\ stream' \in Seq(VideoMessage)
      /\ \A i \in 1..Len(stream') : \E j \in 1..Len(stream) : stream'[i] = stream[j]
  BY Zenon DEF AcceptOK
<1>4. /\ remote \in Fence /\ local \in Fence /\ remote.epoch \in Nat /\ local.epoch \in Nat
      /\ gens \in Generations /\ dirty \in DirtyTiles /\ frames \in Seq(DecodedFrame)
      /\ server.epoch \in Nat /\ config.applied.epoch \in Nat
  BY HeldTypes, Zenon DEF ClientInv, ClientTypes, DirtyTiles, Configuration
<1>5. remote.epoch <= e
  BY <1>1, <1>4 DEF Stale
<1>6. /\ remote' \in Fence /\ local' \in Fence /\ gens' \in Generations /\ dirty' \in DirtyTiles
      /\ remote'.epoch = e /\ remote.epoch <= remote'.epoch /\ local.epoch <= local'.epoch
      /\ local'.epoch \in Nat
      /\ \/ e = remote.epoch /\ UNCHANGED <<remote, local, gens, dirty, frames>>
         \/ local'.epoch = local.epoch + 1 /\ frames' = <<>>
  BY <1>1, <1>4, <1>5, Accepted
<1>7. /\ frames' \in Seq(DecodedFrame)
      /\ frames' = frames \/ Len(frames') = 0
  <2>1. CASE frames' = frames
    BY <1>4, <2>1, Zenon
  <2>2. CASE frames' = <<>>
    BY <2>2
  <2> QED BY <1>6, <2>1, <2>2, Zenon
<1>8. ClientTypes'
  <2>1. /\ server' \in Server /\ udp' \in SUBSET Packet /\ last_frame' \in [epoch : Nat, frame_id : Nat]
        /\ config' \in [applied : Configuration, pending : Configuration] /\ uploads' \in Seq(Upload)
        /\ framebuffer' \in [Tiles -> Pixel] /\ render' \in Pass /\ surface' \in Surface
        /\ acks' \in [tile : Nat, video : Nat] /\ newest' \in Nat
    BY <1>2, Zenon DEF ClientInv, ClientTypes
  <2> QED BY <1>1, <1>3, <1>6, <1>7, <2>1, Zenon DEF ClientTypes, NetThread, Decoder, DirtyTiles
<1>9. ConfigUnderWay' /\ GensBounded'
  BY <1>2, Zenon DEF ClientInv, ConfigUnderWay, Newest, GensBounded
<1>10. EpochsOrdered'
  <2>1. /\ remote'.epoch <= server'.epoch
        /\ \A x \in Nat : x <= remote.epoch => x <= remote'.epoch
        /\ \A x \in Nat : 1 <= local.epoch => 1 <= local'.epoch
    BY <1>1, <1>2, <1>4, <1>6
  <2>2. /\ 1 <= local'.epoch /\ 1 <= server'.config /\ config'.applied.epoch <= server'.epoch
        /\ render'.pc # "reset" => config'.applied.epoch <= remote'.epoch
        /\ last_frame'.epoch <= server'.epoch /\ \A p \in udp' : p.epoch <= server'.epoch
    BY <1>2, <1>4, <2>1, Zenon DEF ClientInv, EpochsOrdered
  <2>3. \A i \in 1..Len(stream') : stream'[i].epoch <= server'.epoch /\ stream'[i].config <= server'.config
    BY <1>2, <1>3, Zenon DEF ClientInv, EpochsOrdered
  <2> QED BY <2>1, <2>2, <2>3, Zenon DEF EpochsOrdered
<1>11. HeldAccepted'
  <2>1. \A x \in Nat : x <= remote.epoch => x <= remote'.epoch
    BY <1>4, <1>6
  <2>2. \A i \in 1..Len(uploads) : uploads[i].epoch <= remote'.epoch
    BY <2>1, HeldTypes, Zenon DEF ClientInv, HeldAccepted, Upload
  <2>3. \A i \in 1..Len(render.drained) : render.drained[i].epoch <= remote'.epoch
    BY <2>1, HeldTypes, Zenon DEF ClientInv, HeldAccepted, Upload
  <2>4. \A t \in Tiles : framebuffer[t].epoch <= remote'.epoch /\ surface.tile[t].epoch <= remote'.epoch
    BY <2>1, HeldTypes, Zenon DEF ClientInv, HeldAccepted, Pixel
  <2>5. /\ surface.video.epoch <= remote'.epoch /\ render.frame.epoch <= remote'.epoch
        /\ newest <= remote'.epoch
    BY <2>1, HeldTypes, Zenon DEF ClientInv, HeldAccepted, DecodedFrame
  <2>6. \A i \in 1..Len(frames') : frames'[i].epoch <= remote'.epoch
    <3>1. CASE e = remote.epoch /\ UNCHANGED <<remote, local, gens, dirty, frames>>
      BY <3>1, Zenon DEF ClientInv, HeldAccepted
    <3>2. CASE frames' = <<>>
      BY <3>2
    <3> QED BY <1>6, <3>1, <3>2, Zenon
  <2> QED BY <1>1, <1>2, <1>6, <2>2, <2>3, <2>4, <2>5, <2>6, Zenon DEF HeldAccepted
<1>12. FramesFenced'
  <2>1. CASE e = remote.epoch /\ UNCHANGED <<remote, local, gens, dirty, frames>>
    BY <1>2, <2>1, Zenon DEF ClientInv, FramesFenced, Fenced
  <2>2. CASE local'.epoch = local.epoch + 1 /\ frames' = <<>>
    <3>1. render.frame.own <= local.epoch /\ render.frame.own \in Nat
      BY HeldTypes, Zenon DEF ClientInv, FramesFenced, Fenced, DecodedFrame
    <3>2. render.frame.own < local'.epoch
      BY <1>4, <2>2, <3>1
    <3>3. Len(frames') = 0
      BY <2>2
    <3> QED BY <1>2, <1>6, <3>1, <3>2, <3>3 DEF FramesFenced, Fenced
  <2> QED BY <1>6, <2>1, <2>2, Zenon
<1>13. FrameShownNewest' /\ ReportsCurrent' /\ AcksCurrent'
  BY <1>2, Zenon DEF ClientInv, FrameShownNewest, ReportsCurrent, AcksCurrent
<1>14. FramesFit'
  <2>1. CASE frames' = frames
    BY <1>2, <2>1, Zenon DEF ClientInv, FramesFit
  <2>2. CASE frames' = <<>>
    BY <2>2 DEF FramesFit
  <2> QED BY <1>6, <2>1, <2>2, Zenon
<1> QED BY <1>1, <1>8, <1>9, <1>10, <1>11, <1>12, <1>13, <1>14, Zenon DEF ClientInv

\* process_udp_datagram up to the reassembler.
LEMMA ReceiveTileInv == ASSUME ClientInv, NEW p \in udp, ReceiveTile(p) PROVE ClientInv'
<1>1. /\ ~Stale(p.epoch, "TILES") /\ AcceptContentEpoch(p.epoch, "TILES")
      /\ net' = net \/ net' = [pc |-> "push", tile |-> p]
      /\ UNCHANGED <<server, udp, stream, last_frame, config, uploads, framebuffer, decode, render,
                     surface, acks, newest>>
  BY DEF ReceiveTile, server_vars, screen_vars
<1>2. p \in Packet /\ p.epoch \in Nat /\ p.epoch <= server.epoch /\ "TILES" \in Owners
  BY ServerTypes DEF Owners
<1>3. remote.epoch <= p.epoch
  BY <1>1, <1>2, HeldTypes DEF Stale
<1>4. net' \in NetThread /\ net'.tile.epoch <= p.epoch
  <2>1. CASE net' = net
    BY <1>2, <1>3, <2>1, NetTypes
  <2>2. CASE net' = [pc |-> "push", tile |-> p]
    BY <1>2, <2>2 DEF NetThread
  <2> QED BY <1>1, <2>1, <2>2
<1>5. decode' \in Decoder /\ stream' \in Seq(VideoMessage)
  BY <1>1, ServerTypes, Zenon DEF ClientInv, ClientTypes, Decoder
<1>6. \A i \in 1..Len(stream') : \E j \in 1..Len(stream) : stream'[i] = stream[j]
  BY <1>1, Zenon
<1>7. VideoOfConfig'
  BY <1>1 DEF ClientInv, VideoOfConfig, Before
<1>8. AcceptOK(p.epoch, "TILES")
  BY <1>1, <1>2, <1>4, <1>5, <1>6, <1>7, Zenon DEF AcceptOK
<1> QED BY <1>2, <1>8, AcceptStep

\* handle_video_frame.
LEMMA TakeVideoMessageInv == ASSUME ClientInv, TakeVideoMessage PROVE ClientInv'
<1> DEFINE m == Head(stream)
           owner == IF m.frame_id = 0 THEN "TILES" ELSE "VIDEO"
           f == [epoch |-> m.epoch, config |-> m.config, frame_id |-> m.frame_id, own |-> 0]
<1>1. /\ stream # <<>> /\ stream' = Tail(stream) /\ decode.pc = "idle"
      /\ UNCHANGED <<server, udp, last_frame, config, uploads, framebuffer, net, render, surface, acks,
                     newest>>
      /\ \/ UNCHANGED <<remote, local, gens, dirty, frames, decode>>
         \/ \E e, o : /\ e = m.epoch /\ o = owner /\ ~Stale(e, o) /\ AcceptContentEpoch(e, o)
                      /\ decode' = decode \/ decode' = [pc |-> "decoded", frame |-> f]
  BY Zenon DEF TakeVideoMessage, content_vars, screen_vars
<1>2. /\ m \in VideoMessage /\ m = stream[1] /\ 1 \in 1..Len(stream)
      /\ Tail(stream) \in Seq(VideoMessage)
      /\ \A i \in 1..Len(Tail(stream)) : i + 1 \in 1..Len(stream) /\ Tail(stream)[i] = stream[i + 1]
  BY <1>1, ServerTypes
<1>3. /\ stream' \in Seq(VideoMessage)
      /\ \A i \in 1..Len(stream') : \E j \in 1..Len(stream) : stream'[i] = stream[j]
  BY <1>1, <1>2
<1>4. /\ m.epoch <= server.epoch /\ m.config <= server.config
      /\ Before(m, config.applied) /\ Before(m, config.pending)
      /\ \A j \in 1..Len(server.control) : Before(m, server.control[j])
  BY <1>2, Zenon DEF ClientInv, EpochsOrdered, VideoOfConfig
<1>5. m.epoch \in Nat /\ m.config \in Nat /\ m.frame_id \in Nat /\ owner \in Owners
  BY <1>2 DEF VideoMessage, Owners
<1> HIDE DEF m, owner
<1>6. /\ f \in DecodedFrame /\ f.epoch = m.epoch /\ f.config = m.config
  BY <1>5, Zenon DEF DecodedFrame
<1> HIDE DEF f
<1>7. decode' = decode \/ decode' = [pc |-> "decoded", frame |-> f]
  BY <1>1
<1>8. ASSUME NEW i \in 1..Len(stream')
      PROVE  /\ Before(stream'[i], config.applied) /\ Before(stream'[i], config.pending)
             /\ \A j \in 1..Len(server.control) : Before(stream'[i], server.control[j])
             /\ stream'[i].epoch <= server.epoch /\ stream'[i].config <= server.config
  <2>1. PICK j \in 1..Len(stream) : stream'[i] = stream[j]
    BY <1>3, Zenon
  <2>2. /\ Before(stream[j], config.applied) /\ Before(stream[j], config.pending)
        /\ \A k \in 1..Len(server.control) : Before(stream[j], server.control[k])
        /\ stream[j].epoch <= server.epoch /\ stream[j].config <= server.config
    BY Zenon DEF ClientInv, EpochsOrdered, VideoOfConfig
  <2> QED BY <2>1, <2>2, Zenon
<1>9. decode' \in Decoder
  <2>1. CASE decode' = decode
    BY <2>1 DEF ClientInv, ClientTypes, Decoder
  <2>2. CASE decode' = [pc |-> "decoded", frame |-> f]
    BY <1>6, <2>2 DEF Decoder
  <2> QED BY <1>7, <2>1, <2>2
<1>10. VideoOfConfig'
  <2>1. CASE decode' = decode
    BY <1>1, <1>8, <2>1, Zenon DEF VideoOfConfig
  <2>2. CASE decode' = [pc |-> "decoded", frame |-> f]
    <3>1. decode'.pc = "decoded" /\ decode'.frame = f
      BY <2>2
    <3>2. /\ Before(f, config.applied) /\ Before(f, config.pending)
          /\ \A j \in 1..Len(server.control) : Before(f, server.control[j])
      BY <1>4, <1>6, Zenon DEF Before
    <3> QED BY <1>1, <1>4, <1>6, <1>8, <3>1, <3>2, Zenon DEF VideoOfConfig
  <2> QED BY <1>7, <2>1, <2>2
<1>11. CASE UNCHANGED <<remote, local, gens, dirty, frames, decode>>
  <2>1. ClientTypes'
    BY <1>1, <1>3, <1>11, Zenon DEF ClientInv, ClientTypes
  <2>2. ConfigUnderWay' /\ GensBounded' /\ HeldAccepted'
    BY <1>1, <1>11, Zenon DEF ClientInv, ConfigUnderWay, Newest, GensBounded, HeldAccepted
  <2>3. EpochsOrdered'
    BY <1>1, <1>8, <1>11, Zenon DEF ClientInv, EpochsOrdered
  <2>4. FramesFenced' /\ FrameShownNewest' /\ ReportsCurrent' /\ FramesFit' /\ AcksCurrent'
    BY <1>1, <1>11, Zenon DEF ClientInv, FramesFenced, Fenced, FrameShownNewest, ReportsCurrent, FramesFit,
                       AcksCurrent
  <2> QED BY <1>10, <2>1, <2>2, <2>3, <2>4 DEF ClientInv
<1>12. ASSUME NEW e, NEW o, e = m.epoch, o = owner, ~Stale(e, o), AcceptContentEpoch(e, o)
       PROVE  ClientInv'
  <2>1. e \in Nat /\ o \in Owners /\ e <= server.epoch
    BY <1>4, <1>5, <1>12
  <2>2. remote.epoch <= e
    BY <1>12, <2>1, HeldTypes DEF Stale
  <2>3. net' \in NetThread /\ net'.tile.epoch <= e
    BY <1>1, <2>1, <2>2, NetTypes
  <2>4. AcceptOK(e, o)
    BY <1>1, <1>3, <1>9, <1>10, <1>12, <2>1, <2>3, Zenon DEF AcceptOK
  <2> QED BY <2>1, <2>4, AcceptStep, Zenon
<1> QED BY <1>1, <1>11, <1>12, Zenon

\* publish_decoded_video_frame, its check of the size.
LEMMA CheckFrameSizeInv == ASSUME ClientInv, CheckFrameSize PROVE ClientInv'
<1>1. /\ decode.pc = "decoded"
      /\ UNCHANGED <<server, udp, stream, last_frame, config, remote, local, gens, uploads, dirty,
                     framebuffer, frames, net, render, surface, acks, newest>>
      /\ \/ decode.frame.config = config.applied.id /\ decode' = [decode EXCEPT !.pc = "publish"]
         \/ decode' = [pc |-> "idle", frame |-> NoFrame]
  BY DEF CheckFrameSize, server_vars, queue_vars, screen_vars
<1>2. decode \in Decoder /\ decode.frame.config \in Nat
  BY HeldTypes DEF ClientInv, ClientTypes, Decoder, DecodedFrame
<1>3. /\ decode' \in Decoder
      /\ decode'.pc # "idle" => /\ decode.frame.config = config.applied.id
                                /\ decode'.frame = decode.frame
  <2>1. CASE decode.frame.config = config.applied.id /\ decode' = [decode EXCEPT !.pc = "publish"]
    BY <1>2, <2>1 DEF Decoder
  <2>2. CASE decode' = [pc |-> "idle", frame |-> NoFrame]
    BY <2>2, Empty DEF Decoder
  <2> QED BY <1>1, <2>1, <2>2
<1>4. VideoOfConfig'
  BY <1>1, <1>2, <1>3 DEF ClientInv, VideoOfConfig, Before
<1>5. ClientTypes'
  BY <1>1, <1>3 DEF ClientInv, ClientTypes, Decoder
<1>6. ConfigUnderWay' /\ GensBounded' /\ HeldAccepted' /\ EpochsOrdered'
  BY <1>1 DEF ClientInv, ConfigUnderWay, Newest, GensBounded, HeldAccepted, EpochsOrdered
<1>7. FramesFenced' /\ FrameShownNewest' /\ ReportsCurrent' /\ FramesFit' /\ AcksCurrent'
  BY <1>1 DEF ClientInv, FramesFenced, Fenced, FrameShownNewest, ReportsCurrent, FramesFit, AcksCurrent
<1> QED BY <1>4, <1>5, <1>6, <1>7 DEF ClientInv

\* A full queue gives up its newest frame for the one that comes.
LEMMA QueuedIs ==
    ASSUME ClientInv, NEW f \in DecodedFrame
    PROVE  /\ Queued(f) \in Seq(DecodedFrame)
           /\ \A i \in 1..Len(Queued(f)) : Queued(f)[i] = f \/ \E j \in 1..Len(frames) : Queued(f)[i] = frames[j]
<1> DEFINE q == IF Len(frames) >= FrameCapacity THEN SubSeq(frames, 1, Len(frames) - 1) ELSE frames
<1>1. frames \in Seq(DecodedFrame) /\ FrameCapacity \in Nat \ {0}
  BY ClientContentAssumption DEF ClientInv, ClientTypes
<1>2. q \in Seq(DecodedFrame) /\ \A i \in 1..Len(q) : i \in 1..Len(frames) /\ q[i] = frames[i]
  <2>1. CASE Len(frames) >= FrameCapacity
    <3>1. q = SubSeq(frames, 1, Len(frames) - 1)
      BY <2>1
    <3> QED BY <1>1, <2>1, <3>1
  <2>2. CASE ~(Len(frames) >= FrameCapacity)
    <3>1. q = frames
      BY <2>2
    <3> HIDE DEF q
    <3> QED BY <1>1, <3>1, Zenon
  <2> QED BY <2>1, <2>2
<1>3. Queued(f) = Append(q, f)
  BY DEF Queued
<1> HIDE DEF q
<1>4. /\ Queued(f) \in Seq(DecodedFrame)
      /\ \A i \in 1..Len(Queued(f)) : Queued(f)[i] = f \/ \E j \in 1..Len(q) : Queued(f)[i] = q[j]
  BY <1>2, <1>3, Behind
<1> QED BY <1>2, <1>4, Zenon

\* publish_decoded_video_frame under remote_content_mutex: a frame of the present
\* epoch fits the configuration applied.
LEMMA PublishFrameInv == ASSUME ClientInv, PublishFrame PROVE ClientInv'
<1> DEFINE f == [decode.frame EXCEPT !.own = local.epoch]
<1>1. /\ decode.pc = "publish" /\ decode' = [pc |-> "idle", frame |-> NoFrame]
      /\ UNCHANGED <<server, udp, stream, last_frame, config, remote, local, uploads, framebuffer, net,
                     render, surface, acks, newest>>
      /\ \/ /\ decode.frame.epoch = remote.epoch /\ frames' = Queued(f)
            /\ dirty' = [tiles |-> {}, epoch |-> local.epoch] /\ gens' = [gens EXCEPT !.pending = Zero]
         \/ UNCHANGED <<frames, dirty, gens>>
  BY DEF PublishFrame, server_vars, screen_vars
<1>2. /\ decode.frame \in DecodedFrame /\ decode.frame.config \in Nat /\ local.epoch \in Nat
      /\ remote.epoch \in Nat /\ config.applied.id \in Nat /\ config.applied.epoch \in Nat
      /\ gens \in Generations /\ dirty \in DirtyTiles /\ frames \in Seq(DecodedFrame)
  BY HeldTypes, NetTypes, Zenon DEF DecodedFrame, Configuration, ClientInv, ClientTypes
<1>3. f \in DecodedFrame /\ f.epoch = decode.frame.epoch /\ f.config = decode.frame.config
      /\ f.own = local.epoch
  BY <1>2, Zenon DEF DecodedFrame
<1> HIDE DEF f
<1>4. decode.frame.config <= config.applied.id /\ Before(decode.frame, config.applied)
  BY <1>1 DEF ClientInv, VideoOfConfig
<1>5. /\ decode' \in Decoder /\ decode'.pc = "idle"
      /\ gens' \in Generations /\ dirty' \in DirtyTiles /\ frames' \in Seq(DecodedFrame)
  <2>1. decode' \in Decoder /\ decode'.pc = "idle"
    BY <1>1, Empty DEF Decoder
  <2>2. CASE UNCHANGED <<frames, dirty, gens>>
    BY <1>2, <2>1, <2>2
  <2>3. CASE /\ frames' = Queued(f) /\ dirty' = [tiles |-> {}, epoch |-> local.epoch]
             /\ gens' = [gens EXCEPT !.pending = Zero]
    <3>1. gens' \in Generations
      BY <1>2, <2>3, Empty, SetGenerations, Zenon
    <3>2. dirty' \in DirtyTiles
      BY <1>2, <2>3 DEF DirtyTiles
    <3>3. frames' \in Seq(DecodedFrame)
      BY <1>3, <2>3, QueuedIs
    <3> QED BY <2>1, <3>1, <3>2, <3>3
  <2> QED BY <1>1, <2>2, <2>3
<1>6. ClientTypes'
  BY <1>1, <1>5 DEF ClientInv, ClientTypes, Decoder, DirtyTiles
<1>7. \A i \in 1..Len(frames') : \/ \E j \in 1..Len(frames) : frames'[i] = frames[j]
                                 \/ frames'[i] = f /\ f.epoch = remote.epoch
  <2>1. CASE UNCHANGED <<frames, dirty, gens>>
    BY <2>1, Zenon
  <2>2. CASE decode.frame.epoch = remote.epoch /\ frames' = Queued(f)
    BY <1>3, <2>2, QueuedIs
  <2> QED BY <1>1, <2>1, <2>2
<1>8. HeldAccepted'
  <2>1. \A i \in 1..Len(frames') : frames'[i].epoch <= remote.epoch
    <3>1. remote.epoch <= remote.epoch
      BY <1>2
    <3> QED BY <1>7, <3>1, Zenon DEF ClientInv, HeldAccepted
  <2> QED BY <1>1, <2>1, Zenon DEF ClientInv, HeldAccepted
<1>9. FramesFenced'
  <2>1. \A i \in 1..Len(frames') : /\ frames'[i].own <= local.epoch
                                   /\ frames'[i].own = local.epoch => frames'[i].epoch = remote.epoch
    <3>1. local.epoch <= local.epoch
      BY <1>2
    <3> QED BY <1>3, <1>7, <3>1, Zenon DEF ClientInv, FramesFenced, Fenced
  <2> QED BY <1>1, <2>1, Zenon DEF ClientInv, FramesFenced, Fenced
<1>10. FramesFit'
  <2> SUFFICES ASSUME render.pc # "reset"
               PROVE  \A i \in 1..Len(frames') : frames'[i].config = config.applied.id
    BY <1>1 DEF FramesFit
  <2>1. f.epoch = remote.epoch => f.config = config.applied.id
    <3>1. config.applied.epoch <= remote.epoch
      BY DEF ClientInv, EpochsOrdered
    <3> QED BY <1>2, <1>3, <1>4, <3>1 DEF Before
  <2> QED BY <1>7, <2>1, Zenon DEF ClientInv, FramesFit
<1>11. ConfigUnderWay' /\ GensBounded' /\ EpochsOrdered'
  BY <1>1 DEF ClientInv, ConfigUnderWay, Newest, GensBounded, EpochsOrdered
<1>12. VideoOfConfig'
  BY <1>1, <1>5 DEF ClientInv, VideoOfConfig, Before
<1>13. FrameShownNewest' /\ ReportsCurrent' /\ AcksCurrent'
  BY <1>1, Zenon DEF ClientInv, FrameShownNewest, ReportsCurrent, AcksCurrent
<1> QED BY <1>6, <1>8, <1>9, <1>10, <1>11, <1>12, <1>13 DEF ClientInv

\* store_server_config_update.
LEMMA ReceiveConfigInv == ASSUME ClientInv, ReceiveConfig PROVE ClientInv'
<1>1. /\ server.control # <<>>
      /\ config' = [config EXCEPT !.pending = Head(server.control)]
      /\ server' = [server EXCEPT !.control = Tail(server.control)]
      /\ UNCHANGED <<udp, stream, last_frame, remote, local, gens, dirty, frames, uploads, framebuffer,
                     net, decode, render, surface, acks, newest>>
  BY DEF ReceiveConfig, content_vars, screen_vars
<1>2. /\ server.control = <<Newest>> /\ server.config_pending /\ server.owner = "TILES"
      /\ render.pc # "reset" /\ config.applied.id < server.config
  BY <1>1 DEF ClientInv, ConfigUnderWay
<1>3. Newest \in Configuration /\ Newest.epoch = server.epoch /\ Newest.id = server.config
  BY ServerTypes DEF Newest, Configuration
<1>4. /\ config' = [config EXCEPT !.pending = Newest] /\ server' = [server EXCEPT !.control = <<>>]
  <2>1. Head(<<Newest>>) = Newest /\ Tail(<<Newest>>) = <<>>
    OBVIOUS
  <2> QED BY <1>1, <1>2, <2>1
<1>5. /\ config' \in [applied : Configuration, pending : Configuration]
      /\ config'.applied = config.applied /\ config'.pending = Newest
  BY <1>3, <1>4, Zenon DEF ClientInv, ClientTypes
<1>6. /\ server' \in Server /\ server'.control = <<>> /\ server'.config_pending = server.config_pending
      /\ server'.owner = server.owner /\ server'.epoch = server.epoch /\ server'.config = server.config
      /\ server'.gen = server.gen /\ server'.scenario = server.scenario
  <2>1. server' \in Server
    <3>1. <<>> \in Seq(Configuration)
      OBVIOUS
    <3> QED BY <1>4, <3>1, ServerTypes, SetServer, Zenon
  <2> QED BY <1>4, <2>1, ServerTypes, Zenon DEF Server
<1>7. Newest' = Newest
  BY <1>6 DEF Newest
<1>8. ClientTypes'
  BY <1>1, <1>5, <1>6 DEF ClientInv, ClientTypes
<1>9. ConfigUnderWay' /\ GensBounded'
  BY <1>1, <1>2, <1>5, <1>6, <1>7 DEF ClientInv, ConfigUnderWay, GensBounded
<1>10. EpochsOrdered'
  BY <1>1, <1>5, <1>6 DEF ClientInv, EpochsOrdered
<1>11. VideoOfConfig'
  <2>1. 1 \in 1..Len(server.control) /\ server.control[1] = Newest
    BY <1>2
  <2>2. \A i \in 1..Len(stream) : Before(stream[i], config.applied) /\ Before(stream[i], Newest)
    BY <2>1 DEF ClientInv, VideoOfConfig
  <2>3. decode.pc # "idle" =>
          /\ Before(decode.frame, config.applied) /\ Before(decode.frame, Newest)
          /\ decode.frame.config <= server.config /\ decode.frame.epoch <= server.epoch
    BY <2>1 DEF ClientInv, VideoOfConfig
  <2>4. decode.pc = "publish" => decode.frame.config <= config.applied.id
    BY DEF ClientInv, VideoOfConfig
  <2>5. Len(server'.control) = 0
    BY <1>6
  <2> HIDE DEF Newest
  <2> QED BY <1>1, <1>5, <1>6, <2>2, <2>3, <2>4, <2>5 DEF VideoOfConfig, Before
<1>12. HeldAccepted' /\ FramesFenced' /\ FrameShownNewest'
  BY <1>1 DEF ClientInv, HeldAccepted, FramesFenced, Fenced, FrameShownNewest
<1>13. ReportsCurrent' /\ FramesFit' /\ AcksCurrent'
  BY <1>1, <1>5 DEF ClientInv, ReportsCurrent, FramesFit, AcksCurrent
<1> QED BY <1>8, <1>9, <1>10, <1>11, <1>12, <1>13 DEF ClientInv

\* close_video_receive_channel: the queue goes and the tiles own the fence.
LEMMA CloseVideoReceiveInv == ASSUME ClientInv, CloseVideoReceive PROVE ClientInv'
<1> DEFINE own == TransitionTo(local, "TILES")
           e == IF dirty.tiles = {} THEN dirty.epoch ELSE own.epoch
<1>1. /\ server' = [server EXCEPT !.channel = "closed"] /\ stream' = <<>> /\ frames' = <<>>
      /\ local' = own /\ dirty' = [dirty EXCEPT !.epoch = e]
      /\ UNCHANGED <<udp, last_frame, config, remote, gens, uploads, framebuffer, net, decode, render,
                     surface, acks, newest>>
  BY DEF CloseVideoReceive, screen_vars
<1>2. own \in Fence /\ own.epoch \in Nat /\ (own = local \/ own.epoch = local.epoch + 1)
  BY NetTypes DEF TransitionTo, Advance, Fence, Owners
<1>3. dirty' \in DirtyTiles
  <2>1. e \in Nat
    BY <1>2, NetTypes DEF DirtyTiles
  <2> HIDE DEF e
  <2> QED BY <1>1, <2>1, NetTypes DEF DirtyTiles
<1> HIDE DEF own, e
<1>4. /\ server' \in Server /\ server'.control = server.control
      /\ server'.config_pending = server.config_pending
      /\ server'.owner = server.owner /\ server'.epoch = server.epoch /\ server'.config = server.config
      /\ server'.gen = server.gen /\ server'.scenario = server.scenario
  <2>1. server' \in Server
    BY <1>1, ServerTypes, SetServer, Zenon
  <2> QED BY <1>1, <2>1, ServerTypes, Zenon DEF Server
<1>5. Newest' = Newest
  BY <1>4 DEF Newest
<1>6. ClientTypes'
  <2>1. stream' \in Seq(VideoMessage) /\ frames' \in Seq(DecodedFrame) /\ local' \in Fence
    BY <1>1, <1>2
  <2> QED BY <1>1, <1>3, <1>4, <2>1, Zenon DEF ClientInv, ClientTypes, DirtyTiles
<1>7. ConfigUnderWay' /\ GensBounded'
  BY <1>1, <1>4, <1>5 DEF ClientInv, ConfigUnderWay, GensBounded
<1>8. EpochsOrdered'
  <2>1. 1 <= local.epoch /\ local.epoch \in Nat
    BY NetTypes DEF ClientInv, EpochsOrdered
  <2>2. 1 <= local'.epoch
    BY <1>1, <1>2, <2>1
  <2> QED BY <1>1, <1>4, <2>2 DEF ClientInv, EpochsOrdered
<1>9. VideoOfConfig'
  BY <1>1, <1>4 DEF ClientInv, VideoOfConfig, Before
<1>10. HeldAccepted'
  BY <1>1 DEF ClientInv, HeldAccepted
<1>11. FramesFenced'
  <2>1. /\ render.frame.own <= local.epoch /\ render.frame.own \in Nat /\ local.epoch \in Nat
        /\ render.frame.own = local.epoch => render.frame.epoch = remote.epoch
    BY HeldTypes DEF ClientInv, FramesFenced, Fenced, DecodedFrame
  <2>2. Len(frames') = 0
    BY <1>1
  <2> QED BY <1>1, <1>2, <2>1, <2>2 DEF FramesFenced, Fenced
<1>12. FrameShownNewest' /\ ReportsCurrent' /\ FramesFit' /\ AcksCurrent'
  BY <1>1 DEF ClientInv, FrameShownNewest, ReportsCurrent, FramesFit, AcksCurrent
<1> QED BY <1>6, <1>7, <1>8, <1>9, <1>10, <1>11, <1>12 DEF ClientInv

-----------------------------------------------------------------------------
(* The invariant.                                                          *)

\* Uploads are applied while there are some.
DrainedStage == render.pc \in {"direct", "apply"} => render.drained # <<>>

\* The stages of a pass reach the uploads only with uploads drained.
LEMMA DrainedStep ==
    ASSUME ClientInv, DrainedStage, RenderNext
    PROVE  DrainedStage'
<1>1. render \in Pass /\ IdleRender \in Pass
  BY IdleType DEF ClientInv, ClientTypes
<1>2. CASE render'.pc \notin {"direct", "apply"}
  BY <1>2 DEF DrainedStage
<1>3. CASE SwapConfig
  BY <1>1, <1>2, <1>3 DEF SwapConfig, Pass
<1>4. CASE ResetForConfig \/ CommitPresent
  <2>1. PICK n \in BOOLEAN, d \in BOOLEAN :
            render' = [IdleRender EXCEPT !.needs_full = n, !.frame_dirty = d]
    BY <1>1, <1>4, Zenon DEF ResetForConfig, CommitPresent, Render, Pass
  <2>2. render'.pc = "top"
    BY <2>1, EndOfPass, Zenon
  <2> QED BY <1>2, <2>2
<1>5. CASE BeginPass
  <2>1. render'.pc \in {"check", "video", "tiles"}
    BY <1>1, <1>5 DEF BeginPass, Render, Pass
  <2> QED BY <1>2, <2>1
<1>6. CASE SnapshotVideoEpoch \/ CheckFrame \/ UploadFrame \/ SnapshotOwnership
  <2>1. render'.pc \in {"pop", "upload", "tiles", "check", "ready"}
    BY <1>1, <1>6, Zenon DEF SnapshotVideoEpoch, CheckFrame, UploadFrame, SnapshotOwnership, Render, Pass
  <2> QED BY <1>2, <2>1
<1>7. CASE PopFrame
  <2>1. render'.pc \in {"tiles", "check", "current"}
    <3>1. CASE render' = [render EXCEPT !.pc = "tiles"]
      BY <1>1, <3>1 DEF Pass
    <3>2. CASE render' = [render EXCEPT !.pc = "check", !.remote_dirty = FALSE]
      BY <1>1, <3>2 DEF Pass
    <3>3. ASSUME NEW x, render' = [render EXCEPT !.pc = "current", !.frame = x]
          PROVE  render'.pc = "current"
      BY <1>1, <3>3 DEF Pass
    <3> QED BY <1>7, <3>1, <3>2, <3>3, Zenon DEF PopFrame, Render
  <2> QED BY <1>2, <2>1
<1>8. CASE CheckComplete \/ SnapshotDrawn \/ ClaimDrawn \/ TakeDirty
  <2>1. render'.pc \in {"drain", "plan", "claim_drawn", "take"}
    BY <1>1, <1>8, Zenon DEF CheckComplete, SnapshotDrawn, ClaimDrawn, Claim, TakeDirty, Render, Pass
  <2> QED BY <1>2, <2>1
<1>9. CASE DrainUploads
  <2>1. /\ render'.pc = (IF uploads = <<>> THEN "take" ELSE "direct") /\ render'.drained = uploads
    BY <1>1, <1>9 DEF DrainUploads, Render, Pass
  <2> QED BY <2>1 DEF DrainedStage
<1>10. CASE SnapshotDirect
  <2>1. render.pc = "direct" /\ render'.drained = render.drained
    BY <1>1, <1>10 DEF SnapshotDirect, Render, Pass
  <2> QED BY <2>1 DEF DrainedStage
<1>11. CASE ApplyUpload
  <2>1. PICK d, s : render' = [render EXCEPT !.drained = Tail(render.drained), !.drawn = d,
                     !.pc = IF Tail(render.drained) # <<>> THEN "apply" ELSE IF s THEN "own" ELSE "take"]
    BY <1>11, Zenon DEF ApplyUpload, Render
  <2>2. /\ render'.drained = Tail(render.drained)
        /\ render'.pc = IF Tail(render.drained) # <<>> THEN "apply" ELSE IF s THEN "own" ELSE "take"
    BY <1>1, <2>1 DEF Pass
  <2> QED BY <2>2 DEF DrainedStage
<1>12. CASE PlanUpload
  <2>1. render'.pc \in {"claim", "check"}
    <3> DEFINE wakeup == render.drawn = {} /\ ~render.needs_full /\ ~Restore /\ render.taken = {}
               r == [render EXCEPT !.remote_dirty = render.remote_dirty /\ ~wakeup]
               Full(c) == render.allow /\ (render.needs_full \/ Restore \/ c)
    <3>1. \E c \in BOOLEAN :
             \/ render' = [r EXCEPT !.pc = "claim", !.full = Full(c),
                                    !.uploaded = IF Full(c) THEN local ELSE r.uploaded]
             \/ render' = TilesDrawn(r, r.drawn # {})
      BY <1>12, Zenon DEF PlanUpload, Render
    <3>2. ASSUME NEW c \in BOOLEAN,
                 render' = [r EXCEPT !.pc = "claim", !.full = Full(c),
                                     !.uploaded = IF Full(c) THEN local ELSE r.uploaded]
          PROVE  render'.pc = "claim"
      BY <1>1, <3>2 DEF Pass
    <3>3. render' = TilesDrawn(r, r.drawn # {}) => render'.pc = "check"
      BY <1>1 DEF TilesDrawn, Pass
    <3> QED BY <3>1, <3>2, <3>3, Zenon
  <2> QED BY <1>2, <2>1
<1>13. CASE ClaimUploaded \/ ClearDirty \/ CopyFramebuffer
  <2>1. render'.pc \in {"clear", "copy", "check"}
    BY <1>1, <1>13, Zenon DEF ClaimUploaded, Claim, ClearDirty, CopyFramebuffer, TilesDrawn, Render, Pass
  <2> QED BY <1>2, <2>1
<1>14. CASE CheckUpload
  <2>1. render'.pc \in {"requeue", "top", "epoch", "present"}
    <3>1. IdleRender.pc = "top"
      BY Zenon DEF IdleRender
    <3> QED BY <1>1, <1>14, <3>1, Zenon DEF CheckUpload, Render, Pass
  <2> QED BY <1>2, <2>1
<1>15. CASE RequeueUpdates \/ SnapshotTelemetryEpoch \/ ClaimTelemetry \/ Present
  <2>1. render'.pc \in {"top", "telemetry", "present", "commit"}
    BY <1>1, <1>15, Zenon DEF RequeueUpdates, SnapshotTelemetryEpoch, ClaimTelemetry, Present, Render, Pass
  <2> QED BY <1>2, <2>1
<1> QED BY <1>3, <1>4, <1>5, <1>6, <1>7, <1>8, <1>9, <1>10, <1>11, <1>12, <1>13, <1>14, <1>15 DEF RenderNext

\* The inductive invariant of the client.
ClientHolds == ClientInv /\ DrainedStage

\* Every step of the receive thread and of the decode worker keeps the invariant.
LEMMA NetNextInv == ASSUME ClientInv, NetNext \/ DecodeNext PROVE ClientInv'
BY ReceiveTileInv, PushTileInv, BlitInv, MarkGenerationsInv, MarkTelemetryInv, ReceiveConfigInv,
   CloseVideoReceiveInv, TakeVideoMessageInv, CheckFrameSizeInv, PublishFrameInv
   DEF NetNext, DecodeNext

\* Every step of the render thread keeps the invariant.
LEMMA RenderNextInv == ASSUME ClientHolds, RenderNext PROVE ClientInv'
<1>1. ApplyUpload => render.drained # <<>>
  BY DEF ApplyUpload, ClientHolds, DrainedStage
<1> QED BY <1>1, SwapConfigInv, ResetForConfigInv, BeginPassInv, SnapshotVideoEpochInv, PopFrameInv,
           CheckFrameInv, UploadFrameInv, SnapshotsInv, CheckCompleteInv, DrainUploadsInv,
           ApplyUploadInv, ClaimsInv, DirtyInv, PlanUploadInv, CopyFramebufferInv, CheckUploadInv,
           RequeueUpdatesInv, TelemetryInv, PresentInv, CommitPresentInv DEF ClientHolds, RenderNext

\* The other threads leave the render thread where it is.
LEMMA OthersLeaveRender == ASSUME ServerNext \/ NetNext \/ DecodeNext PROVE render' = render
<1>1. CASE ServerNext
  BY <1>1 DEF ServerNext, SendTile, BeginVideo, SendFrame, EndVideo, Resize, CloseVideoChannel
<1>2. CASE NetNext
  BY <1>2 DEF NetNext, ReceiveTile, PushTile, BlitTile, MarkDirty, MarkGenerations, MarkTelemetry,
              ReceiveConfig, CloseVideoReceive
<1>3. CASE DecodeNext
  BY <1>3 DEF DecodeNext, TakeVideoMessage, CheckFrameSize, PublishFrame
<1> QED BY <1>1, <1>2, <1>3

\* A connection starts in the invariant.
LEMMA ClientStarts == ASSUME ContentInit PROVE ClientHolds
<1>1. PICK s \in ContentScenarios :
          server = [epoch |-> 1, owner |-> "TILES", gen |-> Zero, config |-> 1,
                    config_pending |-> FALSE, control |-> <<>>, scenario |-> s,
                    channel |-> IF "video" \in s.events THEN "open" ELSE "closed"]
  BY Zenon DEF ContentInit
<1>2. /\ udp = {} /\ stream = <<>> /\ last_frame = [epoch |-> 0, frame_id |-> 0]
      /\ config = [applied |-> [id |-> 1, epoch |-> 1], pending |-> NoConfig]
      /\ remote = [epoch |-> 1, owner |-> "TILES"] /\ local = [epoch |-> 1, owner |-> "TILES"]
      /\ gens = [received |-> Zero, pending |-> Zero, presented |-> Zero,
                 telemetry |-> [t \in Tiles |-> Blank], rx_epoch |-> Zero]
      /\ uploads = <<>> /\ dirty = [tiles |-> {}, epoch |-> 1]
      /\ framebuffer = [t \in Tiles |-> Blank] /\ frames = <<>>
      /\ net = [pc |-> "idle", tile |-> NoPacket] /\ decode = [pc |-> "idle", frame |-> NoFrame]
      /\ render = [IdleRender EXCEPT !.needs_full = TRUE, !.frame_dirty = TRUE]
      /\ surface = [tile |-> [t \in Tiles |-> Blank], video |-> NoFrame, active |-> "tile",
                    fallback |-> FALSE]
      /\ acks = [tile |-> 0, video |-> 0] /\ newest = 0
  BY Zenon DEF ContentInit
<1>3. /\ render \in Pass /\ render.pc = "top" /\ render.frame = NoFrame /\ render.drained = <<>>
      /\ ~render.video_valid /\ render.batch = 0 /\ render.video_epoch = 0
  BY <1>2, EndOfPass, Zenon
<1>4. server \in Server
  <2>1. <<>> \in Seq(Configuration)
    OBVIOUS
  <2> QED BY <1>1, <2>1, Empty, Zenon DEF Server, Owners
<1>5. gens \in Generations /\ surface \in Surface
  BY <1>2, Empty DEF Generations, Surface
<1>6. ClientTypes
  BY <1>2, <1>3, <1>4, <1>5, Empty DEF ClientTypes, Fence, Owners, Configuration
<1>7. ConfigUnderWay
  BY <1>1, <1>2, <1>3 DEF ConfigUnderWay
<1>8. EpochsOrdered
  BY <1>1, <1>2, <1>3 DEF EpochsOrdered
<1>9. VideoOfConfig
  BY <1>1, <1>2 DEF VideoOfConfig
<1>10. HeldAccepted
  BY <1>2, <1>3, Empty DEF HeldAccepted
<1>11. FramesFenced
  BY <1>2, <1>3, Empty DEF FramesFenced, Fenced
<1>12. FrameShownNewest /\ ReportsCurrent /\ AcksCurrent /\ FramesFit /\ DrainedStage
  BY <1>2, <1>3 DEF FrameShownNewest, ReportsCurrent, AcksCurrent, FramesFit, DrainedStage
<1>13. GensBounded
  <2>1. s.gens \in Nat
    BY ClientContentAssumption
  <2>2. server.gen = Zero /\ server.scenario = s /\ \A t \in Tiles : Zero[t] = 0
    BY <1>1 DEF Zero
  <2> QED BY <2>1, <2>2 DEF GensBounded
<1> QED BY <1>6, <1>7, <1>8, <1>9, <1>10, <1>11, <1>12, <1>13 DEF ClientHolds, ClientInv

\* Every step keeps the invariant.
LEMMA ClientStep == ASSUME ClientHolds, [ContentNext]_client_content_vars PROVE ClientHolds'
<1>1. CASE RenderNext
  BY <1>1, RenderNextInv, DrainedStep DEF ClientHolds
<1>2. CASE ServerNext \/ NetNext \/ DecodeNext
  <2>1. ClientInv'
    BY <1>2, ServerNextInv, NetNextInv DEF ClientHolds
  <2>2. render' = render
    BY <1>2, OthersLeaveRender
  <2> QED BY <2>1, <2>2 DEF ClientHolds, DrainedStage
<1>3. CASE UNCHANGED client_content_vars
  <2>1. UNCHANGED <<server, udp, stream, last_frame, config, remote, local, gens, uploads, dirty,
                    framebuffer, frames, net, decode, render, surface, acks, newest>>
    BY <1>3 DEF client_content_vars, server_vars, queue_vars, screen_vars
  <2>2. RenderOnly /\ render' = render
    BY <2>1 DEF RenderOnly, server_vars, queue_vars, screen_vars
  <2>3. NetOK
    BY <2>1, NetTypes DEF NetOK, ClientHolds
  <2> QED BY <2>1, <2>3, NetStep DEF ClientHolds, DrainedStage
<1> QED BY <1>1, <1>2, <1>3 DEF ContentNext

\* The client's invariant holds in every reachable state.
THEOREM ClientInvariant == ContentSpec => []ClientHolds
<1>1. ContentInit => ClientHolds
  BY ClientStarts
<1>2. ClientHolds /\ [ContentNext]_client_content_vars => ClientHolds'
  BY ClientStep
<1> QED BY <1>1, <1>2, PTL DEF ContentSpec

\* No video frame waits for presentation that does not fit the configuration applied
\* (publish_decoded_video_frame, upload_pending_video_texture): the size is checked
\* before the epoch, under different locks, and a resize between the two is caught by
\* the epoch.
THEOREM FramesAlwaysFit == ContentSpec => []FramesFit
<1>1. ClientHolds => FramesFit
  BY DEF ClientHolds, ClientInv
<1> QED BY <1>1, ClientInvariant, PTL

\* What the client acknowledges belongs to the configuration it applied
\* (client_reset_content_epoch, record_atomic_max): no pass that was under way when
\* a configuration was installed brings an old epoch back.
THEOREM AcksAlwaysCurrent == ContentSpec => []AcksCurrent
<1>1. ClientHolds => AcksCurrent
  BY DEF ClientHolds, ClientInv
<1> QED BY <1>1, ClientInvariant, PTL

\* A video frame is never presented after content of a newer epoch, whatever the receive
\* thread accepts between the fence's check (FrameCurrent) and SDL's presentation.
THEOREM VideoInOrder == ContentSpec => VideoNeverLate
<1>1. ClientHolds /\ [ContentNext]_client_content_vars =>
        [render.pc = "present" /\ render'.pc = "commit" /\ render.video_valid
           => surface.video.epoch >= newest]_client_content_vars
  <2> SUFFICES ASSUME ClientHolds, render.pc = "present", render.video_valid
               PROVE  surface.video.epoch >= newest
    OBVIOUS
  <2>1. surface.video.epoch \in Nat /\ newest \in Nat
    BY HeldTypes, Zenon DEF ClientHolds, DecodedFrame
  <2> QED BY <2>1 DEF ClientHolds, ClientInv, FrameShownNewest
<1> QED BY <1>1, ClientInvariant, PTL DEF ContentSpec, VideoNeverLate

-----------------------------------------------------------------------------
(* The server the client faces keeps the promise of DisplayOwnership.      *)

\* What DisplayOwnership sees of a queue of video messages.
Message(m) == [epoch |-> m.epoch, frame_id |-> m.frame_id]
Seen(q) == [i \in 1..Len(q) |-> [epoch |-> q[i].epoch, frame_id |-> q[i].frame_id]]

\* The view of a queue is a queue of the same length.
LEMMA SeenType ==
    ASSUME NEW q \in Seq(VideoMessage)
    PROVE  Seen(q) \in Seq([epoch : Nat, frame_id : Nat]) /\ Len(Seen(q)) = Len(q)
<1>1. Len(q) \in Nat /\ \A i \in 1..Len(q) : q[i] \in VideoMessage
  OBVIOUS
<1>2. Seen(q) \in [1..Len(q) -> [epoch : Nat, frame_id : Nat]] /\ DOMAIN Seen(q) = 1..Len(q)
  BY <1>1 DEF Seen, VideoMessage
<1> HIDE DEF Seen
<1>3. Seen(q) \in Seq([epoch : Nat, frame_id : Nat])
  <2>1. \E n \in Nat : Seen(q) \in [1..n -> [epoch : Nat, frame_id : Nat]]
    BY <1>1, <1>2, Zenon
  <2>2. Seq([epoch : Nat, frame_id : Nat]) = UNION {[1..n -> [epoch : Nat, frame_id : Nat]] : n \in Nat}
    BY SeqDef, Zenon
  <2> QED BY <2>1, <2>2, Zenon
<1> QED BY <1>1, <1>2, <1>3

\* The view of a queue shrinks and grows with the queue.
LEMMA SeenQueue ==
    ASSUME NEW q \in Seq(VideoMessage)
    PROVE  /\ Len(Seen(q)) = Len(q)
           /\ q = <<>> => Seen(q) = <<>>
           /\ q # <<>> => Seen(q) # <<>> /\ Seen(Tail(q)) = Tail(Seen(q))
           /\ \A m \in VideoMessage : Seen(Append(q, m)) = Append(Seen(q), Message(m))
<1>1. Seen(q) \in Seq([epoch : Nat, frame_id : Nat]) /\ Len(Seen(q)) = Len(q)
  BY SeenType
<1>2. q = <<>> => Seen(q) = <<>>
  BY <1>1
<1>3. ASSUME q # <<>> PROVE Seen(q) # <<>> /\ Seen(Tail(q)) = Tail(Seen(q))
  <2>1. Len(q) # 0 /\ Len(Tail(q)) = Len(q) - 1 /\ Tail(q) \in Seq(VideoMessage)
    BY <1>3
  <2>2. Seen(q) # <<>>
    BY <1>1, <2>1
  <2>3. \A i \in 1..Len(Tail(q)) : Tail(q)[i] = q[i + 1]
    BY <1>3
  <2>4. /\ Tail(Seen(q)) \in Seq([epoch : Nat, frame_id : Nat]) /\ Len(Tail(Seen(q))) = Len(q) - 1
        /\ \A i \in 1..Len(q) - 1 : Tail(Seen(q))[i] = Seen(q)[i + 1]
    BY <1>1, <2>2
  <2>5. Seen(Tail(q)) \in Seq([epoch : Nat, frame_id : Nat]) /\ Len(Seen(Tail(q))) = Len(q) - 1
    BY <2>1, SeenType, Zenon
  <2>6. \A i \in 1..Len(q) - 1 : Seen(Tail(q))[i] = Tail(Seen(q))[i]
    BY <2>1, <2>3, <2>4 DEF Seen
  <2> QED BY <2>2, <2>4, <2>5, <2>6, SeqEqual, Zenon
<1>4. ASSUME NEW m \in VideoMessage PROVE Seen(Append(q, m)) = Append(Seen(q), Message(m))
  <2>1. /\ Append(q, m) \in Seq(VideoMessage) /\ Len(Append(q, m)) = Len(q) + 1
        /\ \A i \in 1..Len(q) + 1 : Append(q, m)[i] = IF i = Len(q) + 1 THEN m ELSE q[i]
    OBVIOUS
  <2>2. Message(m) \in [epoch : Nat, frame_id : Nat]
    BY DEF Message, VideoMessage
  <2>3. /\ Append(Seen(q), Message(m)) \in Seq([epoch : Nat, frame_id : Nat])
        /\ Len(Append(Seen(q), Message(m))) = Len(q) + 1
        /\ \A i \in 1..Len(q) + 1 :
              Append(Seen(q), Message(m))[i] = IF i = Len(q) + 1 THEN Message(m) ELSE Seen(q)[i]
    BY <1>1, <2>2
  <2>4. Seen(Append(q, m)) \in Seq([epoch : Nat, frame_id : Nat]) /\ Len(Seen(Append(q, m))) = Len(q) + 1
    BY <2>1, SeenType, Zenon
  <2>5. \A i \in 1..Len(q) + 1 : Seen(Append(q, m))[i] = Append(Seen(q), Message(m))[i]
    BY <2>1, <2>3 DEF Seen, Message
  <2> QED BY <2>3, <2>4, <2>5, SeqEqual, Zenon
<1> QED BY <1>1, <1>2, <1>3, <1>4

\* The epoch moves as promised: never back, and with one owner for its whole life.
EpochKept ==
    /\ server'.epoch \in Nat /\ server'.epoch >= server.epoch
    /\ server'.epoch = server.epoch => server'.owner = server.owner

\* What of the stream may remain.
Rest == {stream, <<>>} \cup (IF stream = <<>> THEN {} ELSE {Tail(stream)})

\* What remains of the stream remains of its view.
LEMMA RestSeen == ASSUME ClientInv, NEW kept \in Rest
                  PROVE  Seen(kept) \in Promise!Remainders /\ kept \in Seq(VideoMessage)
<1>1. stream \in Seq(VideoMessage)
  BY ServerTypes
<1>2. /\ kept \in Seq(VideoMessage)
      /\ Seen(kept) \in {Seen(stream), <<>>}
                          \cup (IF Seen(stream) = <<>> THEN {} ELSE {Tail(Seen(stream))})
  <2>1. CASE kept = stream
    BY <1>1, <2>1
  <2>2. CASE kept = <<>>
    <3>1. <<>> \in Seq(VideoMessage)
      OBVIOUS
    <3> QED BY <2>2, <3>1, SeenQueue, Zenon
  <2>3. CASE stream # <<>> /\ kept = Tail(stream)
    <3>1. Tail(stream) \in Seq(VideoMessage)
      BY <1>1, <2>3
    <3>2. Seen(stream) # <<>> /\ Seen(Tail(stream)) = Tail(Seen(stream))
      BY <1>1, <2>3, SeenQueue
    <3> QED BY <2>3, <3>1, <3>2
  <2> QED BY <2>1, <2>2, <2>3 DEF Rest
<1>3. Promise!Remainders = {Seen(stream), <<>>}
         \cup (IF Seen(stream) = <<>> THEN {} ELSE {Tail(Seen(stream)), <<Head(Seen(stream))>>})
  BY Zenon DEF Promise!Remainders, Seen
<1> QED BY <1>2, <1>3

\* A step that leaves a rest of the stream keeps the promise.
LEMMA StreamShrinks ==
    ASSUME ClientInv, EpochKept, stream' \in Rest, last_frame' = last_frame
    PROVE  Promise!OwnershipNext
<1>1. Promise!EpochStep
  BY DEF Promise!EpochStep, EpochKept
<1>2. Seen(stream') \in Promise!Remainders
  BY RestSeen
<1> QED BY <1>1, <1>2 DEF Promise!OwnershipNext, Seen

\* A step that puts a message of the epoch's owner behind a rest of the stream keeps the
\* promise.
LEMMA StreamGrows ==
    ASSUME ClientInv, EpochKept, NEW kept \in Rest, NEW m \in VideoMessage,
           stream' = Append(kept, m), m.epoch = server'.epoch,
           (server'.owner = "VIDEO") <=> (m.frame_id # 0),
           IF m.frame_id = 0 THEN last_frame' = last_frame
           ELSE last_frame' = Message(m) /\ Promise!Follows(Message(m), last_frame)
    PROVE  Promise!OwnershipNext
<1>1. Promise!EpochStep
  BY DEF Promise!EpochStep, EpochKept
<1>2. Seen(kept) \in Promise!Remainders /\ kept \in Seq(VideoMessage)
  BY RestSeen
<1>3. Seen(stream') = Append(Seen(kept), Message(m)) /\ Len(Seen(kept)) = Len(kept)
  BY <1>2, SeenQueue
<1>4. Seen(kept) \in Seq([epoch : Nat, frame_id : Nat])
  BY <1>2, SeenType
<1>5. Message(m) \in Promise!Frame /\ Message(m).epoch = m.epoch /\ Message(m).frame_id = m.frame_id
  BY DEF Message, VideoMessage, Promise!Frame
<1>6. Len(Seen(stream')) = Len(Seen(kept)) + 1 /\ Seen(stream')[Len(Seen(stream'))] = Message(m)
  BY <1>3, <1>4, <1>5 DEF Promise!Frame
<1>7. Promise!FrameQueued(Seen(kept), Seen(stream')[Len(Seen(stream'))])
  BY <1>3, <1>5, <1>6, Zenon DEF Promise!FrameQueued, Seen
<1>8. \E k \in Promise!Remainders :
         /\ Len(Seen(stream')) = Len(k) + 1
         /\ Promise!FrameQueued(k, Seen(stream')[Len(Seen(stream'))])
  BY <1>2, <1>6, <1>7, Zenon
<1> QED BY <1>1, <1>8, Zenon DEF Promise!OwnershipNext, Seen

\* A step that leaves the server and its stream alone, or takes messages off the stream,
\* keeps the promise.
LEMMA ServerIdle ==
    ASSUME ClientInv, server'.epoch = server.epoch, server'.owner = server.owner,
           stream' \in Rest, last_frame' = last_frame
    PROVE  Promise!OwnershipNext
<1>1. EpochKept
  BY ServerTypes DEF EpochKept
<1> QED BY <1>1, StreamShrinks

\* A new tile epoch is announced behind a rest of the stream, or the announcement is
\* refused.
LEMMA EndOfStreamPromise ==
    ASSUME ClientInv, NEW e \in Nat, NEW c \in Nat, EndOfStream(e, c), e > server.epoch,
           server'.epoch = e, server'.owner = "TILES", last_frame' = last_frame
    PROVE  Promise!OwnershipNext
<1> DEFINE m == [epoch |-> e, frame_id |-> 0, config |-> c]
<1>1. m \in VideoMessage /\ m.frame_id = 0 /\ m.epoch = e
  BY DEF VideoMessage
<1>2. PICK kept \in {stream, <<>>} : stream' = kept \/ stream' = Append(kept, m)
  BY Zenon DEF EndOfStream
<1> HIDE DEF m
<1>3. kept \in Rest
  BY DEF Rest
<1>4. EpochKept
  BY ServerTypes DEF EpochKept
<1>5. CASE stream' = kept
  <2>1. stream' \in Rest
    BY <1>3, <1>5, Zenon
  <2> QED BY <1>4, <2>1, StreamShrinks
<1>6. CASE stream' = Append(kept, m)
  BY <1>1, <1>3, <1>4, <1>6, StreamGrows
<1> QED BY <1>2, <1>5, <1>6

\* A video frame carries the server's epoch and an id above the last frame's.
LEMMA SendFramePromise == ASSUME ClientInv, SendFrame PROVE Promise!OwnershipNext
<1> DEFINE id == IF last_frame.epoch = server.epoch THEN last_frame.frame_id + 1 ELSE 1
           m == [epoch |-> server.epoch, frame_id |-> id, config |-> server.config]
<1>1. /\ server.owner = "VIDEO" /\ stream' = Append(stream, m) /\ server' = server
      /\ last_frame' = [epoch |-> server.epoch, frame_id |-> id]
  BY DEF SendFrame
<1>2. id \in Nat /\ id # 0 /\ (last_frame.epoch = server.epoch => id > last_frame.frame_id)
  BY ServerTypes
<1>3. /\ m \in VideoMessage /\ m.epoch = server.epoch /\ m.frame_id = id
      /\ Message(m) = [epoch |-> server.epoch, frame_id |-> id]
  BY <1>2, ServerTypes, Zenon DEF VideoMessage, Message
<1> HIDE DEF id, m
<1>4. Promise!Follows(Message(m), last_frame)
  BY <1>2, <1>3, ServerTypes DEF Promise!Follows
<1>5. EpochKept
  BY <1>1, ServerTypes DEF EpochKept
<1>6. stream \in Rest
  BY DEF Rest
<1> QED BY <1>1, <1>2, <1>3, <1>4, <1>5, <1>6, StreamGrows

\* Every step of the server keeps the promise.
LEMMA ServerPromise == ASSUME ClientInv, ServerNext PROVE Promise!OwnershipNext
<1>1. server \in Server /\ server.epoch \in Nat /\ server.config \in Nat
  BY ServerTypes
<1>2. ASSUME NEW rect \in server.scenario.rects, SendTile(rect) PROVE Promise!OwnershipNext
  <2>1. server'.epoch = server.epoch /\ server'.owner = server.owner /\ stream' = stream
        /\ last_frame' = last_frame
    BY <1>1, <1>2 DEF SendTile, Server
  <2> QED BY <2>1, ServerIdle DEF Rest
<1>3. CASE BeginVideo
  <2>1. server'.epoch = server.epoch + 1 /\ stream' = stream /\ last_frame' = last_frame
    BY <1>1, <1>3 DEF BeginVideo, Server
  <2>2. EpochKept
    BY <1>1, <2>1 DEF EpochKept
  <2> QED BY <2>1, <2>2, StreamShrinks DEF Rest
<1>4. CASE SendFrame
  BY <1>4, SendFramePromise
<1>5. CASE EndVideo
  <2>1. /\ server'.epoch = server.epoch + 1 /\ server'.owner = "TILES" /\ last_frame' = last_frame
        /\ EndOfStream(server.epoch + 1, server.config)
    BY <1>1, <1>5 DEF EndVideo, Server
  <2>2. server.epoch + 1 \in Nat /\ server.epoch + 1 > server.epoch
    BY <1>1
  <2> QED BY <1>1, <2>1, <2>2, EndOfStreamPromise
<1>6. CASE Resize
  <2>1. /\ server'.epoch = server.epoch + 1 /\ server'.owner = "TILES" /\ last_frame' = last_frame
        /\ EndOfStream(server.epoch + 1, server.config + 1)
    BY <1>1, <1>6 DEF Resize, Server
  <2>2. server.epoch + 1 \in Nat /\ server.epoch + 1 > server.epoch /\ server.config + 1 \in Nat
    BY <1>1
  <2> QED BY <1>1, <2>1, <2>2, EndOfStreamPromise
<1>7. CASE CloseVideoChannel
  <2>1. /\ server'.epoch = server.epoch /\ server'.owner = server.owner /\ last_frame' = last_frame
        /\ stream' \in {stream, <<>>}
    BY <1>1, <1>7 DEF CloseVideoChannel, Server
  <2> QED BY <2>1, ServerIdle DEF Rest
<1> QED BY <1>2, <1>3, <1>4, <1>5, <1>6, <1>7 DEF ServerNext

\* Every step of the client's threads keeps the promise.
LEMMA ThreadsPromise ==
    ASSUME ClientInv, NetNext \/ DecodeNext \/ RenderNext PROVE Promise!OwnershipNext
<1>1. server \in Server
  BY ServerTypes
<1>2. CASE NetNext
  <2>1. CASE CloseVideoReceive
    <3>1. /\ server'.epoch = server.epoch /\ server'.owner = server.owner
          /\ stream' = <<>> /\ last_frame' = last_frame
      BY <1>1, <2>1 DEF CloseVideoReceive, Server
    <3> QED BY <3>1, ServerIdle DEF Rest
  <2>2. CASE ReceiveConfig
    <3>1. /\ server'.epoch = server.epoch /\ server'.owner = server.owner
          /\ stream' = stream /\ last_frame' = last_frame
      BY <1>1, <2>2 DEF ReceiveConfig, Server
    <3> QED BY <3>1, ServerIdle DEF Rest
  <2>3. ASSUME ~CloseVideoReceive, ~ReceiveConfig PROVE UNCHANGED <<server, stream, last_frame>>
    BY <1>2, <2>3 DEF NetNext, ReceiveTile, PushTile, BlitTile, MarkDirty, MarkGenerations, MarkTelemetry,
       server_vars
  <2> QED BY <2>1, <2>2, <2>3, ServerIdle DEF Rest
<1>3. CASE DecodeNext
  <2>1. UNCHANGED <<server, last_frame>> /\ stream' \in Rest
    BY <1>3 DEF DecodeNext, TakeVideoMessage, CheckFrameSize, PublishFrame, server_vars, Rest
  <2> QED BY <2>1, ServerIdle
<1>4. CASE RenderNext
  <2>1. CASE ResetForConfig
    <3>1. /\ server'.epoch = server.epoch /\ server'.owner = server.owner
          /\ stream' = stream /\ last_frame' = last_frame
      BY <1>1, <2>1 DEF ResetForConfig, Server
    <3> QED BY <3>1, ServerIdle DEF Rest
  <2>2. ASSUME ~ResetForConfig PROVE UNCHANGED <<server, stream, last_frame>>
    <3>1. SwapConfig => UNCHANGED <<server, stream, last_frame>>
      BY Zenon DEF SwapConfig, server_vars
    <3>2. BeginPass => UNCHANGED <<server, stream, last_frame>>
      BY Zenon DEF BeginPass, RenderOnly, server_vars
    <3>3. SnapshotVideoEpoch => UNCHANGED <<server, stream, last_frame>>
      BY Zenon DEF SnapshotVideoEpoch, RenderOnly, server_vars
    <3>4. PopFrame => UNCHANGED <<server, stream, last_frame>>
      BY Zenon DEF PopFrame, server_vars
    <3>5. CheckFrame => UNCHANGED <<server, stream, last_frame>>
      BY Zenon DEF CheckFrame, RenderOnly, server_vars
    <3>6. UploadFrame => UNCHANGED <<server, stream, last_frame>>
      BY Zenon DEF UploadFrame, server_vars
    <3>7. SnapshotOwnership => UNCHANGED <<server, stream, last_frame>>
      BY Zenon DEF SnapshotOwnership, RenderOnly, server_vars
    <3>8. CheckComplete => UNCHANGED <<server, stream, last_frame>>
      BY Zenon DEF CheckComplete, RenderOnly, server_vars
    <3>9. DrainUploads => UNCHANGED <<server, stream, last_frame>>
      BY Zenon DEF DrainUploads, server_vars
    <3>10. SnapshotDirect => UNCHANGED <<server, stream, last_frame>>
      BY Zenon DEF SnapshotDirect, RenderOnly, server_vars
    <3>11. ApplyUpload => UNCHANGED <<server, stream, last_frame>>
      BY Zenon DEF ApplyUpload, server_vars
    <3>12. SnapshotDrawn => UNCHANGED <<server, stream, last_frame>>
      BY Zenon DEF SnapshotDrawn, RenderOnly, server_vars
    <3>13. ClaimDrawn => UNCHANGED <<server, stream, last_frame>>
      BY Zenon DEF ClaimDrawn, server_vars
    <3>14. TakeDirty => UNCHANGED <<server, stream, last_frame>>
      BY Zenon DEF TakeDirty, server_vars
    <3>15. PlanUpload => UNCHANGED <<server, stream, last_frame>>
      BY Zenon DEF PlanUpload, server_vars
    <3>16. ClaimUploaded => UNCHANGED <<server, stream, last_frame>>
      BY Zenon DEF ClaimUploaded, server_vars
    <3>17. ClearDirty => UNCHANGED <<server, stream, last_frame>>
      BY Zenon DEF ClearDirty, server_vars
    <3>18. CopyFramebuffer => UNCHANGED <<server, stream, last_frame>>
      BY Zenon DEF CopyFramebuffer, server_vars
    <3>19. CheckUpload => UNCHANGED <<server, stream, last_frame>>
      BY Zenon DEF CheckUpload, server_vars
    <3>20. RequeueUpdates => UNCHANGED <<server, stream, last_frame>>
      BY Zenon DEF RequeueUpdates, server_vars
    <3>21. SnapshotTelemetryEpoch => UNCHANGED <<server, stream, last_frame>>
      BY Zenon DEF SnapshotTelemetryEpoch, RenderOnly, server_vars
    <3>22. ClaimTelemetry => UNCHANGED <<server, stream, last_frame>>
      BY Zenon DEF ClaimTelemetry, RenderOnly, server_vars
    <3>23. Present => UNCHANGED <<server, stream, last_frame>>
      BY Zenon DEF Present, server_vars
    <3>24. CommitPresent => UNCHANGED <<server, stream, last_frame>>
      BY Zenon DEF CommitPresent, server_vars
    <3> QED BY <1>4, <2>2, <3>1, <3>2, <3>3, <3>4, <3>5, <3>6, <3>7, <3>8, <3>9, <3>10, <3>11, <3>12,
               <3>13, <3>14, <3>15, <3>16, <3>17, <3>18, <3>19, <3>20, <3>21, <3>22, <3>23, <3>24 DEF RenderNext
  <2> QED BY <2>1, <2>2, ServerIdle DEF Rest
<1> QED BY <1>2, <1>3, <1>4

\* The server that the client's model talks to takes no step that DisplayOwnership
\* does not allow: the refinement, step by step.  What the streaming pipeline is proved
\* to implement is what the client is proved against.
THEOREM ServerKeepsPromise == ContentSpec => ServerAsPromised
<1>1. ClientHolds /\ [ContentNext]_client_content_vars => [Promise!OwnershipNext]_(Promise!ownership_vars)
  <2> SUFFICES ASSUME ClientHolds, [ContentNext]_client_content_vars
               PROVE  [Promise!OwnershipNext]_(Promise!ownership_vars)
    OBVIOUS
  <2>1. CASE ContentNext
    BY <2>1, ServerPromise, ThreadsPromise DEF ContentNext, ClientHolds
  <2>2. CASE UNCHANGED client_content_vars
    BY <2>2 DEF client_content_vars, server_vars, Promise!ownership_vars
  <2> QED BY <2>1, <2>2
<1> QED BY <1>1, ClientInvariant, PTL DEF ContentSpec, ServerAsPromised

=============================================================================
