----------------------------- MODULE MCChannels -----------------------------
(***************************************************************************)
(* The server's two asynchronous senders, TCP and UDP, and the two ends of *)
(* the sound, each in behaviours of its own.  part says which of the four  *)
(* a behaviour is about; the others stay as they were created.  TCP        *)
(* message types and sockets are told apart only by equality, so their     *)
(* permutations are symmetries.                                            *)
(***************************************************************************)
EXTENDS AsyncTcp, AsyncUdp, AudioStream, AudioPlayback, TLC

\* One session with odd chunks, or with a failure; two sessions with a failure
\* and a callback of the first left over in the second.
MCAudioScenarios ==
    {[chunks |-> 4, odd |-> 2, faults |-> 0, starts |-> 1],
     [chunks |-> 5, odd |-> 0, faults |-> 1, starts |-> 1],
     [chunks |-> 2, odd |-> 0, faults |-> 1, starts |-> 2]}

\* Packets enough to overfill the output, with failures; or marked ones while
\* time passes.
MCPlayScenarios ==
    {[packets |-> 5, marks |-> 1, faults |-> 1, ticks |-> 0],
     [packets |-> 4, marks |-> 2, faults |-> 0, ticks |-> 3]}

VARIABLE part

channel_vars == <<part, vars, udpVars, audio_vars, play_vars>>

\* The scenarios of the two ends of the sound are told apart in their own
\* parts only.
ChannelsInit ==
    /\ part \in {"tcp", "udp", "sound", "playback"}
    /\ Init
    /\ UdpInit
    /\ AudioInit
    /\ part # "sound" => graph.odd > 0
    /\ PlayInit
    /\ part # "playback" => feed.faults > 0

\* The last session is over and the stream is stopped: only here may the
\* server's sound come to rest, so that a stop that waits for ever is a deadlock.
SoundOver ==
    /\ part = "sound" /\ ctl = "off" /\ graph.starts = 0
    /\ UNCHANGED channel_vars

ChannelsNext ==
    /\ UNCHANGED part
    /\ \/ part = "tcp" /\ Next /\ UNCHANGED <<udpVars, audio_vars, play_vars>>
       \/ part = "udp" /\ UdpNext /\ UNCHANGED <<vars, audio_vars, play_vars>>
       \/ part = "sound" /\ AudioNext /\ UNCHANGED <<vars, udpVars, play_vars>>
       \/ SoundOver
       \/ part = "playback" /\ PlayNext /\ UNCHANGED <<vars, udpVars, audio_vars>>

ChannelsSpec == ChannelsInit /\ [][ChannelsNext]_channel_vars

Symmetry == Permutations(Types) \cup Permutations(Sockets)

=============================================================================
