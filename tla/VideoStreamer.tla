---------------------------- MODULE VideoStreamer ---------------------------
(***************************************************************************)
(* VideoStreamer (video-streamer.cpp): frames and ready-made H.264 chunks  *)
(* pushed by the application are latched by a timer that ticks 59.94 times *)
(* a second, encoded, cut into packets and sent on the next tick, each     *)
(* frame announced by a packet on the audio channel.  ResyncStream, called *)
(* when the GamePad reports a loss, asks for an IDR frame.                 *)
(*                                                                         *)
(* The encoder is external: Encode(frame, idr) gives chunks of any size,   *)
(* and an IDR frame exactly when asked for one.                            *)
(***************************************************************************)
EXTENDS VstrmPackets

CONSTANTS
    MaxPushes,      \* bound: frames the application pushes
    EncodedSizes,   \* chunk sizes the encoder may produce
    ChunkPushes,    \* what the application may push as H.264 chunks
    TimestampMod,   \* timestamps are 32 bits of the TSF counter, signed
    Period,         \* of the frames, in units of the TSF counter (16683)
    MinDelay,       \* the shortest delay the timer is armed with (1000)
    BusyTimes,      \* how long a tick may take, late wake-ups included
    MaxBehind,      \* bound: how far the ticks may fall behind
    NoChunks,       \* no chunks (an empty vector)
    FrameRates      \* what SetFrameRate may be called with

ASSUME StreamerAssumption ==
    /\ MaxPushes \in Nat
    /\ {Period, MinDelay} \subseteq Nat \ {0} /\ TimestampMod \in Nat \ {0, 1}
    /\ BusyTimes \subseteq Nat
    /\ MinDelay <= Period /\ Period < TimestampMod \div 2
    /\ MaxBehind \in 0 .. TimestampMod \div 2 - 1
    /\ \A s \in EncodedSizes : s \in [1 .. NumChunks -> Nat]
    /\ \A c \in ChunkPushes : c.sizes \in Seq(Nat) /\ c.idr \in BOOLEAN
    /\ NoChunks \notin ChunkPushes
    /\ FrameRates \subseteq VideoFrameRate

VARIABLES
    evtUp,         \* resync_evt_ is set: the thread has run InitEventsAndRun
    trig,          \* the resync event has been triggered and not handled
    frame_,        \* the pushed frame that was not latched yet, 0 for none
    h264_chunks_,  \* the same for chunks
    frame_rate_,   \* k59_94Hz (0) at first
    frame,         \* encoding_frame: the latched frame, 0 for none
    chunks,        \* h264_chunks: the latched chunks
    inited,        \* vstrm_inited
    seqid,         \* vstrm_seqid
    packets,       \* vstrm_packets, to be sent on the next tick
    astrm,         \* the timestamp in astrm_packet
    resync,        \* resync_requested
    sendIdr,       \* send_idr
    now,           \* the TSF counter when the timer expires
    next_timestamp, \* when the next frame is due
    delay,         \* delta_next: what the timer was last armed with
    queued,        \* history: what packets holds, whether that is an IDR, its rate
    sent,          \* history: what was sent by the last tick
    padSeq,        \* history: the sequence id the GamePad expects
    frames,        \* history: frames sent so far, up to 2
    owed,          \* history: ResyncStream was called, no IDR was sent since
    pushes         \* frames pushed so far

pushVars   == <<frame_, h264_chunks_, pushes, frame_rate_>>
latchVars  == <<frame, chunks>>
streamVars == <<inited, seqid, packets, astrm, sendIdr, queued>>
padVars    == <<sent, padSeq, frames>>
timeVars   == <<now, next_timestamp, delay>>
vars == <<evtUp, trig, resync, owed, timeVars, pushVars, latchVars, streamVars, padVars>>

Content(source, fr, idr) ==
    [source |-> source, frame |-> fr, idr |-> idr, total |-> 0, rate |-> 0]
Nothing == Content("none", 0, FALSE)

Init ==
    /\ evtUp = FALSE /\ trig = FALSE /\ resync = FALSE /\ owed = FALSE
    /\ now = 0 /\ next_timestamp = 0 /\ delay = MinDelay
    /\ frame_ = 0 /\ h264_chunks_ = NoChunks /\ pushes = 0 /\ frame_rate_ = 0
    /\ frame = 0 /\ chunks = NoChunks
    /\ inited = FALSE /\ seqid = 0 /\ packets = <<>> /\ astrm = 0
    /\ sendIdr = FALSE /\ queued = Nothing
    /\ sent = 0 /\ padSeq = 0 /\ frames = 0

-----------------------------------------------------------------------------
\* The application's threads (under frame_mutex_).
PushFrame ==
    /\ pushes < MaxPushes
    /\ pushes' = pushes + 1
    /\ frame_' = pushes + 1
    /\ UNCHANGED <<evtUp, trig, resync, owed, timeVars, h264_chunks_, frame_rate_,
                   latchVars, streamVars, padVars>>

\* The application's own stream: an IDR or not, as it likes.
PushH264Chunks(c) ==
    /\ h264_chunks_' = c
    /\ UNCHANGED <<evtUp, trig, resync, owed, timeVars, frame_, pushes, frame_rate_,
                   latchVars, streamVars, padVars>>

\* Written without the lock, and read by the streamer's thread.
SetRate(rate) ==
    /\ frame_rate_' = rate
    /\ UNCHANGED <<evtUp, trig, resync, owed, timeVars, frame_, h264_chunks_, pushes,
                   latchVars, streamVars, padVars>>

\* Called on the thread of the message server.  Until the streamer's own
\* thread has created the event, there is nothing to trigger.
ResyncStream ==
    /\ trig' = (trig \/ evtUp)
    /\ owed' = TRUE
    /\ UNCHANGED <<evtUp, resync, timeVars, pushVars, latchVars, streamVars, padVars>>

-----------------------------------------------------------------------------
\* The streamer's thread.
InitEvents ==
    /\ ~evtUp
    /\ evtUp' = TRUE
    /\ UNCHANGED <<trig, resync, owed, timeVars, pushVars, latchVars, streamVars, padVars>>

ResyncEvent ==
    /\ trig
    /\ trig' = FALSE
    /\ resync' = TRUE
    /\ UNCHANGED <<evtUp, owed, timeVars, pushVars, latchVars, streamVars, padVars>>

\* A difference of two timestamps, as an s32.
Signed(d) ==
    LET r == d % TimestampMod
    IN  IF r < TimestampMod \div 2 THEN r ELSE r - TimestampMod

\* The delay until the next tick, from the timestamps of now and then.
DeltaNextUnwrapped(then, after) ==               \* 64 bit arithmetic
    IF then - after < MinDelay THEN MinDelay ELSE then - after
DeltaNext(then, after) ==
    LET delta == Signed(then - after)
    IN  IF delta < MinDelay THEN MinDelay ELSE delta

\* The end of a tick that took busy, and the time until the timer expires again.
\* MaxBehind keeps the ticks from falling behind by half the range.
TimerFires(busy) ==
    /\ evtUp
    /\ next_timestamp' = (next_timestamp + Period) % TimestampMod
    /\ delay' = DeltaNext(next_timestamp', (now + busy) % TimestampMod)
    /\ Signed(now - next_timestamp) + busy + delay' - Period <= MaxBehind
    /\ now' = (now + busy + delay') % TimestampMod

\* First part of a tick: what the previous tick generated is sent.
SendQueued ==
    IF inited
    THEN /\ sent' = queued.frame
         /\ padSeq' = (padSeq + Len(packets)) % VstrmIds
         /\ frames' = IF frames < 2 THEN frames + 1 ELSE 2
         /\ owed' = (owed /\ ~queued.idr)
    ELSE UNCHANGED <<padVars, owed>>

\* An IDR that has just gone out answers a request that came after it was made.
ResyncAfterSendEager == resync /\ ~inited          \* whatever was sent
ResyncAfterSend == resync /\ ~(inited /\ sendIdr)

\* Second part: latch what was pushed; what was latched before is kept when
\* there is nothing new.
LatchOnce(pushed, none, latched) == IF latched # none THEN latched ELSE pushed
Latch(pushed, none, latched) == IF pushed # none THEN pushed ELSE latched

LatchOnCurrent ==
    /\ chunks' = Latch(h264_chunks_, NoChunks, chunks)
    /\ frame' = Latch(frame_, 0, frame)
    /\ h264_chunks_' = NoChunks
    /\ frame_' = 0
    /\ UNCHANGED <<pushes, frame_rate_>>

\* The init flag of a frame's packets.
InitFlag == ~inited

\* The timestamp of the announcement of a frame.
Announced(ts) == ts

\* Third part: encode, and generate the packets of the frame.
Generate(sizes, content) ==
    LET idr == ResyncAfterSend \/ ~inited
        gen == GenerateVstrmPackets(sizes, now, idr, InitFlag, seqid, frame_rate_)
    IN  /\ sendIdr' = idr
        /\ packets' = gen.packets
        /\ seqid' = gen.seqid
        /\ astrm' = Announced(now)
        /\ inited' = TRUE
        /\ resync' = FALSE
        /\ queued' = [content EXCEPT !.total = SumFunction(sizes), !.rate = frame_rate_,
                                     !.idr = IF content.source = "chunks" THEN @ ELSE idr]

TickChunks ==
    /\ \E busy \in BusyTimes : TimerFires(busy)
    /\ SendQueued
    /\ LatchOnCurrent
    /\ chunks' # NoChunks
    /\ Generate(AsChunkArray(chunks'.sizes), Content("chunks", 0, chunks'.idr))
    /\ UNCHANGED <<evtUp, trig>>

TickFrame ==
    /\ \E busy \in BusyTimes : TimerFires(busy)
    /\ SendQueued
    /\ LatchOnCurrent
    /\ chunks' = NoChunks
    /\ frame' # 0
    /\ \E sizes \in EncodedSizes : Generate(sizes, Content("frame", frame', FALSE))
    /\ UNCHANGED <<evtUp, trig>>

TickNothing ==
    /\ \E busy \in BusyTimes : TimerFires(busy)
    /\ ~inited                  \* what was latched once stays latched
    /\ LatchOnCurrent
    /\ chunks' = NoChunks /\ frame' = 0
    /\ UNCHANGED <<evtUp, trig, resync, owed, streamVars, padVars>>

Tick == TickChunks \/ TickFrame \/ TickNothing

Next ==
    \/ PushFrame
    \/ \E c \in ChunkPushes : PushH264Chunks(c)
    \/ \E rate \in FrameRates : SetRate(rate)
    \/ ResyncStream
    \/ InitEvents \/ ResyncEvent \/ Tick

Spec == Init /\ [][Next]_vars

\* The streamer's thread runs; its timer is rearmed at every tick (nothing but
\* Tick changes now), and the resync event is handled in the batch in which
\* epoll reports it.
FairSpec ==
    /\ Spec
    /\ WF_vars(InitEvents) /\ WF_vars(ResyncEvent)
    /\ WF_now(\E busy \in BusyTimes : TimerFires(busy))

-----------------------------------------------------------------------------
\* Sequence ids stay below their range, timestamps in theirs; 0 is no frame.
TypeOK ==
    /\ {evtUp, trig, resync, owed, inited, sendIdr} \subseteq BOOLEAN
    /\ seqid \in 0 .. VstrmIds - 1 /\ padSeq \in 0 .. VstrmIds - 1
    /\ {now, next_timestamp} \subseteq 0 .. TimestampMod - 1
    /\ {frame_, frame} \subseteq 0 .. MaxPushes

\* The timer is armed for at least MinDelay and at most one period, also where
\* one of the two timestamps has wrapped round and the other has not, and after
\* ticks that took too long.  A delay that comes out wrong stops the stream for
\* half the range of the counter, which is 36 minutes.
PaceKept == delay \in MinDelay .. Period

\* The packets that wait to be sent make up one whole frame.
FrameReassembles == inited => Reassembles(packets, queued.total)

\* The GamePad sees no gap in the sequence ids, across frames and where the
\* ids start again from 0: a gap is how it detects losses.
NoSequenceGap ==
    /\ \A k \in 1 .. Len(packets) : packets[k].seqid = (padSeq + k - 1) % VstrmIds
    /\ seqid = (padSeq + Len(packets)) % VstrmIds

\* The GamePad reads from every packet what was meant: the timestamp that was
\* announced for its frame, init on the first frame ever and on no other, the
\* frame rate, and, for frames the streamer has encoded, whether it is an IDR.
\* A frame rate of 0 looks like the end of the options to the next one set.
HeadersDecode ==
    /\ \A k \in 1 .. Len(packets) : /\ packets[k].pkt.timestamp = astrm
                                    /\ packets[k].pkt.init <=> frames = 0
    /\ \A ext \in {packets[k].pkt.ext : k \in 1 .. Len(packets)} :
         LET options == Decoded(ext)
         IN  /\ options \ {<<OptIdr, 0>>} =
                  {<<OptForce, 0>>, <<OptRows, 6>>} \cup
                  (IF queued.rate = kUnknown THEN {} ELSE {<<OptRate, queued.rate>>})
             /\ queued.source = "frame" => (queued.idr <=> <<OptIdr, 0>> \in options)

\* What there is to show, and chunks of the application that are no IDR.
Latched  == chunks # NoChunks \/ frame # 0
Pushed   == h264_chunks_ # NoChunks \/ frame_ # 0
OwnNoIdr == chunks # NoChunks /\ ~chunks.idr

\* "Require an IDR to be sent next": once there is something to show, a request
\* is followed by an IDR, wherever it falls between the making of an IDR and its
\* sending.  Chunks of the application are not encoded again, and sending them
\* drops the request (video-streamer.cpp:229-242): it is left without an answer
\* if what the application has latched is not an IDR.
ResyncAnswered == (owed /\ (Pushed \/ Latched)) ~> (~owed \/ OwnNoIdr)

\* The newest frame that was pushed is what ends up on the GamePad, if the
\* application pushes frames only: chunks, once latched, are sent for ever.
NewestFrameShown ==
    [](h264_chunks_ = NoChunks) =>
        \A n \in 1 .. MaxPushes :
            (pushes = n) ~> (sent = n \/ pushes # n)
=============================================================================
