-------------------------------- MODULE Frames --------------------------------
(***************************************************************************)
(* sdr_callback() of src/rtl433/src/rtl_433.c around the package detector: *)
(* the ages of the frame that is tracked, the squelch, the sample grabber  *)
(* and the end of an input file.                                           *)
(*                                                                         *)
(* The detector is what PulseDetect shows it to be: it emits packages with *)
(* start_ago and end_ago exact for the buffers it has seen. Positions are  *)
(* numbers of samples since the start.                                     *)
(*                                                                         *)
(* Left out: the levels behind the squelch decision, dumps, the limits on  *)
(* bytes and time, hopping (DesktopSession), a buffer too short to hold a  *)
(* sample, a file that cannot be opened.                                   *)
(***************************************************************************)
EXTENDS SampGrab

CONSTANTS SampleSize,   \* sample_size, bytes of a sample
          PadDivisor,   \* a frame is padded by this part of a buffer: 8
          BufferLens,   \* n_samples of the buffers
          CallLen,      \* n_samples of the cleared buffer after a file
          Modes,        \* grab_mode: 0 off, 1 all, 2 unknown, 3 known
          Marks,        \* the samples a package may begin or end at
          MaxSamples    \* bound: samples in a behaviour

ASSUME FramesAssumption ==
    /\ {SampleSize, PadDivisor, CallLen} \subseteq Nat \ {0}
    /\ BufferLens \subseteq Nat \ {0} /\ CallLen \in BufferLens
    /\ Modes \subseteq 0..3
    /\ Marks \subseteq Nat /\ MaxSamples \in Nat
    \* SIGNAL_GRABBER_BUFFER holds a frame's distance to the newest sample
    /\ \A m \in BufferLens, n \in BufferLens : SampleSize * (m + n) <= RingSize

VARIABLES
    mode, squelch,  \* the configuration
    phase,          \* where sdr_callback() stands
    n,              \* n_samples
    noiseOnly,      \* noise_only
    cleared,        \* the buffer is the one behind the end of a file
    seen,           \* samples received
    left,           \* bytes of the buffer not yet in the ring
    grab,           \* samp_grab
    frameStart,     \* frame_start_ago
    frameEnd,       \* frame_end_ago
    eventCount,     \* frame_event_count
    dEvents,        \* d_events
    open,           \* detector: where the package being received began, or None
    missed,         \* samples since then that the detector has not seen
    free,           \* the first sample of the buffer behind its last package
    signals,        \* history: the packages since the last frame ended
    file            \* the file written last

detector == <<open, missed, free>>
frame == <<frameStart, frameEnd, eventCount>>
config == <<mode, squelch>>
vars == <<config, phase, n, noiseOnly, cleared, seen, left, grab, frame, dEvents,
          detector, signals, file>>

None == -1
NoSignals == [any |-> FALSE, from |-> 0, to |-> 0, known |-> FALSE]
NoFile == [start |-> 0, wlen |-> 0, wrest |-> 0, fits |-> FALSE]

Init ==
    /\ mode \in Modes /\ squelch \in BOOLEAN
    /\ phase = "wait"
    /\ n = 0 /\ noiseOnly = FALSE /\ cleared = FALSE
    /\ seen = 0 /\ left = 0
    /\ grab = NewGrab
    /\ frameStart = 0 /\ frameEnd = 0 /\ eventCount = 0 /\ dEvents = 0
    /\ open = None /\ missed = 0 /\ free = 0
    /\ signals = NoSignals
    /\ file = NoFile

Grabbing == mode # 0
ProcessFrame == ~squelch \/ ~noiseOnly \/ Grabbing

-----------------------------------------------------------------------------
(* A buffer arrives.                                                        *)

NotAged(ago, k) == ago  \* mutant
\* "age the frame position if there is one"
Aged(ago, k) == IF ago = 0 THEN 0 ELSE ago + k

Buffer(k, noise) ==
    /\ phase = "wait" /\ ~cleared
    /\ seen + k <= MaxSamples
    /\ n' = k /\ noiseOnly' = noise
    /\ seen' = seen + k
    /\ frameStart' = Aged(frameStart, k)
    /\ frameEnd' = Aged(frameEnd, k)
    /\ dEvents' = 0
    /\ free' = seen
    /\ file' = NoFile
    /\ IF Grabbing
       THEN /\ phase' = "push"
            /\ left' = SampleSize * k
            /\ grab' = Counted(grab, left')
       ELSE phase' = "detect" /\ UNCHANGED <<left, grab>>
    /\ UNCHANGED <<config, eventCount, open, missed, signals>>

Receive(k, noise) == Buffer(k, noise) /\ cleared' = FALSE

\* "Call a last time with cleared samples to ensure EOP detection"
EndOfFile == Buffer(CallLen, TRUE) /\ cleared' = TRUE

\* A turn of the loop in samp_grab_push().
Push ==
    /\ phase = "push" /\ left > 0
    /\ LET m == Chunk(grab, left)
       IN  /\ grab' = Stored(grab, m, SampleSize * seen - left)
           /\ left' = left - m
    /\ UNCHANGED <<config, phase, n, noiseOnly, cleared, seen, frame, dEvents,
                   detector, signals, file>>

Pushed ==
    /\ phase = "push" /\ left = 0
    /\ phase' = "detect"
    /\ UNCHANGED <<config, n, noiseOnly, cleared, seen, left, grab, frame,
                   dEvents, detector, signals, file>>

-----------------------------------------------------------------------------
(* The loop over the packages.                                              *)

\* The samples of this buffer that do not come before the end of a package.
Fresh == {s \in free..seen - 1 : s \in Marks}

\* A package from sample s up to sample e; found when a decoder knows it.
Package(s, e, found) ==
    /\ phase = "detect" /\ ProcessFrame
    /\ IF open # None THEN s = open ELSE ~cleared /\ s \in Fresh
    /\ e \in Fresh /\ s < e
    /\ frameStart' = IF frameStart = 0
                     THEN seen - s - (IF open # None THEN missed ELSE 0)
                     ELSE frameStart
    /\ frameEnd' = seen - e
    /\ dEvents' = IF found THEN dEvents + 1 ELSE dEvents
    /\ open' = None /\ missed' = 0 /\ free' = e
    /\ signals' = [any |-> TRUE, from |-> IF signals.any THEN signals.from ELSE s,
                   to |-> e, known |-> signals.known \/ found]
    /\ UNCHANGED <<config, phase, n, noiseOnly, cleared, seen, left, grab,
                   eventCount, file>>

\* What the detector knows when it is out of data.
Begins(s) ==
    IF ProcessFrame
    THEN /\ IF open # None THEN s = open
            ELSE s = None \/ (~cleared /\ s \in Fresh)
         /\ open' = s /\ UNCHANGED missed
    ELSE /\ s = open /\ UNCHANGED open
         /\ missed' = IF open = None THEN 0 ELSE missed + n

-----------------------------------------------------------------------------
(* The end of a frame.                                                      *)

CountedEvents == eventCount + dEvents

\* "end frame tracking if older than a whole buffer"
Over == frameStart > 0 /\ frameEnd > n

Wanted(events) ==
    \/ mode = 1
    \/ mode = 2 /\ events = 0
    \/ mode = 3 /\ events > 0

Pad == n \div PadDivisor
EndPaddedIn == frameEnd + Pad  \* mutant
EndPadded == frameEnd - Pad
LenPadded == frameStart + Pad - EndPadded

Grabbed ==
    LET size == Bounded(grab, SampleSize * LenPadded)
        end == SampleSize * EndPadded
        f == File(grab, size, end)
    IN  [start |-> f.start, wlen |-> f.wlen, wrest |-> f.wrest,
         fits |-> end + Rounded(SampleSize * LenPadded) <= grab.len]

KeepFrame(s) ==
    /\ phase = "detect" /\ Begins(s)
    /\ ~Over
    /\ phase' = "wait"
    /\ eventCount' = CountedEvents
    /\ UNCHANGED <<config, n, noiseOnly, cleared, seen, left, grab, frameStart,
                   frameEnd, dEvents, free, signals, file>>

EndFrame(s) ==
    /\ phase = "detect" /\ Begins(s)
    /\ Over
    /\ phase' = "wait"
    /\ file' = IF Wanted(CountedEvents) THEN Grabbed ELSE NoFile
    /\ frameStart' = 0 /\ eventCount' = 0
    /\ signals' = NoSignals
    /\ UNCHANGED <<config, n, noiseOnly, cleared, seen, left, grab, frameEnd,
                   dEvents, free>>

\* reset_sdr_callback(), at the end of a file.
Reset ==
    /\ phase = "wait" /\ cleared
    /\ cleared' = FALSE
    /\ frameStart' = 0 /\ frameEnd' = 0 /\ eventCount' = 0
    /\ open' = None /\ missed' = 0
    /\ signals' = NoSignals
    /\ file' = NoFile
    /\ UNCHANGED <<config, phase, n, noiseOnly, seen, left, grab, dEvents,
                   free>>

-----------------------------------------------------------------------------

Next ==
    \/ \E k \in BufferLens, noise \in BOOLEAN : Receive(k, noise)
    \/ EndOfFile
    \/ Push \/ Pushed
    \/ phase = "detect" /\ \E s \in Fresh \cup {open}, e \in Fresh,
                              found \in BOOLEAN : Package(s, e, found)
    \/ phase = "detect" /\ \E s \in Fresh \cup {open, None} :
                              KeepFrame(s) \/ EndFrame(s)
    \/ Reset

Spec == Init /\ [][Next]_vars

-----------------------------------------------------------------------------
(* Properties.                                                              *)

TypeOK ==
    /\ mode \in Modes /\ squelch \in BOOLEAN
    /\ phase \in {"wait", "push", "detect"}
    /\ n \in BufferLens \cup {0} /\ noiseOnly \in BOOLEAN /\ cleared \in BOOLEAN
    /\ seen \in Nat /\ left \in 0..SampleSize * n
    /\ grab.index \in Ring /\ grab.len \in 0..RingSize
    /\ grab.buf \in [Ring -> Nat \cup {-1}]
    /\ frameStart \in Nat /\ frameEnd \in Nat
    /\ eventCount \in Nat /\ dEvents \in Nat
    /\ open \in Nat \cup {None} /\ missed \in Nat /\ free \in Nat

\* The ring of the grabber is the input's last bytes, whatever the lengths of
\* the buffers and wherever one wraps around (samp_grab_push()), and sg_len
\* says how many of them there are.
RingExact ==
    Grabbing =>
        /\ HoldsLast(grab, SampleSize * seen - left)
        /\ grab.len = IF SampleSize * seen > RingSize THEN RingSize
                      ELSE SampleSize * seen

Processed == ~squelch \/ Grabbing

\* A frame is tracked while there are packages that no frame has ended for: its
\* start is the start of the first one and its end the end of the last,
\* over any number of buffers, as long as the detector saw them all; and it
\* is over as soon as a whole buffer brought none.
FrameExact ==
    /\ frameStart > 0 <=> signals.any
    /\ Processed /\ signals.any => frameStart = seen - signals.from
    /\ signals.any => frameEnd = seen - signals.to
    /\ phase = "wait" /\ signals.any => frameEnd <= n

\* What samp_grab_write() reads lies inside the ring, and a file that fits into
\* the bytes captured so far is one piece of the input, oldest byte first.
GrabWhole ==
    /\ file.start \in 0..RingSize /\ file.wlen \in 0..RingSize - file.start
    /\ file.wrest \in 0..RingSize
    /\ LET bytes == Written(grab, file)
       IN  file.fits => \A j \in DOMAIN bytes : bytes[j] = bytes[0] + j

Covers(bytes, x) ==
    /\ bytes[0] <= SampleSize * x.from
    /\ \E j \in DOMAIN bytes : bytes[j] = SampleSize * x.to - 1

\* When a frame ends its packages are saved, from the first one to the last
\* and in one file, if the grab mode wants a frame with or without a known
\* package; no file is written for a frame the mode does not want.
SignalsSaved ==
    [][ signals.any /\ ~signals'.any /\ ~cleared =>
          LET want == \/ mode = 1
                      \/ mode = 2 /\ ~signals.known
                      \/ mode = 3 /\ signals.known
          IN  /\ want <=> file' # NoFile
              /\ file'.fits => Covers(Written(grab, file'), signals)
      ]_vars

=============================================================================
