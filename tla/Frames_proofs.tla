---------------------------- MODULE Frames_proofs ----------------------------
(***************************************************************************)
(* For buffers of any lengths, any sample size and any ring that holds two *)
(* of them: the grabber's ring is the input's last bytes, the ages of a    *)
(* frame are those of its packages, and its file is one piece of the input *)
(* that holds them all.                                                    *)
(***************************************************************************)
EXTENDS Frames, TLAPS

-----------------------------------------------------------------------------
(* The grabber.                                                             *)

Grabs == [buf : [Ring -> Nat \cup {-1}], index : Ring, len : 0..RingSize]

\* Bytes that lie in one piece behind the index are the newest ones, and nothing
\* but the oldest ones makes room for them.
LEMMA StoredHoldsLast ==
  ASSUME NEW g \in Grabs, NEW t \in Nat, HoldsLast(g, t),
         NEW m \in 1..RingSize - g.index
  PROVE  /\ Stored(g, m, t) \in Grabs
         /\ HoldsLast(Stored(g, m, t), t + m)
         /\ Stored(g, m, t).len = g.len
<1> DEFINE buf == [i \in Ring |->
                     IF i >= g.index /\ i < g.index + m THEN t + (i - g.index)
                     ELSE g.buf[i]]
           index == IF g.index + m >= RingSize THEN 0 ELSE g.index + m
<1>1. RingSize \in Nat /\ RingSize > 0 /\ g.index \in 0..RingSize - 1
  BY GrabAssumption DEF Grabs, Ring
<1>2. buf \in [Ring -> Nat \cup {-1}]
  <2> SUFFICES ASSUME NEW i \in Ring PROVE buf[i] \in Nat \cup {-1}
    OBVIOUS
  <2>1. i \in Int
    BY <1>1 DEF Ring
  <2>2. g.buf[i] \in Nat \cup {-1}
    BY DEF Grabs
  <2> QED BY <1>1, <2>1, <2>2
<1>3. index \in Ring
  BY <1>1 DEF Ring
<1>4. Stored(g, m, t) = [g EXCEPT !.buf = buf, !.index = index]
  BY DEF Stored, Grabs
<1>5. ASSUME NEW k \in 1..RingSize, k <= t + m
      PROVE  LET b == IF index >= k THEN index - k ELSE RingSize + index - k
             IN  buf[b] = t + m - k
  <2> DEFINE b == IF index >= k THEN index - k ELSE RingSize + index - k
  <2>1. CASE k <= m
    <3>1. b = g.index + m - k /\ b \in Ring
      BY <1>1, <2>1 DEF Ring
    <3>2. b >= g.index /\ b < g.index + m
      BY <1>1, <2>1, <3>1
    <3>3. buf[b] = t + (b - g.index)
      BY <3>1, <3>2
    <3> HIDE DEF buf
    <3> QED BY <1>1, <3>1, <3>3
  <2>2. CASE k > m
    <3>1. k - m \in 1..RingSize /\ k - m <= t
      BY <1>1, <1>5, <2>2
    <3>2. b = Back(g, k - m) /\ b \in Ring /\ ~(b >= g.index /\ b < g.index + m)
      BY <1>1, <2>2 DEF Ring, Back
    <3>3. buf[b] = g.buf[b]
      BY <3>2
    <3>4. g.buf[Back(g, k - m)] = t - (k - m)
      BY <3>1 DEF HoldsLast
    <3> HIDE DEF buf
    <3> QED BY <1>1, <3>2, <3>3, <3>4
  <2> QED BY <1>1, <2>1, <2>2
<1> HIDE DEF buf, index
<1>6. /\ Stored(g, m, t) \in Grabs
      /\ Stored(g, m, t).buf = buf /\ Stored(g, m, t).index = index
      /\ Stored(g, m, t).len = g.len
  BY <1>2, <1>3, <1>4 DEF Grabs
<1>7. HoldsLast(Stored(g, m, t), t + m)
  BY <1>5, <1>6 DEF HoldsLast, Back
<1> QED BY <1>6, <1>7

\* A turn of the push fits behind the index.
LEMMA ChunkFits ==
  ASSUME NEW g \in Grabs, NEW len \in Nat, len > 0
  PROVE  Chunk(g, len) \in 1..RingSize - g.index /\ Chunk(g, len) <= len
BY GrabAssumption DEF Chunk, Grabs, Ring

\* The size is rounded up, by a block at most.
LEMMA RoundedUp ==
  ASSUME NEW bytes \in Nat
  PROVE  Rounded(bytes) \in Nat /\ Rounded(bytes) > bytes
<1>1. bytes % BLOCK_SIZE \in 0..BLOCK_SIZE - 1
  BY GrabAssumption
<1> QED BY <1>1, GrabAssumption DEF Rounded

\* The file of size bytes that end bytes follow lies inside the ring, and its
\* byte j is the one end + size - j bytes back.
LEMMA FileInside ==
  ASSUME NEW g \in Grabs, NEW size \in 1..RingSize, NEW end \in 1..RingSize
  PROVE  LET f == File(g, size, end)
         IN  /\ f.start \in 0..RingSize - 1
             /\ f.wlen \in 1..RingSize - f.start
             /\ f.wrest \in 0..RingSize /\ f.wlen + f.wrest = size
             /\ \A j \in 0..size - 1 :
                  end + size - j <= RingSize =>
                    (IF j < f.wlen THEN f.start + j ELSE j - f.wlen)
                      = Back(g, end + size - j)
<1>1. RingSize \in Nat /\ RingSize > 0 /\ g.index \in 0..RingSize - 1
  BY GrabAssumption DEF Grabs, Ring
<1> DEFINE endpos == EndPos(g, end)
           start == StartPos(endpos, size)
           wlen == IF start + size > RingSize THEN RingSize - start ELSE size
<1>2. /\ endpos \in 0..RingSize - 1
      /\ endpos = g.index - end \/ endpos = RingSize - end + g.index
  BY <1>1 DEF EndPos
<1> HIDE DEF endpos
<1>3. /\ start \in 0..RingSize - 1
      /\ start = endpos - size \/ start = RingSize - size + endpos
  BY <1>1, <1>2 DEF StartPos
<1> HIDE DEF start
<1>4. /\ wlen \in 1..RingSize - start /\ size - wlen \in 0..RingSize
      /\ wlen = size \/ wlen = RingSize - start
  BY <1>1, <1>3
<1>5. File(g, size, end) = [start |-> start, wlen |-> wlen, wrest |-> size - wlen]
  BY DEF File, start, endpos
<1>6. ASSUME NEW j \in 0..size - 1, end + size - j <= RingSize
      PROVE  (IF j < wlen THEN start + j ELSE j - wlen) = Back(g, end + size - j)
  BY <1>1, <1>2, <1>3, <1>6 DEF Back
<1> HIDE DEF wlen
<1> QED BY <1>1, <1>3, <1>4, <1>5, <1>6


-----------------------------------------------------------------------------
(* The inductive invariant.                                                 *)

Scaled(k) == SampleSize * k

\* The products are natural numbers, and add up.
LEMMA ScaledType == \A k \in Nat : Scaled(k) \in Nat /\ (k > 0 => Scaled(k) >= k)
BY FramesAssumption DEF Scaled

\* The bytes of two stretches of samples.
LEMMA ScaledAdds ==
  \A k \in Nat, l \in Nat : Scaled(k + l) = Scaled(k) + Scaled(l)
BY FramesAssumption DEF Scaled

\* What was pushed is in the ring.
GrabInv ==
    /\ grab \in Grabs
    /\ left \in Nat /\ left <= Scaled(seen) /\ left <= Scaled(n)
    /\ phase # "push" => left = 0
    /\ phase = "push" => Grabbing
    /\ RingExact

\* The package that is being received began before the buffer in work.
DetectorInv ==
    /\ open \in Nat \cup {None} /\ missed \in Nat /\ free \in Nat
    /\ open = None => missed = 0
    /\ Processed => missed = 0
    /\ open # None =>
          open + missed + (IF phase = "wait" THEN 0 ELSE n) < seen
    /\ phase # "wait" => seen - n <= free /\ n > 0

\* The ages, and how far back the last package can be.
FrameInv ==
    /\ signals \in [any : BOOLEAN, from : Nat, to : Nat, known : BOOLEAN]
    /\ FrameExact
    /\ signals.any => signals.from < signals.to /\ signals.to < seen
    /\ signals.any /\ phase # "wait" =>
          /\ signals.to <= free
          /\ \E p \in BufferLens : frameEnd <= p + n

\* What is known of the packages has been counted.
EventInv ==
    signals.known <=> eventCount + (IF phase = "wait" THEN 0 ELSE dEvents) > 0

FileInv ==
    /\ GrabWhole
    /\ phase # "wait" => file = NoFile

Control ==
    /\ mode \in Modes /\ squelch \in BOOLEAN
    /\ phase \in {"wait", "push", "detect"}
    /\ n \in BufferLens \cup {0} /\ noiseOnly \in BOOLEAN /\ cleared \in BOOLEAN
    /\ seen \in Nat /\ frameStart \in Nat /\ frameEnd \in Nat
    /\ eventCount \in Nat /\ dEvents \in Nat

Inv == Control /\ GrabInv /\ DetectorInv /\ FrameInv /\ EventInv /\ FileInv

\* The invariant holds at the start.
LEMMA Starts == Init => Inv
<1> SUFFICES ASSUME Init PROVE Inv
  OBVIOUS
<1> USE DEF Init
<1>1. Control
  BY DEF Control
<1>2. grab \in Grabs /\ grab.index = 0 /\ grab.len = 0
  BY GrabAssumption DEF NewGrab, Grabs, Ring
<1>3. SampleSize * seen = 0 /\ Scaled(seen) = 0 /\ Scaled(n) = 0
  BY FramesAssumption DEF Scaled
<1>4. RingExact
  BY <1>2, <1>3, GrabAssumption DEF RingExact, HoldsLast
<1>5. GrabInv
  BY <1>2, <1>3, <1>4 DEF GrabInv, Control
<1>6. DetectorInv
  BY DEF DetectorInv, None
<1>7. FrameInv
  BY DEF FrameInv, FrameExact, NoSignals
<1>8. EventInv
  BY DEF EventInv, NoSignals
<1>9. FileInv
  <2>1. file = [start |-> 0, wlen |-> 0, wrest |-> 0, fits |-> FALSE]
    BY DEF NoFile
  <2> QED BY <2>1, GrabAssumption DEF FileInv, GrabWhole
<1> QED BY <1>1, <1>5, <1>6, <1>7, <1>8, <1>9 DEF Inv

\* The steps: the two ways a buffer comes are one.
LEMMA Steps ==
  ASSUME Next
  PROVE  \/ \E k \in BufferLens, noise \in BOOLEAN :
              Buffer(k, noise) /\ cleared' \in BOOLEAN
         \/ Push \/ Pushed
         \/ \E s \in Fresh \cup {open}, e \in Fresh, found \in BOOLEAN :
              Package(s, e, found)
         \/ \E s \in Fresh \cup {open, None} : KeepFrame(s)
         \/ \E s \in Fresh \cup {open, None} : EndFrame(s)
         \/ Reset
BY FramesAssumption DEF Next, Receive, EndOfFile

\* The samples of a buffer are counted.
LEMMA LenType == Control => n \in Nat
BY FramesAssumption DEF Control

\* Every variable keeps its type.
LEMMA ControlStep ==
  ASSUME Inv, Next PROVE Control'
<1> USE DEF Control, config, frame, detector
<1>0. Control /\ DetectorInv
  BY DEF Inv
<1>1. ASSUME NEW k \in BufferLens, NEW noise \in BOOLEAN,
             Buffer(k, noise), cleared' \in BOOLEAN
      PROVE  Control'
  <2>1. k \in Nat
    BY FramesAssumption
  <2> QED BY <1>0, <1>1, <2>1 DEF Buffer, Aged
<1>2. CASE Push \/ Pushed
  BY <1>0, <1>2 DEF Push, Pushed
<1>3. ASSUME NEW s \in Fresh \cup {open}, NEW e \in Fresh, NEW found \in BOOLEAN,
             Package(s, e, found)
      PROVE  Control'
  <2>1. n \in Nat /\ n > 0
    BY <1>0, <1>3, LenType DEF Package, DetectorInv
  <2>2. seen - e \in Nat
    BY <1>0 DEF Fresh, DetectorInv
  <2>3. open # None => s = open /\ seen - s - missed \in Nat
    BY <1>0, <1>3, <2>1 DEF Package, DetectorInv, None
  <2>4. open = None => seen - s \in Nat
    BY <1>0, <1>3 DEF Package, Fresh, DetectorInv
  <2>5. frameStart' \in Nat
    BY <1>0, <1>3, <2>3, <2>4 DEF Package
  <2> QED BY <1>0, <1>3, <2>2, <2>5 DEF Package
<1>4. ASSUME NEW s \in Fresh \cup {open, None}, KeepFrame(s) PROVE Control'
  BY <1>0, <1>4 DEF KeepFrame, CountedEvents
<1>5. ASSUME NEW s \in Fresh \cup {open, None}, EndFrame(s) PROVE Control'
  BY <1>0, <1>5 DEF EndFrame
<1>6. CASE Reset
  BY <1>0, <1>6 DEF Reset
<1> QED BY <1>1, <1>2, <1>3, <1>4, <1>5, <1>6, Steps

\* The detector misses the squelched samples and no others.
LEMMA DetectorStep ==
  ASSUME Inv, Next PROVE DetectorInv'
<1> USE DEF DetectorInv, config, frame, detector, None
<1>0. Control /\ DetectorInv /\ n \in Nat /\ seen \in Nat
  BY LenType DEF Inv, Control
<1>1. ASSUME NEW k \in BufferLens, NEW noise \in BOOLEAN,
             Buffer(k, noise), cleared' \in BOOLEAN
      PROVE  DetectorInv'
  <2>1. k \in Nat /\ k > 0
    BY FramesAssumption
  <2>2. Processed' <=> Processed
    BY <1>1 DEF Buffer, Processed, Grabbing
  <2>3. phase = "wait" /\ phase' # "wait" /\ n' = k /\ seen' = seen + k
        /\ free' = seen /\ open' = open /\ missed' = missed
    BY <1>1 DEF Buffer
  <2> QED BY <1>0, <2>1, <2>2, <2>3
<1>2. CASE Push \/ Pushed
  <2>1. Processed' <=> Processed
    BY <1>2 DEF Push, Pushed, Processed, Grabbing
  <2> QED BY <1>0, <1>2, <2>1 DEF Push, Pushed
<1>3. ASSUME NEW s \in Fresh \cup {open}, NEW e \in Fresh, NEW found \in BOOLEAN,
             Package(s, e, found)
      PROVE  DetectorInv'
  <2>1. e \in Nat /\ e >= free
    BY <1>0 DEF Fresh
  <2> QED BY <1>0, <1>3, <2>1 DEF Package
<1>4. ASSUME NEW s \in Fresh \cup {open, None}, Begins(s),
             phase = "detect", phase' = "wait", UNCHANGED <<config, seen, free>>
      PROVE  DetectorInv'
  <2>1. Processed' <=> Processed
    BY <1>4 DEF Processed, Grabbing
  <2>2. CASE ProcessFrame
    <3>1. open' = s /\ missed' = missed
      BY <1>4, <2>2 DEF Begins
    <3>2. s = open \/ (open = None /\ s \in Nat /\ s < seen)
      <4>1. s = open \/ (open = None /\ s \in Fresh)
        BY <1>4, <2>2 DEF Begins
      <4>2. s \in Fresh => s \in Nat /\ s < seen
        BY <1>0 DEF Fresh
      <4> QED BY <4>1, <4>2
    <3> QED BY <1>0, <1>4, <2>1, <3>1, <3>2
  <2>3. CASE ~ProcessFrame
    <3>1. open' = open /\ missed' = IF open = None THEN 0 ELSE missed + n
      BY <1>4, <2>3 DEF Begins
    <3>2. ~Processed
      BY <2>3 DEF ProcessFrame, Processed
    <3> QED BY <1>0, <1>4, <2>1, <3>1, <3>2
  <2> QED BY <2>2, <2>3
<1>5. ASSUME NEW s \in Fresh \cup {open, None}, KeepFrame(s) \/ EndFrame(s)
      PROVE  DetectorInv'
  BY <1>4, <1>5 DEF KeepFrame, EndFrame
<1>6. CASE Reset
  <2>1. Processed' <=> Processed
    BY <1>6 DEF Reset, Processed, Grabbing
  <2> QED BY <1>0, <1>6, <2>1 DEF Reset
<1> QED BY <1>1, <1>2, <1>3, <1>5, <1>6, Steps

\* Steps that leave the ring and the input alone.
LEMMA GrabKept ==
  ASSUME GrabInv, UNCHANGED <<config, n, seen, left, grab>>,
         phase' # "push", phase = "push" => left = 0
  PROVE  GrabInv'
BY DEF GrabInv, RingExact, Grabbing, HoldsLast, Back, Scaled, config, Grabs

\* Each byte lies in the ring where it was pushed.
LEMMA GrabStep ==
  ASSUME Inv, Next PROVE GrabInv'
<1> USE DEF config
<1>0. Control /\ GrabInv /\ seen \in Nat
  BY DEF Inv, Control
<1>1. ASSUME NEW k \in BufferLens, NEW noise \in BOOLEAN,
             Buffer(k, noise), cleared' \in BOOLEAN
      PROVE  GrabInv'
  <2>1. k \in Nat /\ Scaled(k) \in Nat /\ Scaled(seen) \in Nat
        /\ Scaled(seen + k) = Scaled(seen) + Scaled(k)
    BY <1>0, FramesAssumption, ScaledType, ScaledAdds
  <2>2. left = 0 /\ seen' = seen + k /\ n' = k /\ mode' = mode
    BY <1>0, <1>1 DEF Buffer, GrabInv
  <2>3. CASE Grabbing
    <3>1. left' = Scaled(k) /\ grab' = Counted(grab, left') /\ phase' = "push"
      BY <1>1, <2>3 DEF Buffer, Scaled
    <3>2. HoldsLast(grab, Scaled(seen))
          /\ grab.len = IF Scaled(seen) > RingSize THEN RingSize ELSE Scaled(seen)
      BY <1>0, <2>1, <2>2, <2>3 DEF GrabInv, RingExact, Scaled
    <3>3. /\ grab' \in Grabs /\ grab'.buf = grab.buf /\ grab'.index = grab.index
          /\ grab'.len = IF grab.len + left' > RingSize THEN RingSize
                         ELSE grab.len + left'
      <4> DEFINE len == IF grab.len + left' > RingSize THEN RingSize
                        ELSE grab.len + left'
      <4>1. grab \in Grabs /\ grab.len \in 0..RingSize
        BY <1>0 DEF GrabInv, Grabs
      <4>2. len \in 0..RingSize
        BY <2>1, <3>1, <4>1, GrabAssumption
      <4>3. grab' = [grab EXCEPT !.len = len]
        BY <3>1, <4>1 DEF Counted, Grabs
      <4> HIDE DEF len
      <4>4. /\ grab' \in Grabs /\ grab'.buf = grab.buf
            /\ grab'.index = grab.index /\ grab'.len = len
        BY <4>1, <4>2, <4>3 DEF Grabs
      <4> QED BY <4>4 DEF len
    <3>4. Scaled(seen') - left' = Scaled(seen)
      BY <2>1, <2>2, <3>1
    <3>5. HoldsLast(grab', Scaled(seen') - left')
      BY <3>2, <3>3, <3>4 DEF HoldsLast, Back
    <3>6. grab'.len = IF Scaled(seen') > RingSize THEN RingSize
                      ELSE Scaled(seen')
      BY <2>1, <2>2, <3>1, <3>2, <3>3, GrabAssumption
    <3>7. Grabbing'
      BY <2>2, <2>3 DEF Grabbing
    <3>8. RingExact'
      BY <3>5, <3>6 DEF RingExact, Scaled
    <3>9. left' \in Nat /\ left' <= Scaled(seen') /\ left' <= Scaled(n')
      BY <2>1, <2>2, <3>1
    <3>10. (Scaled(seen))' = Scaled(seen') /\ (Scaled(n))' = Scaled(n')
      BY DEF Scaled
    <3> QED BY <3>1, <3>3, <3>7, <3>8, <3>9, <3>10 DEF GrabInv
  <2>4. CASE ~Grabbing
    <3>1. left' = 0 /\ grab' = grab /\ phase' = "detect" /\ ~Grabbing'
      BY <1>1, <2>2, <2>4 DEF Buffer, Grabbing
    <3>2. Scaled(seen') \in Nat /\ Scaled(n') \in Nat
      BY <2>1, <2>2
    <3>3. (Scaled(seen))' = Scaled(seen') /\ (Scaled(n))' = Scaled(n')
      BY DEF Scaled
    <3> QED BY <1>0, <3>1, <3>2, <3>3 DEF GrabInv, RingExact, Grabs
  <2> QED BY <2>3, <2>4
<1>2. CASE Push
  <2> DEFINE t == Scaled(seen) - left
             m == Chunk(grab, left)
  <2>1. /\ phase = "push" /\ phase' = "push" /\ seen' = seen /\ n' = n
        /\ mode' = mode /\ left > 0 /\ left' = left - m
        /\ grab' = Stored(grab, m, t)
    BY <1>2 DEF Push, Scaled
  <2>2. /\ Grabbing /\ grab \in Grabs /\ left \in Nat
        /\ left <= Scaled(seen) /\ left <= Scaled(n)
    BY <1>0, <2>1 DEF GrabInv
  <2>3. t \in Nat /\ Scaled(seen) \in Nat /\ Scaled(n) \in Nat
    BY <1>0, <2>2, ScaledType, LenType
  <2>4. /\ HoldsLast(grab, t)
        /\ grab.len = IF Scaled(seen) > RingSize THEN RingSize ELSE Scaled(seen)
    BY <1>0, <2>2 DEF GrabInv, RingExact, Scaled
  <2>5. m \in 1..RingSize - grab.index /\ m <= left /\ m \in Nat
    <3>1. grab.index \in Nat /\ RingSize \in Nat
      BY <2>2, GrabAssumption DEF Grabs, Ring
    <3>2. m \in 1..RingSize - grab.index /\ m <= left
      BY <2>1, <2>2, ChunkFits
    <3> QED BY <3>1, <3>2
  <2> HIDE DEF m
  <2>6. grab' \in Grabs /\ HoldsLast(grab', t + m) /\ grab'.len = grab.len
    <3> HIDE DEF t
    <3> QED BY <2>1, <2>2, <2>3, <2>4, <2>5, StoredHoldsLast
  <2>7. t + m = Scaled(seen') - left' /\ left' \in Nat /\ left' <= left
    BY <2>1, <2>2, <2>3, <2>5
  <2>8. RingExact'
    BY <2>1, <2>4, <2>6, <2>7 DEF RingExact, Scaled
  <2>9. Grabbing'
    BY <2>1, <2>2 DEF Grabbing
  <2>10. (Scaled(seen))' = Scaled(seen) /\ (Scaled(n))' = Scaled(n)
    BY <2>1 DEF Scaled
  <2> QED BY <2>1, <2>2, <2>3, <2>6, <2>7, <2>8, <2>9, <2>10 DEF GrabInv
<1>3. CASE Pushed
  BY <1>0, <1>3, GrabKept DEF Pushed
<1>4. ASSUME NEW s \in Fresh \cup {open}, NEW e \in Fresh, NEW found \in BOOLEAN,
             Package(s, e, found)
      PROVE  GrabInv'
  BY <1>0, <1>4, GrabKept DEF Package
<1>5. ASSUME NEW s \in Fresh \cup {open, None}, KeepFrame(s) \/ EndFrame(s)
      PROVE  GrabInv'
  BY <1>0, <1>5, GrabKept DEF KeepFrame, EndFrame
<1>6. CASE Reset
  BY <1>0, <1>6, GrabKept DEF Reset
<1> QED BY <1>1, <1>2, <1>3, <1>4, <1>5, <1>6, Steps

\* A package that was found is counted.
LEMMA EventStep ==
  ASSUME Inv, Next PROVE EventInv'
<1> USE DEF EventInv, config, frame, detector
<1>0. Control /\ EventInv /\ signals.known \in BOOLEAN
      /\ eventCount \in Nat /\ dEvents \in Nat
  BY DEF Inv, Control, FrameInv
<1>1. ASSUME NEW k \in BufferLens, NEW noise \in BOOLEAN,
             Buffer(k, noise), cleared' \in BOOLEAN
      PROVE  EventInv'
  BY <1>0, <1>1 DEF Buffer
<1>2. CASE Push \/ Pushed
  BY <1>0, <1>2 DEF Push, Pushed
<1>3. ASSUME NEW s \in Fresh \cup {open}, NEW e \in Fresh, NEW found \in BOOLEAN,
             Package(s, e, found)
      PROVE  EventInv'
  <2>1. signals'.known = (signals.known \/ found)
    BY <1>3 DEF Package
  <2> QED BY <1>0, <1>3, <2>1 DEF Package
<1>4. ASSUME NEW s \in Fresh \cup {open, None}, KeepFrame(s) PROVE EventInv'
  BY <1>0, <1>4 DEF KeepFrame, CountedEvents
<1>5. ASSUME NEW s \in Fresh \cup {open, None}, EndFrame(s) PROVE EventInv'
  BY <1>0, <1>5 DEF EndFrame, NoSignals
<1>6. CASE Reset
  BY <1>0, <1>6 DEF Reset, NoSignals
<1> QED BY <1>1, <1>2, <1>3, <1>4, <1>5, <1>6, Steps

\* Steps that leave the frame, its packages and the input alone.
LEMMA FrameKept ==
  ASSUME FrameInv, phase # "wait", phase' # "wait",
         UNCHANGED <<config, n, seen, frameStart, frameEnd, free, signals>>
  PROVE  FrameInv'
BY DEF FrameInv, FrameExact, Processed, Grabbing, config

\* The ages of the frame are those of its packages.
LEMMA FrameStep ==
  ASSUME Inv, Next PROVE FrameInv'
<1> USE DEF config, frame, detector
<1>0. /\ Control /\ FrameInv /\ DetectorInv
      /\ n \in Nat /\ seen \in Nat /\ frameStart \in Nat /\ frameEnd \in Nat
  BY LenType DEF Inv, Control
<1>1. ASSUME NEW k \in BufferLens, NEW noise \in BOOLEAN,
             Buffer(k, noise), cleared' \in BOOLEAN
      PROVE  FrameInv'
  <2>1. /\ k \in Nat /\ k > 0 /\ phase = "wait" /\ phase' # "wait"
        /\ n' = k /\ seen' = seen + k /\ free' = seen
        /\ signals' = signals /\ UNCHANGED <<mode, squelch>>
        /\ frameStart' = IF frameStart = 0 THEN 0 ELSE frameStart + k
        /\ frameEnd' = IF frameEnd = 0 THEN 0 ELSE frameEnd + k
    BY <1>1, FramesAssumption DEF Buffer, Aged
  <2>2. /\ signals.any => /\ signals.from < signals.to /\ signals.to < seen
                          /\ frameEnd = seen - signals.to /\ frameEnd <= n
        /\ signals.from \in Nat /\ signals.to \in Nat
        /\ frameStart > 0 <=> signals.any
        /\ Processed /\ signals.any => frameStart = seen - signals.from
    BY <1>0, <2>1 DEF FrameInv, FrameExact
  <2>3. Processed' <=> Processed
    BY <2>1 DEF Processed, Grabbing
  <2>4. FrameExact'
    BY <1>0, <2>1, <2>2, <2>3 DEF FrameExact
  <2>5. ASSUME signals.any PROVE \E p \in BufferLens : frameEnd' <= p + n'
    <3>1. CASE n = 0
      <4>1. frameEnd' <= k + n'
        BY <1>0, <2>1, <2>2, <2>5, <3>1
      <4> QED BY <4>1
    <3>2. CASE n # 0
      <4>1. n \in BufferLens /\ frameEnd' <= n + n'
        BY <1>0, <2>1, <2>2, <2>5, <3>2 DEF Control
      <4> QED BY <4>1
    <3> QED BY <3>1, <3>2
  <2>6. signals \in [any : BOOLEAN, from : Nat, to : Nat, known : BOOLEAN]
    BY <1>0 DEF FrameInv
  <2>7. signals.any => signals.to < seen' /\ signals.to <= free'
    BY <1>0, <2>1, <2>2
  <2> QED BY <2>1, <2>2, <2>4, <2>5, <2>6, <2>7 DEF FrameInv
<1>2. CASE Push \/ Pushed
  BY <1>0, <1>2, FrameKept DEF Push, Pushed
<1>3. ASSUME NEW s \in Fresh \cup {open}, NEW e \in Fresh, NEW found \in BOOLEAN,
             Package(s, e, found)
      PROVE  FrameInv'
  <2>1. /\ phase = "detect" /\ phase' = "detect" /\ s < e
        /\ n' = n /\ seen' = seen /\ free' = e /\ UNCHANGED <<mode, squelch>>
        /\ frameEnd' = seen - e
        /\ frameStart' = IF frameStart = 0
                         THEN seen - s - (IF open # None THEN missed ELSE 0)
                         ELSE frameStart
        /\ signals' = [any |-> TRUE,
                       from |-> IF signals.any THEN signals.from ELSE s,
                       to |-> e, known |-> signals.known \/ found]
    BY <1>3 DEF Package
  <2>2. /\ free \in Nat /\ missed \in Nat /\ seen - n <= free /\ n > 0
        /\ e \in Nat /\ free <= e /\ e < seen
    BY <1>0, <2>1 DEF DetectorInv, Fresh
  <2>3. s \in Nat
        /\ s + (IF open # None THEN missed ELSE 0) < seen
    <3>1. CASE open # None
      BY <1>0, <1>3, <2>1, <2>2, <3>1 DEF Package, DetectorInv, None
    <3>2. CASE open = None
      <4>1. s \in Fresh
        BY <1>3, <3>2 DEF Package
      <4> QED BY <1>0, <2>2, <3>2, <4>1 DEF Fresh
    <3> QED BY <3>1, <3>2
  <2>4. /\ signals.any \in BOOLEAN /\ signals.known \in BOOLEAN
        /\ signals.from \in Nat /\ signals.to \in Nat
        /\ signals.any => signals.from < signals.to /\ signals.to <= free
        /\ frameStart > 0 <=> signals.any
        /\ Processed /\ signals.any => frameStart = seen - signals.from
    BY <1>0, <2>1 DEF FrameInv, FrameExact
  <2>5. Processed' <=> Processed
    BY <2>1 DEF Processed, Grabbing
  <2>6. Processed => missed = 0
    BY <1>0 DEF DetectorInv
  <2> DEFINE from == IF signals.any THEN signals.from ELSE s
             known == signals.known \/ found
  <2>7. from \in Nat /\ from < e
    BY <2>1, <2>2, <2>3, <2>4
  <2>8. frameStart' > 0 /\ (Processed => frameStart' = seen - from)
    BY <1>0, <2>1, <2>2, <2>3, <2>4, <2>6
  <2>9. signals' = [any |-> TRUE, from |-> from, to |-> e, known |-> known]
    BY <2>1
  <2>10. known \in BOOLEAN
    BY <2>4
  <2> HIDE DEF from, known
  <2>11. signals' \in [any : BOOLEAN, from : Nat, to : Nat, known : BOOLEAN]
    BY <2>2, <2>7, <2>9, <2>10
  <2>12. signals'.any /\ signals'.from = from /\ signals'.to = e
    BY <2>9
  <2>13. FrameExact'
    BY <1>0, <2>1, <2>5, <2>8, <2>12 DEF FrameExact
  <2>14. \E p \in BufferLens : frameEnd' <= p + n'
    <3>1. CallLen \in BufferLens /\ CallLen \in Nat
      BY FramesAssumption
    <3>2. frameEnd' <= CallLen + n'
      BY <1>0, <2>1, <2>2, <3>1
    <3> QED BY <3>1, <3>2
  <2> QED BY <2>1, <2>2, <2>7, <2>11, <2>12, <2>13, <2>14 DEF FrameInv
<1>4. ASSUME NEW s \in Fresh \cup {open, None}, KeepFrame(s) PROVE FrameInv'
  <2>1. /\ phase = "detect" /\ phase' = "wait" /\ ~Over
        /\ UNCHANGED <<n, seen, frameStart, frameEnd, free, signals, mode, squelch>>
    BY <1>4 DEF KeepFrame
  <2>2. Processed' <=> Processed
    BY <2>1 DEF Processed, Grabbing
  <2>3. signals.any => frameEnd <= n
    BY <1>0, <2>1 DEF Over, FrameInv, FrameExact
  <2>4. FrameExact'
    BY <1>0, <2>1, <2>2, <2>3 DEF FrameInv, FrameExact
  <2> QED BY <1>0, <2>1, <2>4 DEF FrameInv
<1>5. ASSUME frameStart' = 0, signals' = NoSignals PROVE FrameInv'
  BY <1>5 DEF FrameInv, FrameExact, NoSignals
<1>6. ASSUME NEW s \in Fresh \cup {open, None}, EndFrame(s) PROVE FrameInv'
  BY <1>5, <1>6 DEF EndFrame
<1>7. CASE Reset
  BY <1>5, <1>7 DEF Reset
<1> QED BY <1>1, <1>2, <1>3, <1>4, <1>6, <1>7, Steps

\* The padding is within the buffer.
LEMMA PadType == ASSUME n \in Nat PROVE Pad \in Nat /\ Pad <= n
<1>1. PadDivisor \in Nat /\ PadDivisor > 0
  BY FramesAssumption
<1> QED BY <1>1 DEF Pad

\* When a frame ends in a mode that grabs, its file lies inside the ring, is not
\* empty, and if it fits it is one piece of the input that begins no later than
\* the first package and ends no earlier than the last.
LEMMA GrabbedHolds ==
  ASSUME Inv, phase = "detect", Over, Grabbing
  PROVE  LET f == Grabbed
             bytes == Written(grab, f)
         IN  /\ f.start \in 0..RingSize /\ f.wlen \in 1..RingSize - f.start
             /\ f.wrest \in 0..RingSize
             /\ f.fits =>
                  /\ \A j \in DOMAIN bytes : bytes[j] = bytes[0] + j
                  /\ Covers(bytes, signals)
<1>0. /\ Control /\ GrabInv /\ FrameInv /\ n \in Nat /\ seen \in Nat
      /\ grab \in Grabs /\ RingSize \in Nat /\ RingSize > 0
  BY LenType, GrabAssumption DEF Inv, Control, GrabInv
<1>1. /\ signals.from \in Nat /\ signals.to \in Nat
      /\ signals.from < signals.to /\ signals.to < seen
      /\ frameStart = seen - signals.from /\ frameEnd = seen - signals.to
      /\ frameEnd > n
      /\ \E p \in BufferLens : frameEnd <= p + n
  BY <1>0 DEF Over, FrameInv, FrameExact, Processed
<1>2. Pad \in Nat /\ Pad <= n
  BY <1>0, PadType
<1> DEFINE size == Bounded(grab, Scaled(LenPadded))
           end == Scaled(EndPadded)
           f == File(grab, size, end)
           bytes == Written(grab, Grabbed)
           total == Scaled(seen)
<1>3. /\ EndPadded \in Nat /\ EndPadded > 0 /\ EndPadded <= frameEnd
      /\ EndPadded + Pad = frameEnd
      /\ LenPadded \in Nat /\ LenPadded > 0
      /\ LenPadded + EndPadded = frameStart + Pad
  <2>1. EndPadded = frameEnd - Pad
    BY DEF EndPadded
  <2>2. EndPadded \in Nat /\ EndPadded > 0 /\ EndPadded <= frameEnd
    BY <1>0, <1>1, <1>2, <2>1
  <2> QED BY <1>0, <1>1, <1>2, <2>1, <2>2 DEF LenPadded
<1>4. end \in 1..RingSize
  <2>1. PICK p \in BufferLens : frameEnd <= p + n
    BY <1>1
  <2>2. n # 0
    BY <1>0 DEF Inv, DetectorInv
  <2>3. p \in Nat /\ n \in BufferLens /\ Scaled(p + n) <= RingSize
    BY <1>0, <2>2, FramesAssumption DEF Control, Scaled
  <2>4. end \in Nat /\ end > 0
    BY <1>3, ScaledType
  <2>5. p + n = EndPadded + (p + n - EndPadded) /\ p + n - EndPadded \in Nat
    BY <1>0, <1>1, <1>3, <2>1, <2>3
  <2>6. Scaled(p + n) = end + Scaled(p + n - EndPadded)
    BY <1>3, <2>5, ScaledAdds
  <2>7. Scaled(p + n - EndPadded) \in Nat
    BY <2>5, ScaledType
  <2> HIDE DEF end
  <2> QED BY <1>0, <2>3, <2>4, <2>6, <2>7
<1>5. /\ total \in Nat /\ total > 0 /\ HoldsLast(grab, total)
      /\ grab.len = IF total > RingSize THEN RingSize ELSE total
  <2>1. left = 0 /\ RingExact
    BY <1>0 DEF GrabInv
  <2>2. total \in Nat /\ total > 0
    BY <1>0, <1>1, ScaledType
  <2>3. total - left = total
    BY <2>1, <2>2
  <2>4. HoldsLast(grab, total - left)
    BY <2>1 DEF RingExact, Scaled
  <2> QED BY <2>1, <2>2, <2>3, <2>4 DEF RingExact, Scaled
<1>6. /\ Scaled(LenPadded) \in Nat
      /\ Rounded(Scaled(LenPadded)) \in Nat
      /\ Rounded(Scaled(LenPadded)) > Scaled(LenPadded)
  BY <1>3, ScaledType, RoundedUp
<1>7. size \in 1..RingSize
      /\ (Rounded(Scaled(LenPadded)) <= grab.len =>
            size = Rounded(Scaled(LenPadded)))
  BY <1>0, <1>5, <1>6 DEF Bounded
<1> HIDE DEF size, end, total
<1>8. /\ f.start \in 0..RingSize - 1
      /\ f.wlen \in 1..RingSize - f.start
      /\ f.wrest \in 0..RingSize /\ f.wlen + f.wrest = size
      /\ \A j \in 0..size - 1 :
           end + size - j <= RingSize =>
             (IF j < f.wlen THEN f.start + j ELSE j - f.wlen)
               = Back(grab, end + size - j)
  BY <1>0, <1>4, <1>7, FileInside
<1>9. Grabbed = [start |-> f.start, wlen |-> f.wlen, wrest |-> f.wrest,
                 fits |-> end + Rounded(Scaled(LenPadded)) <= grab.len]
  BY DEF Grabbed, Scaled, size, end
<1> HIDE DEF f
<1>10. ASSUME Grabbed.fits
       PROVE  /\ size = Rounded(Scaled(LenPadded))
              /\ end + size <= total
              /\ DOMAIN bytes = 0..size - 1
              /\ \A j \in 0..size - 1 : bytes[j] = total - (end + size) + j
  <2>1. end + Rounded(Scaled(LenPadded)) <= grab.len
    BY <1>9, <1>10
  <2>2. /\ size = Rounded(Scaled(LenPadded))
        /\ end + size <= total /\ end + size <= RingSize
    BY <1>0, <1>4, <1>5, <1>6, <1>7, <2>1
  <2>3. bytes = [j \in 0..size - 1 |->
                   IF j < f.wlen THEN grab.buf[f.start + j]
                   ELSE grab.buf[j - f.wlen]]
    BY <1>8, <1>9 DEF Written
  <2>4. ASSUME NEW j \in 0..size - 1
        PROVE  bytes[j] = total - (end + size) + j
    <3>1. /\ end + size - j \in 1..RingSize /\ end + size - j <= total
      BY <1>0, <1>4, <1>5, <1>7, <2>2, <2>4
    <3>2. bytes[j] = grab.buf[IF j < f.wlen THEN f.start + j ELSE j - f.wlen]
      BY <2>3
    <3>3. bytes[j] = grab.buf[Back(grab, end + size - j)]
      BY <1>0, <1>8, <3>1, <3>2
    <3>4. bytes[j] = total - (end + size - j)
      BY <1>5, <3>1, <3>3 DEF HoldsLast
    <3> HIDE DEF bytes
    <3> QED BY <1>0, <1>4, <1>5, <1>7, <3>4
  <2> QED BY <2>2, <2>3, <2>4
<1> HIDE DEF bytes
<1>11. ASSUME Grabbed.fits
       PROVE  \A j \in DOMAIN bytes : bytes[j] = bytes[0] + j
  <2>1. 0 \in 0..size - 1
    BY <1>0, <1>7
  <2>2. bytes[0] = total - (end + size)
    BY <1>0, <1>4, <1>5, <1>7, <1>10, <1>11, <2>1
  <2> QED BY <1>10, <1>11, <2>2
<1>12. ASSUME Grabbed.fits PROVE Covers(bytes, signals)
  <2>1. /\ Scaled(signals.from) \in Nat /\ Scaled(signals.to) \in Nat
        /\ Scaled(frameStart) \in Nat /\ Scaled(frameEnd) \in Nat
        /\ Scaled(Pad) \in Nat
    BY <1>0, <1>1, <1>2, ScaledType DEF Control
  <2>2. /\ total = Scaled(frameStart) + Scaled(signals.from)
        /\ total = Scaled(frameEnd) + Scaled(signals.to)
    <3>1. /\ seen = frameStart + signals.from /\ seen = frameEnd + signals.to
          /\ frameStart \in Nat /\ frameEnd \in Nat
      BY <1>0, <1>1 DEF Control
    <3> QED BY <1>1, <3>1, ScaledAdds DEF total
  <2>3. /\ Scaled(frameEnd) = end + Scaled(Pad)
        /\ Scaled(LenPadded) + end = Scaled(frameStart) + Scaled(Pad)
    <3>1. /\ Scaled(EndPadded + Pad) = end + Scaled(Pad)
          /\ Scaled(LenPadded + EndPadded) = Scaled(LenPadded) + end
      BY <1>2, <1>3, ScaledAdds DEF end
    <3>2. Scaled(frameStart + Pad) = Scaled(frameStart) + Scaled(Pad)
      BY <1>0, <1>2, ScaledAdds DEF Control
    <3> QED BY <1>3, <3>1, <3>2
  <2>4. Scaled(frameStart) > Scaled(frameEnd)
    <3>1. frameStart = frameEnd + (frameStart - frameEnd)
          /\ frameEnd \in Nat /\ frameStart - frameEnd \in Nat
          /\ frameStart - frameEnd > 0
      BY <1>0, <1>1 DEF Control
    <3>2. /\ Scaled(frameStart - frameEnd) \in Nat
          /\ Scaled(frameStart - frameEnd) > 0
      BY <3>1, ScaledType
    <3>3. Scaled(frameStart) = Scaled(frameEnd) + Scaled(frameStart - frameEnd)
      BY <3>1, ScaledAdds
    <3> QED BY <2>1, <3>2, <3>3
  <2>5. 0 \in 0..size - 1
    BY <1>0, <1>7
  <2>6. bytes[0] = total - (end + size) /\ size > Scaled(LenPadded)
    BY <1>4, <1>5, <1>6, <1>7, <1>10, <1>12, <2>5
  <2>7. bytes[0] <= Scaled(signals.from)
    BY <1>4, <1>5, <1>6, <1>7, <2>1, <2>2, <2>3, <2>6
  <2> DEFINE j == size - Scaled(Pad) - 1
  <2>8. j \in 0..size - 1
    BY <1>4, <1>6, <1>7, <2>1, <2>3, <2>4, <2>6
  <2>9. bytes[j] = total - (end + size) + j
    BY <1>10, <1>12, <2>8
  <2>10. bytes[j] = Scaled(signals.to) - 1
    BY <1>4, <1>5, <1>7, <2>1, <2>2, <2>3, <2>9
  <2>11. j \in DOMAIN bytes
    BY <1>10, <1>12, <2>8
  <2> QED BY <2>7, <2>10, <2>11 DEF Covers, Scaled
<1>13. /\ Grabbed.start = f.start /\ Grabbed.wlen = f.wlen
       /\ Grabbed.wrest = f.wrest
  BY <1>9
<1>14. f.start \in 0..RingSize
  BY <1>0, <1>8
<1> QED BY <1>8, <1>11, <1>12, <1>13, <1>14 DEF bytes

\* Without a file there is nothing to show.
LEMMA NothingWritten == ASSUME file' = NoFile PROVE FileInv'
<1>1. file' = [start |-> 0, wlen |-> 0, wrest |-> 0, fits |-> FALSE]
  BY DEF NoFile
<1> QED BY <1>1, GrabAssumption DEF FileInv, GrabWhole

\* A file is written between two buffers only, and is whole.
LEMMA FileStep ==
  ASSUME Inv, Next PROVE FileInv'
<1>0. Control /\ FileInv
  BY DEF Inv
<1>1. ASSUME phase # "wait", file' = file PROVE FileInv'
  <2>1. file' = NoFile
    BY <1>0, <1>1 DEF FileInv
  <2> QED BY <2>1, NothingWritten
<1>2. ASSUME NEW k \in BufferLens, NEW noise \in BOOLEAN,
             Buffer(k, noise), cleared' \in BOOLEAN
      PROVE  FileInv'
  BY <1>2, NothingWritten DEF Buffer
<1>3. CASE Push \/ Pushed
  BY <1>1, <1>3 DEF Push, Pushed
<1>4. ASSUME NEW s \in Fresh \cup {open}, NEW e \in Fresh, NEW found \in BOOLEAN,
             Package(s, e, found)
      PROVE  FileInv'
  BY <1>1, <1>4 DEF Package
<1>5. ASSUME NEW s \in Fresh \cup {open, None}, KeepFrame(s) PROVE FileInv'
  BY <1>1, <1>5 DEF KeepFrame
<1>6. ASSUME NEW s \in Fresh \cup {open, None}, EndFrame(s) PROVE FileInv'
  <2>1. /\ phase = "detect" /\ phase' = "wait" /\ Over /\ grab' = grab
        /\ file' = IF Wanted(CountedEvents) THEN Grabbed ELSE NoFile
    BY <1>6 DEF EndFrame
  <2>2. CASE Wanted(CountedEvents)
    <3>1. Grabbing
      BY <2>2 DEF Wanted, Grabbing
    <3>2. file' = Grabbed
      BY <2>1, <2>2
    <3> DEFINE g == Grabbed
               bytes == Written(grab, Grabbed)
    <3>3. /\ g.start \in 0..RingSize /\ g.wlen \in 1..RingSize - g.start
          /\ g.wrest \in 0..RingSize
          /\ g.fits => \A j \in DOMAIN bytes : bytes[j] = bytes[0] + j
      BY <2>1, <3>1, GrabbedHolds
    <3>4. g.wlen \in 0..RingSize - g.start
      BY <3>3, GrabAssumption
    <3>5. Written(grab', file') = bytes
      BY <2>1, <3>2
    <3> HIDE DEF bytes, g
    <3>6. file' = g
      BY <3>2 DEF g
    <3> QED BY <2>1, <3>3, <3>4, <3>5, <3>6 DEF FileInv, GrabWhole
  <2>3. CASE ~Wanted(CountedEvents)
    BY <2>1, <2>3, NothingWritten
  <2> QED BY <2>2, <2>3
<1>7. CASE Reset
  BY <1>7, NothingWritten DEF Reset
<1> QED BY <1>2, <1>3, <1>4, <1>5, <1>6, <1>7, Steps

\* A step that changes nothing keeps it.
LEMMA Stutters == ASSUME Inv, UNCHANGED vars PROVE Inv'
<1> USE DEF Inv, vars, config, frame, detector
<1>1. Control'
  BY DEF Control
<1>2. GrabInv'
  BY DEF GrabInv, Grabs, RingExact, Grabbing, HoldsLast, Back, Scaled
<1>3. DetectorInv'
  BY DEF DetectorInv, Processed, Grabbing
<1>4. FrameInv'
  BY DEF FrameInv, FrameExact, Processed, Grabbing
<1>5. EventInv'
  BY DEF EventInv
<1>6. FileInv'
  BY DEF FileInv, GrabWhole, Written
<1> QED BY <1>1, <1>2, <1>3, <1>4, <1>5, <1>6

\* The invariant holds in every behaviour.
LEMMA Invariance == Spec => []Inv
<1>1. Init => Inv
  BY Starts
<1>2. Inv /\ [Next]_vars => Inv'
  BY ControlStep, GrabStep, DetectorStep, FrameStep, EventStep, FileStep, Stutters
     DEF Inv
<1> QED BY <1>1, <1>2, PTL DEF Spec

-----------------------------------------------------------------------------
(* The properties.                                                          *)

\* The variables of the frame tracking stay within their types; what is left of a
\* buffer never exceeds it (sdr_callback(), samp_grab_push()).
THEOREM TypeCorrect == Spec => []TypeOK
<1>1. Inv => TypeOK
  <2> SUFFICES ASSUME Inv PROVE TypeOK
    OBVIOUS
  <2>1. Control /\ GrabInv /\ DetectorInv /\ n \in Nat
    BY LenType DEF Inv
  <2>2. left \in 0..SampleSize * n
    BY <2>1, ScaledType DEF GrabInv, Scaled
  <2>3. /\ grab.index \in Ring /\ grab.len \in 0..RingSize
        /\ grab.buf \in [Ring -> Nat \cup {-1}]
    BY <2>1 DEF GrabInv, Grabs
  <2> QED BY <2>1, <2>2, <2>3 DEF TypeOK, Control, DetectorInv
<1> QED BY Invariance, <1>1, PTL

\* The grabber's ring is the last bytes of the input: samp_grab_push() neither
\* loses nor misplaces one, wherever it wraps around.
THEOREM RingIsExact == Spec => []RingExact
<1>1. Inv => RingExact
  BY DEF Inv, GrabInv
<1> QED BY Invariance, <1>1, PTL

\* frame_start_ago and frame_end_ago are the ages of the packages of the frame,
\* which is over once a whole buffer brought none (sdr_callback()).
THEOREM FrameIsExact == Spec => []FrameExact
<1>1. Inv => FrameExact
  BY DEF Inv, FrameInv
<1> QED BY Invariance, <1>1, PTL

\* samp_grab_write() reads inside the ring, and what it writes is one piece of
\* the input.
THEOREM FilesAreWhole == Spec => []GrabWhole
<1>1. Inv => GrabWhole
  BY DEF Inv, FileInv
<1> QED BY Invariance, <1>1, PTL

\* The end of a frame writes its packages to a file if the mode asks for them,
\* and no file if it does not.
THEOREM FramesAreSaved == Spec => SignalsSaved
<1> DEFINE Saved ==
      signals.any /\ ~signals'.any /\ ~cleared =>
          LET want == \/ mode = 1
                      \/ mode = 2 /\ ~signals.known
                      \/ mode = 3 /\ signals.known
          IN  /\ want <=> file' # NoFile
              /\ file'.fits => Covers(Written(grab, file'), signals)
<1>1. ASSUME Inv, Next PROVE Saved
  <2> SUFFICES ASSUME signals.any, ~signals'.any, ~cleared
               PROVE  /\ (\/ mode = 1
                          \/ mode = 2 /\ ~signals.known
                          \/ mode = 3 /\ signals.known) <=> file' # NoFile
                      /\ file'.fits => Covers(Written(grab, file'), signals)
    OBVIOUS
  <2>1. PICK s \in Fresh \cup {open, None} : EndFrame(s)
    <3>1. signals' # signals
      OBVIOUS
    <3>2. ~Reset
      BY DEF Reset
    <3>3. \A k \in BufferLens, noise \in BOOLEAN : ~Buffer(k, noise)
      BY <3>1 DEF Buffer
    <3>4. ~Push /\ ~Pushed
      BY <3>1 DEF Push, Pushed
    <3>5. \A s \in Fresh \cup {open}, e \in Fresh, found \in BOOLEAN :
             ~Package(s, e, found)
      BY DEF Package
    <3>6. \A s \in Fresh \cup {open, None} : ~KeepFrame(s)
      BY <3>1 DEF KeepFrame
    <3> QED BY <1>1, <3>2, <3>3, <3>4, <3>5, <3>6, Steps
  <2>2. /\ phase = "detect" /\ Over
        /\ file' = IF Wanted(CountedEvents) THEN Grabbed ELSE NoFile
    BY <2>1 DEF EndFrame
  <2>3. Wanted(CountedEvents) <=> (\/ mode = 1
                                   \/ mode = 2 /\ ~signals.known
                                   \/ mode = 3 /\ signals.known)
    <3>1. /\ eventCount \in Nat /\ dEvents \in Nat
          /\ signals.known <=> CountedEvents > 0
      BY <1>1, <2>2 DEF Inv, Control, EventInv, CountedEvents
    <3> QED BY <3>1 DEF Wanted, CountedEvents
  <2>4. NoFile.wlen = 0 /\ NoFile.fits = FALSE
    BY DEF NoFile
  <2>5. CASE Wanted(CountedEvents)
    <3>1. Grabbing
      BY <2>5 DEF Wanted, Grabbing
    <3>2. /\ Grabbed.start \in 0..RingSize
          /\ Grabbed.wlen \in 1..RingSize - Grabbed.start
          /\ Grabbed.fits => Covers(Written(grab, Grabbed), signals)
      BY <1>1, <2>2, <3>1, GrabbedHolds
    <3>3. Grabbed.wlen # 0
      BY <3>2, GrabAssumption
    <3>4. file' = Grabbed
      BY <2>2, <2>5
    <3>5. file' # NoFile
      BY <2>4, <3>3, <3>4
    <3> QED BY <2>3, <2>5, <3>2, <3>4, <3>5
  <2>6. CASE ~Wanted(CountedEvents)
    BY <2>2, <2>3, <2>4, <2>6
  <2> QED BY <2>5, <2>6
<1>2. Inv /\ [Next]_vars => [Saved]_vars
  BY <1>1
<1>3. SignalsSaved <=> [][Saved]_vars
  BY PTL DEF SignalsSaved
<1> QED BY Invariance, <1>2, <1>3, PTL DEF Spec

=============================================================================
