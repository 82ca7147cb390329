------------------------- MODULE PulseDetect_proofs -------------------------
(***************************************************************************)
(* For any size of the pulse buffers, any limits, any signal and any way   *)
(* to cut it into buffers: as long as the FSK detector does not change     *)
(* within a package, no pulse or gap is stored outside the arrays, and     *)
(* every sample of a package is in exactly one of its pulses and gaps.     *)
(***************************************************************************)
EXTENDS PulseDetect, PartialSums_proofs, TLAPS

-----------------------------------------------------------------------------
(* The FSK detectors.                                                       *)

\* A state the detector of the given mode can go on from.
FskFits(f, mode) ==
    /\ f \in Detectors
    /\ f.num \in Slots
    /\ f.state = "INIT" => f.num = 0
    /\ mode = "OLD" /\ f.state = "FH" => f.num > 0

\* Half of the slots is at least one, and not all of them.
LEMMA OffsFits == Offs \in 1..PD_MAX_PULSES - 1
  BY FskAssumption DEF Offs

\* A buffer of zeros is one of numbers.
LEMMA ZerosType == Zeros \in [Slots -> Nat]
  BY DEF Zeros

\* A cleared detector fits either mode.
LEMMA InitFits == ASSUME NEW mode PROVE FskFits(FskInit, mode)
  BY FskAssumption, ZerosType DEF FskFits, FskInit, Detectors, FskStates, Slots

\* Storing a pulse changes one slot and the counter.
LEMMA StorePulseFits ==
  ASSUME NEW f \in Detectors, f.num \in Slots
  PROVE  /\ StorePulse(f) \in Detectors
         /\ StorePulse(f).num = f.num
<1> DEFINE p == [f.pulse EXCEPT ![f.num] = f.length]
<1>1. p \in [Slots -> Nat]
  BY DEF Detectors
<1>2. StorePulse(f) = [f EXCEPT !.pulse = p, !.length = 0]
  BY DEF StorePulse, Detectors
<1> HIDE DEF p
<1>3. [f EXCEPT !.pulse = p, !.length = 0] \in Detectors
  BY <1>1 DEF Detectors
<1>4. [f EXCEPT !.pulse = p, !.length = 0].num = f.num
  BY DEF Detectors
<1> QED BY <1>2, <1>3, <1>4

\* Storing a gap completes the slot.
LEMMA StoreGapFits ==
  ASSUME NEW f \in Detectors, f.num \in Slots
  PROVE  /\ StoreGap(f) \in Detectors
         /\ StoreGap(f).num = f.num + 1
<1> DEFINE g == [f.gap EXCEPT ![f.num] = f.length]
<1>1. g \in [Slots -> Nat]
  BY DEF Detectors
<1>2. StoreGap(f) = [f EXCEPT !.gap = g, !.num = f.num + 1, !.length = 0]
  BY DEF StoreGap, Detectors
<1>3. f.num + 1 \in Nat
  BY DEF Detectors
<1> HIDE DEF g
<1>4. [f EXCEPT !.gap = g, !.num = f.num + 1, !.length = 0] \in Detectors
  BY <1>1, <1>3 DEF Detectors
<1>5. [f EXCEPT !.gap = g, !.num = f.num + 1, !.length = 0].num = f.num + 1
  BY DEF Detectors
<1> QED BY <1>2, <1>4, <1>5

\* After pulse_data_shift() there is room again, and a last gap to rewind to.
LEMMA MakeRoomFits ==
  ASSUME NEW f \in Detectors, f.num \in 1..PD_MAX_PULSES
  PROVE  /\ MakeRoom(f) \in Detectors
         /\ MakeRoom(f).num \in 1..PD_MAX_PULSES - 1
<1>1. CASE ~NeedsRoom(f)
  BY <1>1, FskAssumption DEF MakeRoom, NeedsRoom
<1>2. CASE NeedsRoom(f)
  <2>1. ASSUME NEW a \in [Slots -> Nat] PROVE Moved(a) \in [Slots -> Nat]
    BY DEF Moved
  <2>2. f.num = PD_MAX_PULSES /\ f.num - Offs \in 1..PD_MAX_PULSES - 1
    BY <1>2, OffsFits, FskAssumption DEF NeedsRoom
  <2>3. f.offset + Offs \in Nat
    BY OffsFits, FskAssumption DEF Detectors
  <2>4. Moved(f.pulse) \in [Slots -> Nat] /\ Moved(f.gap) \in [Slots -> Nat]
    BY <2>1 DEF Detectors
  <2> DEFINE p == Moved(f.pulse)
             g == Moved(f.gap)
             n == f.num - Offs
             o == f.offset + Offs
  <2>5. Shift(f) = [f EXCEPT !.pulse = p, !.gap = g, !.num = n, !.offset = o]
    BY DEF Shift, Detectors
  <2>6. n \in Nat
    BY <2>2
  <2> HIDE DEF p, g, n, o
  <2>7. Shift(f) \in Detectors /\ Shift(f).num = n
    <3>1. p \in [Slots -> Nat] /\ g \in [Slots -> Nat] /\ o \in Nat
      BY <2>3, <2>4 DEF p, g, o
    <3> QED BY <2>5, <2>6, <3>1 DEF Detectors
  <2> QED BY <1>2, <2>2, <2>7 DEF MakeRoom, n
<1> QED BY <1>1, <1>2

\* A counted sample changes the length only.
LEMMA CountFits ==
  ASSUME NEW f \in Detectors
  PROVE  /\ [f EXCEPT !.length = @ + 1] \in Detectors
         /\ [f EXCEPT !.length = @ + 1].num = f.num
         /\ [f EXCEPT !.length = @ + 1].state = f.state
  BY DEF Detectors

Built(f, st, l, n, p, g) ==
    [f EXCEPT !.state = st, !.length = l, !.num = n, !.pulse = p, !.gap = g]

In(f, st) == [f EXCEPT !.state = st]

\* The fields FskFits() is about, given one by one.
LEMMA BuildFits ==
  ASSUME NEW f \in Detectors, NEW st \in FskStates, NEW l \in Nat, NEW n \in Slots,
         NEW p \in [Slots -> Nat], NEW g \in [Slots -> Nat], NEW mode,
         st = "INIT" => n = 0, mode = "OLD" /\ st = "FH" => n > 0
  PROVE  FskFits(Built(f, st, l, n, p, g), mode)
<1> DEFINE r == Built(f, st, l, n, p, g)
<1> USE DEF Built
<1>1. n \in Nat
  BY FskAssumption DEF Slots
<1>2. r \in Detectors
  BY <1>1 DEF Detectors
<1>3. r.num = n /\ r.state = st
  BY DEF Detectors
<1> QED BY <1>2, <1>3 DEF FskFits

\* A new state of the detector, nothing else changed.
LEMMA StateFits ==
  ASSUME NEW f \in Detectors, f.num \in Slots, NEW st \in FskStates, NEW mode,
         st = "INIT" => f.num = 0, mode = "OLD" /\ st = "FH" => f.num > 0
  PROVE  FskFits(In(f, st), mode)
<1>1. In(f, st) \in Detectors
  BY DEF Detectors, In
<1>2. In(f, st).num = f.num /\ In(f, st).state = st
  BY DEF Detectors, In
<1> QED BY <1>1, <1>2 DEF FskFits

\* The first frequency jump stores in slot 0.
LEMMA FromInitFits ==
  ASSUME NEW f, FskFits(f, "OLD"), f.state = "INIT", NEW fm \in FmSamples
  PROVE  FskFits(FromInit(f, fm), "OLD")
<1> USE DEF FskStates
<1>0. f \in Detectors /\ f.num = 0 /\ 0 \in Slots /\ 1 \in Slots /\ f.length \in Nat
  BY FskAssumption DEF FskFits, Slots, Detectors
<1>1. CASE TooShort(f) \/ fm = "flat"
  BY <1>1 DEF FromInit
<1>2. CASE ~TooShort(f) /\ fm = "up"
  <2> DEFINE p == [f.pulse EXCEPT ![0] = 0]
             g == [f.gap EXCEPT ![0] = f.length]
  <2>1. FromInit(f, fm) = Built(f, "FH", 0, 1, p, g)
    <3>1. FromInit(f, fm) = [f EXCEPT !.state = "FH", !.pulse[0] = 0,
                                      !.gap[0] = f.length, !.num = f.num + 1,
                                      !.length = 0]
      BY <1>2 DEF FromInit
    <3>2. f.num + 1 = 1
      BY <1>0
    <3> QED BY <1>0, <3>1, <3>2 DEF Built, Detectors
  <2>2. p \in [Slots -> Nat] /\ g \in [Slots -> Nat]
    BY <1>0 DEF Detectors
  <2> HIDE DEF p, g
  <2> QED BY <1>0, <2>1, <2>2, BuildFits
<1>3. CASE ~TooShort(f) /\ fm = "down"
  <2> DEFINE p == [f.pulse EXCEPT ![0] = f.length]
             g == f.gap
  <2>1. FromInit(f, fm) = Built(f, "FL", 0, 0, p, g)
    BY <1>0, <1>3 DEF Built, FromInit, Detectors
  <2>2. p \in [Slots -> Nat] /\ g \in [Slots -> Nat]
    BY <1>0 DEF Detectors
  <2> HIDE DEF p, g
  <2> QED BY <1>0, <2>1, <2>2, BuildFits
<1> QED BY <1>1, <1>2, <1>3, FskAssumption

\* From a pulse: it is stored, or joined to the gap before it.
LEMMA FromHighFits ==
  ASSUME NEW f, FskFits(f, "OLD"), f.state = "FH", NEW fm \in FmSamples
  PROVE  FskFits(FromHigh(f, fm), "OLD")
<1> USE DEF FskStates
<1>0. f \in Detectors /\ f.num \in Slots /\ f.num > 0
  BY DEF FskFits
<1>1. CASE fm # "down"
  BY <1>1 DEF FromHigh
<1>2. CASE fm = "down" /\ ~TooShort(f)

  <2>1. FromHigh(f, fm) = In(StorePulse(f), "FL")
    BY <1>2 DEF FromHigh, In
  <2> QED BY <1>0, <2>1, StorePulseFits, StateFits
<1>3. CASE fm = "down" /\ TooShort(f)
  <2> DEFINE st == IF f.num - 1 = 0 /\ f.pulse[0] = 0 THEN "INIT" ELSE "FL"
             l == f.length + f.gap[f.num - 1]
             n == f.num - 1
  <2>1. n \in Slots /\ st \in FskStates /\ (st = "INIT" => n = 0) /\ st # "FH"
    BY <1>0, FskAssumption DEF Slots
  <2>2. l \in Nat
    BY <1>0, <2>1 DEF Detectors
  <2>3. FromHigh(f, fm) = Built(f, st, l, n, f.pulse, f.gap)
    BY <1>0, <1>3 DEF Built, FromHigh, RewindGap, Detectors
  <2>4. f.pulse \in [Slots -> Nat] /\ f.gap \in [Slots -> Nat]
    BY <1>0 DEF Detectors
  <2> HIDE DEF st, l, n
  <2> QED BY <1>0, <2>1, <2>2, <2>3, <2>4, BuildFits
<1> QED BY <1>1, <1>2, <1>3

\* From a gap: it is stored, or joined to the pulse before it.
LEMMA FromLowFits ==
  ASSUME NEW f, FskFits(f, "OLD"), f.state = "FL", NEW fm \in FmSamples
  PROVE  FskFits(FromLow(f, fm), "OLD")
<1> USE DEF FskStates
<1>0. f \in Detectors /\ f.num \in Slots
  BY DEF FskFits
<1>1. CASE fm # "up"
  BY <1>1 DEF FromLow
<1>2. CASE fm = "up" /\ ~TooShort(f)
  <2>1. StoreGap(f) \in Detectors /\ StoreGap(f).num \in 1..PD_MAX_PULSES
    BY <1>0, StoreGapFits, FskAssumption DEF Slots
  <2>2. MakeRoom(StoreGap(f)) \in Detectors
        /\ MakeRoom(StoreGap(f)).num \in 1..PD_MAX_PULSES - 1
    BY <2>1, MakeRoomFits
  <2> DEFINE r == MakeRoom(StoreGap(f))
  <2>3. r.num \in Slots /\ r.num > 0
    BY <2>2, FskAssumption DEF Slots
  <2>4. FromLow(f, fm) = In(r, "FH")
    BY <1>2 DEF FromLow, In
  <2> HIDE DEF r
  <2> QED BY <2>2, <2>3, <2>4, StateFits DEF r
<1>3. CASE fm = "up" /\ TooShort(f)
  <2> DEFINE st == IF f.num = 0 THEN "INIT" ELSE "FH"
             l == f.length + f.pulse[f.num]
             n == f.num
  <2>1. st \in FskStates /\ (st = "INIT" => n = 0) /\ (st = "FH" => n > 0)
    BY <1>0, FskAssumption DEF Slots
  <2>2. l \in Nat /\ n \in Slots
    BY <1>0 DEF Detectors
  <2>3. FromLow(f, fm) = Built(f, st, l, n, f.pulse, f.gap)
    BY <1>0, <1>3 DEF Built, FromLow, RewindPulse, Detectors
  <2>4. f.pulse \in [Slots -> Nat] /\ f.gap \in [Slots -> Nat]
    BY <1>0 DEF Detectors
  <2> HIDE DEF st, l, n
  <2> QED BY <1>0, <2>1, <2>2, <2>3, <2>4, BuildFits
<1> QED BY <1>1, <1>2, <1>3

\* pulse_detect_fsk_classic() on any sample.
LEMMA ClassicFits ==
  ASSUME NEW f, FskFits(f, "OLD"), NEW fm \in FmSamples
  PROVE  FskFits(Classic(f, fm), "OLD")
<1> DEFINE g == [f EXCEPT !.length = @ + 1]
<1>1. FskFits(g, "OLD") /\ g.state = f.state
  BY CountFits DEF FskFits
<1>2. f.state \in {"INIT", "FH", "FL"}
  BY DEF FskFits, Detectors, FskStates
<1>3. CASE f.state = "INIT"
  <2>1. Classic(f, fm) = FromInit(g, fm)
    BY <1>3 DEF Classic
  <2> QED BY <1>1, <1>3, <2>1, FromInitFits
<1>4. CASE f.state = "FH"
  <2>1. Classic(f, fm) = FromHigh(g, fm)
    BY <1>4 DEF Classic
  <2> QED BY <1>1, <1>4, <2>1, FromHighFits
<1>5. CASE f.state = "FL"
  <2>1. Classic(f, fm) = FromLow(g, fm)
    BY <1>5 DEF Classic
  <2> QED BY <1>1, <1>5, <2>1, FromLowFits
<1> QED BY <1>2, <1>3, <1>4, <1>5

\* pulse_detect_fsk_minmax() on any sample.
LEMMA MinMaxFits ==
  ASSUME NEW f, FskFits(f, "NEW"), NEW fm \in FmSamples
  PROVE  FskFits(MinMax(f, fm), "NEW")
<1> USE DEF FskStates
<1>1. CASE f.skip > 0
  <2>1. [f EXCEPT !.skip = @ - 1] \in Detectors
        /\ [f EXCEPT !.skip = @ - 1].num = f.num
        /\ [f EXCEPT !.skip = @ - 1].state = f.state
    BY <1>1 DEF FskFits, Detectors
  <2> QED BY <1>1, <2>1 DEF MinMax, FskFits
<1>2. CASE ~(f.skip > 0)
  <2> DEFINE g == [f EXCEPT !.length = @ + 1]
  <2>1. g \in Detectors /\ g.num \in Slots /\ FskFits(g, "NEW")
    BY CountFits DEF FskFits
  <2>2. MinMax(f, fm) = Tracked(g, fm)
    BY <1>2 DEF MinMax
  <2> HIDE DEF g
  <2>3. CASE g.state = "INIT"
    <3>1. Tracked(g, fm) = In(g, "FL")
      BY <2>3 DEF Tracked, In
    <3>2. FskFits(In(g, "FL"), "NEW")
      BY <2>1, StateFits
    <3> QED BY <2>2, <3>1, <3>2
  <2>4. CASE g.state = "FH" /\ fm = "down"
    <3>1. Tracked(g, fm) = In(StorePulse(g), "FL")
      BY <2>4 DEF Tracked, In
    <3> QED BY <2>1, <2>2, <3>1, StorePulseFits, StateFits
  <2>5. CASE g.state = "FL" /\ fm = "up"
    <3>1. StoreGap(g) \in Detectors /\ StoreGap(g).num \in 1..PD_MAX_PULSES
      BY <2>1, StoreGapFits, FskAssumption DEF Slots
    <3> DEFINE r == MakeRoom(StoreGap(g))
    <3>2. r \in Detectors /\ r.num \in 1..PD_MAX_PULSES - 1
      BY <3>1, MakeRoomFits
    <3>3. r.num \in Slots
      BY <3>2, FskAssumption DEF Slots
    <3>4. Tracked(g, fm) = In(r, "FH")
      BY <2>5 DEF Tracked, In
    <3> HIDE DEF r
    <3> QED BY <2>2, <3>2, <3>3, <3>4, StateFits
  <2>6. CASE g.state # "INIT" /\ ~(g.state = "FH" /\ fm = "down")
             /\ ~(g.state = "FL" /\ fm = "up")
    <3>1. Tracked(g, fm) = g
      BY <2>6 DEF Tracked
    <3> QED BY <2>1, <2>2, <3>1
  <2> QED BY <2>3, <2>4, <2>5, <2>6
<1> QED BY <1>1, <1>2

\* pulse_detect_fsk_wrap_up() uses the last slot there is.
LEMMA WrapUpType ==
  ASSUME NEW f \in Detectors, f.num \in Slots
  PROVE  WrapUp(f) \in Detectors
<1>1. f.num + 1 \in Nat /\ f.length + 1 \in Nat /\ ~(f.num >= PD_MAX_PULSES)
  BY FskAssumption DEF Detectors, Slots
<1> DEFINE p == [f.pulse EXCEPT ![f.num] = f.length + 1]
           g == [f.gap EXCEPT ![f.num] = f.length + 1]
           z == [f.gap EXCEPT ![f.num] = 0]
<1>2. p \in [Slots -> Nat] /\ g \in [Slots -> Nat] /\ z \in [Slots -> Nat]
  BY <1>1 DEF Detectors
<1>3. WrapUp(f) \in {[f EXCEPT !.length = f.length + 1, !.pulse = p, !.gap = z, !.num = f.num + 1],
                     [f EXCEPT !.length = f.length + 1, !.gap = g, !.num = f.num + 1]}
  BY <1>1 DEF WrapUp, Detectors
<1> HIDE DEF p, g, z
<1>4. [f EXCEPT !.length = f.length + 1, !.pulse = p, !.gap = z, !.num = f.num + 1] \in Detectors
  BY <1>1, <1>2 DEF Detectors
<1>5. [f EXCEPT !.length = f.length + 1, !.gap = g, !.num = f.num + 1] \in Detectors
  BY <1>1, <1>2 DEF Detectors
<1> QED BY <1>3, <1>4, <1>5

-----------------------------------------------------------------------------
(* The package detector.                                                    *)

USE DEF OokStates, Packages, Modes, vars, ook, times, input

\* What the steps below need of the detector and of the place in the buffer.
Inv ==
    /\ TypeOK
    /\ ookState # "IDLE" => FskFits(fsk, fpdm) /\ pulses.num \in Slots
    /\ ret \in Packages => ookState = "IDLE"
    /\ ret = "out" => counter = 0
    /\ AgeExact /\ GapBounded /\ RealPulses

\* A pulse or a gap stored in the slot in use.
LEMMA StoreType ==
  ASSUME NEW p \in PulseTrains, p.num \in Slots, NEW n \in Nat
  PROVE  /\ [p EXCEPT !.pulse[p.num] = n] \in PulseTrains
         /\ EndGap(p, n) \in PulseTrains
         /\ EndGap(p, n).num = p.num + 1
         /\ EndGap(p, n).pulse = p.pulse
<1>1. p.num + 1 \in 0..PD_MAX_PULSES
  BY FskAssumption DEF Slots
<1> DEFINE w == [p.pulse EXCEPT ![p.num] = n]
           g == [p.gap EXCEPT ![p.num] = n]
<1>2. w \in [Slots -> Nat] /\ g \in [Slots -> Nat]
  BY DEF PulseTrains
<1>3. [p EXCEPT !.pulse[p.num] = n] = [p EXCEPT !.pulse = w]
  BY DEF PulseTrains
<1>4. EndGap(p, n) = [p EXCEPT !.gap = g, !.num = p.num + 1]
  BY DEF PulseTrains, EndGap
<1> HIDE DEF w, g
<1>5. [p EXCEPT !.pulse = w] \in PulseTrains
  BY <1>2 DEF PulseTrains
<1>6. [p EXCEPT !.gap = g, !.num = p.num + 1] \in PulseTrains
  BY <1>1, <1>2 DEF PulseTrains
<1>7. /\ [p EXCEPT !.gap = g, !.num = p.num + 1].num = p.num + 1
      /\ [p EXCEPT !.gap = g, !.num = p.num + 1].pulse = p.pulse
  BY DEF PulseTrains
<1> QED BY <1>3, <1>4, <1>5, <1>6, <1>7

\* In the first pulse the FSK detector takes one more sample.
LEMMA FskStepFits ==
  ASSUME Inv, ookState # "IDLE", NEW fm \in FmSamples, FskStep(fm)
  PROVE  FskFits(fsk', fpdm)
<1>1. FskFits(fsk, fpdm) /\ fpdm \in {"OLD", "NEW"} /\ pulses.num \in Nat
  BY FskAssumption DEF Inv, TypeOK, PulseTrains
<1>2. CASE pulses.num > 0
  BY <1>1, <1>2 DEF FskStep
<1>3. CASE pulses.num = 0 /\ fpdm = "OLD"
  <2>1. fsk' = Classic(fsk, fm)
    BY <1>3 DEF FskStep
  <2> QED BY <1>1, <1>3, <2>1, ClassicFits
<1>4. CASE pulses.num = 0 /\ fpdm = "NEW"
  <2>1. fsk' = MinMax(fsk, fm)
    BY <1>4 DEF FskStep
  <2> QED BY <1>1, <1>4, <2>1, MinMaxFits
<1> QED BY <1>1, <1>2, <1>3, <1>4

\* start_ago ages with every buffer, once.
LEMMA AgeStep ==
  ASSUME Inv, [Next]_vars
  PROVE  AgeExact'
<1> USE DetectAssumption DEF Inv, AgeExact, TypeOK
<1>1. ASSUME NEW n \in BufferSizes, NewBuffer(n) PROVE AgeExact'
  <2>1. n \in Nat
    OBVIOUS
  <2>2. startAgo' = startAgo + n /\ pos' = pos + len /\ len' = n
    BY <1>1 DEF NewBuffer, Aged
  <2>3. ookState' = ookState /\ offset' = offset
    BY <1>1 DEF NewBuffer
  <2> QED BY <2>1, <2>2, <2>3
<1>2. ASSUME CallAgain PROVE AgeExact'
  BY <1>2 DEF CallAgain, Aged
<1>3. ASSUME OutOfData PROVE AgeExact'
  BY <1>3 DEF OutOfData
<1>4. ASSUME Reset PROVE AgeExact'
  BY <1>4 DEF Reset
<1>5. ASSUME NEW level \in Levels, Idle(level) PROVE AgeExact'
  BY <1>5 DEF Idle, InCall, Advance, Settled
<1>6. ASSUME NEW level \in Levels, Begin(level) PROVE AgeExact'
  BY <1>6 DEF Begin, InCall, Advance, Settled
<1>7. ASSUME NEW level \in Levels, NEW fm \in FmSamples, InPulse(level, fm) PROVE AgeExact'
  BY <1>7 DEF InPulse, InCall, Advance
<1>8. ASSUME NEW level \in Levels, NEW fm \in FmSamples, EndPulse(level, fm) PROVE AgeExact'
  BY <1>8 DEF EndPulse, InCall, Advance, Spurious
<1>9. ASSUME NEW level \in Levels, NEW fm \in FmSamples, SpuriousPulse(level, fm) PROVE AgeExact'
  BY <1>9 DEF SpuriousPulse, InCall, Advance, Spurious
<1>10. ASSUME NEW level \in Levels, NEW fm \in FmSamples, ResumePulse(level, fm) PROVE AgeExact'
  BY <1>10 DEF ResumePulse, InCall, Advance, RestoreCount
<1>11. ASSUME NEW level \in Levels, NEW fm \in FmSamples, StartGap(level, fm) PROVE AgeExact'
  BY <1>11 DEF StartGap, InCall, Advance, Spurious
<1>12. ASSUME NEW level \in Levels, EmitFsk(level) PROVE AgeExact'
  BY <1>12 DEF EmitFsk, InCall, Emit, Spurious
<1>13. ASSUME NEW level \in Levels, InGap(level) PROVE AgeExact'
  BY <1>13 DEF InGap, InCall, Advance, Overdue
<1>14. ASSUME NEW level \in Levels, EmitOok(level) PROVE AgeExact'
  BY <1>14 DEF EmitOok, InCall, Emit, Overdue
<1>15. ASSUME NEW level \in Levels, EmitFull(level) PROVE AgeExact'
  BY <1>15 DEF EmitFull, InCall, Emit, IsFull
<1>16. ASSUME NEW level \in Levels, NewPulse(level) PROVE AgeExact'
  BY <1>16 DEF NewPulse, InCall, Advance, IsFull
<1>17. ASSUME NEW level \in Levels, EmitSpurious(level) PROVE AgeExact'
  BY <1>17 DEF EmitSpurious, InCall, Emit, IsFull
<1>18. CASE UNCHANGED vars
  BY <1>18
<1> QED BY <1>1, <1>2, <1>3, <1>4, <1>5, <1>6, <1>7, <1>8, <1>9, <1>10,
          <1>11, <1>12, <1>13, <1>14, <1>15, <1>16, <1>17, <1>18 DEF Next, Sample

\* A gap that has become too long has ended the package.
LEMMA GapStep ==
  ASSUME Inv, [Next]_vars
  PROVE  GapBounded'
<1> USE DetectAssumption, FskAssumption DEF Inv, GapBounded, TypeOK
<1>1. ASSUME NEW n \in BufferSizes, NewBuffer(n) PROVE GapBounded'
  BY <1>1 DEF NewBuffer, Aged
<1>2. ASSUME CallAgain PROVE GapBounded'
  BY <1>2 DEF CallAgain, Aged
<1>3. ASSUME OutOfData PROVE GapBounded'
  BY <1>3 DEF OutOfData
<1>4. ASSUME Reset PROVE GapBounded'
  BY <1>4 DEF Reset
<1>5. ASSUME NEW level \in Levels, Idle(level) PROVE GapBounded'
  BY <1>5 DEF Idle, InCall, Advance, Settled
<1>6. ASSUME NEW level \in Levels, Begin(level) PROVE GapBounded'
  BY <1>6 DEF Begin, InCall, Advance, Settled
<1>7. ASSUME NEW level \in Levels, NEW fm \in FmSamples, InPulse(level, fm) PROVE GapBounded'
  BY <1>7 DEF InPulse, InCall, Advance
<1>8. ASSUME NEW level \in Levels, NEW fm \in FmSamples, EndPulse(level, fm) PROVE GapBounded'
  BY <1>8 DEF EndPulse, InCall, Advance, Spurious
<1>9. ASSUME NEW level \in Levels, NEW fm \in FmSamples, SpuriousPulse(level, fm) PROVE GapBounded'
  BY <1>9 DEF SpuriousPulse, InCall, Advance, Spurious
<1>10. ASSUME NEW level \in Levels, NEW fm \in FmSamples, ResumePulse(level, fm) PROVE GapBounded'
  BY <1>10 DEF ResumePulse, InCall, Advance, RestoreCount
<1>11. ASSUME NEW level \in Levels, NEW fm \in FmSamples, StartGap(level, fm) PROVE GapBounded'
  BY <1>11 DEF StartGap, InCall, Advance, Spurious
<1>12. ASSUME NEW level \in Levels, EmitFsk(level) PROVE GapBounded'
  BY <1>12 DEF EmitFsk, InCall, Emit, Spurious
<1>13. ASSUME NEW level \in Levels, InGap(level) PROVE GapBounded'
  BY <1>13 DEF InGap, InCall, Advance, Overdue
<1>14. ASSUME NEW level \in Levels, EmitOok(level) PROVE GapBounded'
  BY <1>14 DEF EmitOok, InCall, Emit, Overdue
<1>15. ASSUME NEW level \in Levels, EmitFull(level) PROVE GapBounded'
  BY <1>15 DEF EmitFull, InCall, Emit, IsFull
<1>16. ASSUME NEW level \in Levels, NewPulse(level) PROVE GapBounded'
  BY <1>16 DEF NewPulse, InCall, Advance, IsFull, Overdue
<1>17. ASSUME NEW level \in Levels, EmitSpurious(level) PROVE GapBounded'
  BY <1>17 DEF EmitSpurious, InCall, Emit, IsFull
<1>18. CASE UNCHANGED vars
  BY <1>18
<1> QED BY <1>1, <1>2, <1>3, <1>4, <1>5, <1>6, <1>7, <1>8, <1>9, <1>10,
          <1>11, <1>12, <1>13, <1>14, <1>15, <1>16, <1>17, <1>18 DEF Next, Sample

\* Packages are returned from idle, and a buffer begins at its first sample.
LEMMA PlaceStep ==
  ASSUME Inv, [Next]_vars
  PROVE  (ret' \in Packages => ookState' = "IDLE") /\ (ret' = "out" => counter' = 0)
<1> USE DetectAssumption DEF Inv, TypeOK
<1>1. ASSUME NEW n \in BufferSizes, NewBuffer(n) PROVE (ret' \in Packages => ookState' = "IDLE") /\ (ret' = "out" => counter' = 0)
  BY <1>1 DEF NewBuffer, Aged
<1>2. ASSUME CallAgain PROVE (ret' \in Packages => ookState' = "IDLE") /\ (ret' = "out" => counter' = 0)
  BY <1>2 DEF CallAgain, Aged
<1>3. ASSUME OutOfData PROVE (ret' \in Packages => ookState' = "IDLE") /\ (ret' = "out" => counter' = 0)
  BY <1>3 DEF OutOfData
<1>4. ASSUME Reset PROVE (ret' \in Packages => ookState' = "IDLE") /\ (ret' = "out" => counter' = 0)
  BY <1>4 DEF Reset
<1>5. ASSUME NEW level \in Levels, Idle(level) PROVE (ret' \in Packages => ookState' = "IDLE") /\ (ret' = "out" => counter' = 0)
  BY <1>5 DEF Idle, InCall, Advance, Settled
<1>6. ASSUME NEW level \in Levels, Begin(level) PROVE (ret' \in Packages => ookState' = "IDLE") /\ (ret' = "out" => counter' = 0)
  BY <1>6 DEF Begin, InCall, Advance, Settled
<1>7. ASSUME NEW level \in Levels, NEW fm \in FmSamples, InPulse(level, fm) PROVE (ret' \in Packages => ookState' = "IDLE") /\ (ret' = "out" => counter' = 0)
  BY <1>7 DEF InPulse, InCall, Advance
<1>8. ASSUME NEW level \in Levels, NEW fm \in FmSamples, EndPulse(level, fm) PROVE (ret' \in Packages => ookState' = "IDLE") /\ (ret' = "out" => counter' = 0)
  BY <1>8 DEF EndPulse, InCall, Advance, Spurious
<1>9. ASSUME NEW level \in Levels, NEW fm \in FmSamples, SpuriousPulse(level, fm) PROVE (ret' \in Packages => ookState' = "IDLE") /\ (ret' = "out" => counter' = 0)
  BY <1>9 DEF SpuriousPulse, InCall, Advance, Spurious
<1>10. ASSUME NEW level \in Levels, NEW fm \in FmSamples, ResumePulse(level, fm) PROVE (ret' \in Packages => ookState' = "IDLE") /\ (ret' = "out" => counter' = 0)
  BY <1>10 DEF ResumePulse, InCall, Advance, RestoreCount
<1>11. ASSUME NEW level \in Levels, NEW fm \in FmSamples, StartGap(level, fm) PROVE (ret' \in Packages => ookState' = "IDLE") /\ (ret' = "out" => counter' = 0)
  BY <1>11 DEF StartGap, InCall, Advance, Spurious
<1>12. ASSUME NEW level \in Levels, EmitFsk(level) PROVE (ret' \in Packages => ookState' = "IDLE") /\ (ret' = "out" => counter' = 0)
  BY <1>12 DEF EmitFsk, InCall, Emit, Spurious
<1>13. ASSUME NEW level \in Levels, InGap(level) PROVE (ret' \in Packages => ookState' = "IDLE") /\ (ret' = "out" => counter' = 0)
  BY <1>13 DEF InGap, InCall, Advance, Overdue
<1>14. ASSUME NEW level \in Levels, EmitOok(level) PROVE (ret' \in Packages => ookState' = "IDLE") /\ (ret' = "out" => counter' = 0)
  BY <1>14 DEF EmitOok, InCall, Emit, Overdue
<1>15. ASSUME NEW level \in Levels, EmitFull(level) PROVE (ret' \in Packages => ookState' = "IDLE") /\ (ret' = "out" => counter' = 0)
  BY <1>15 DEF EmitFull, InCall, Emit, IsFull
<1>16. ASSUME NEW level \in Levels, NewPulse(level) PROVE (ret' \in Packages => ookState' = "IDLE") /\ (ret' = "out" => counter' = 0)
  BY <1>16 DEF NewPulse, InCall, Advance, IsFull
<1>17. ASSUME NEW level \in Levels, EmitSpurious(level) PROVE (ret' \in Packages => ookState' = "IDLE") /\ (ret' = "out" => counter' = 0)
  BY <1>17 DEF EmitSpurious, InCall, Emit, IsFull
<1>18. CASE UNCHANGED vars
  BY <1>18
<1> QED BY <1>1, <1>2, <1>3, <1>4, <1>5, <1>6, <1>7, <1>8, <1>9, <1>10,
          <1>11, <1>12, <1>13, <1>14, <1>15, <1>16, <1>17, <1>18 DEF Next, Sample

\* Pulses and gaps are stored in slots there are.
LEMMA TrainStep ==
  ASSUME Inv, [Next]_vars
  PROVE  pulses' \in PulseTrains
<1>1. ASSUME NEW n \in BufferSizes, NewBuffer(n) PROVE pulses' \in PulseTrains
  BY <1>1 DEF NewBuffer, Aged, Inv, TypeOK
<1>2. ASSUME CallAgain PROVE pulses' \in PulseTrains
  BY <1>2 DEF CallAgain, Aged, Inv, TypeOK
<1>3. ASSUME OutOfData PROVE pulses' \in PulseTrains
  BY <1>3 DEF OutOfData, Inv, TypeOK
<1>4. ASSUME Reset PROVE pulses' \in PulseTrains
  BY <1>4 DEF Reset, Inv, TypeOK
<1>5. ASSUME NEW level \in Levels, Idle(level) PROVE pulses' \in PulseTrains
  BY <1>5 DEF Idle, InCall, Advance, Settled, Inv, TypeOK
<1>6. ASSUME NEW level \in Levels, Begin(level) PROVE pulses' \in PulseTrains
  <2>1. NoPulses \in PulseTrains
    BY ZerosType, FskAssumption DEF NoPulses, PulseTrains
  <2> QED BY <1>6, <2>1 DEF Begin
<1>7. ASSUME NEW level \in Levels, NEW fm \in FmSamples, InPulse(level, fm) PROVE pulses' \in PulseTrains
  BY <1>7 DEF InPulse, InCall, Advance, Inv, TypeOK
<1>8. ASSUME NEW level \in Levels, NEW fm \in FmSamples, EndPulse(level, fm) PROVE pulses' \in PulseTrains
  <2>1. pulses.num \in Slots /\ pulseLength + 1 \in Nat /\ pulses \in PulseTrains
    BY <1>8 DEF Inv, TypeOK, EndPulse
  <2>2. [pulses EXCEPT !.pulse[pulses.num] = pulseLength + 1] \in PulseTrains
    BY <2>1, StoreType
  <2>3. pulses' = [pulses EXCEPT !.pulse[pulses.num] = pulseLength + 1]
    BY <1>8 DEF EndPulse
  <2> QED BY <2>2, <2>3
<1>9. ASSUME NEW level \in Levels, NEW fm \in FmSamples, SpuriousPulse(level, fm) PROVE pulses' \in PulseTrains
  BY <1>9 DEF SpuriousPulse, InCall, Advance, Spurious, Inv, TypeOK
<1>10. ASSUME NEW level \in Levels, NEW fm \in FmSamples, ResumePulse(level, fm) PROVE pulses' \in PulseTrains
  BY <1>10 DEF ResumePulse, InCall, Advance, RestoreCount, Inv, TypeOK
<1>11. ASSUME NEW level \in Levels, NEW fm \in FmSamples, StartGap(level, fm) PROVE pulses' \in PulseTrains
  BY <1>11 DEF StartGap, InCall, Advance, Spurious, Inv, TypeOK
<1>12. ASSUME NEW level \in Levels, EmitFsk(level) PROVE pulses' \in PulseTrains
  BY <1>12 DEF EmitFsk, InCall, Emit, Spurious, Inv, TypeOK
<1>13. ASSUME NEW level \in Levels, InGap(level) PROVE pulses' \in PulseTrains
  BY <1>13 DEF InGap, InCall, Advance, Overdue, Inv, TypeOK
<1>14. ASSUME NEW level \in Levels, EmitOok(level) PROVE pulses' \in PulseTrains
  <2>1. pulses.num \in Slots /\ pulseLength + 1 \in Nat /\ pulses \in PulseTrains
    BY <1>14 DEF Inv, TypeOK, EmitOok, InCall
  <2>2. EndGap(pulses, pulseLength + 1) \in PulseTrains
    BY <2>1, StoreType
  <2>3. pulses' = EndGap(pulses, pulseLength + 1)
    BY <1>14 DEF EmitOok
  <2> QED BY <2>2, <2>3
<1>15. ASSUME NEW level \in Levels, EmitFull(level) PROVE pulses' \in PulseTrains
  <2>1. pulses.num \in Slots /\ pulseLength + 1 \in Nat /\ pulses \in PulseTrains
    BY <1>15 DEF Inv, TypeOK, EmitFull, InCall
  <2>2. EndGap(pulses, pulseLength + 1) \in PulseTrains
    BY <2>1, StoreType
  <2>3. pulses' = EndGap(pulses, pulseLength + 1)
    BY <1>15 DEF EmitFull
  <2> QED BY <2>2, <2>3
<1>16. ASSUME NEW level \in Levels, NewPulse(level) PROVE pulses' \in PulseTrains
  <2>1. pulses.num \in Slots /\ pulseLength + 1 \in Nat /\ pulses \in PulseTrains
    BY <1>16 DEF Inv, TypeOK, NewPulse, InCall
  <2>2. EndGap(pulses, pulseLength + 1) \in PulseTrains
    BY <2>1, StoreType
  <2>3. pulses' = EndGap(pulses, pulseLength + 1)
    BY <1>16 DEF NewPulse
  <2> QED BY <2>2, <2>3
<1>17. ASSUME NEW level \in Levels, EmitSpurious(level) PROVE pulses' \in PulseTrains
  <2>1. pulses.num \in Slots /\ pulseLength + 1 \in Nat /\ pulses \in PulseTrains
    BY <1>17 DEF Inv, TypeOK, EmitSpurious
  <2> DEFINE p == EndGap(pulses, pulseLength + 1)
  <2>2. p \in PulseTrains /\ p.num = pulses.num + 1
    BY <2>1, StoreType
  <2>3. ~(p.num >= PD_MAX_PULSES)
    BY <1>17 DEF EmitSpurious, IsFull
  <2>4. p.num \in Slots
    BY <2>1, <2>2, <2>3, FskAssumption DEF Slots
  <2>5. pulses' = EndGap(p, 0)
    BY <1>17 DEF EmitSpurious
  <2> HIDE DEF p
  <2> QED BY <2>2, <2>4, <2>5, StoreType
<1>18. CASE UNCHANGED vars
  BY <1>18 DEF Inv, TypeOK
<1> QED BY <1>1, <1>2, <1>3, <1>4, <1>5, <1>6, <1>7, <1>8, <1>9, <1>10,
          <1>11, <1>12, <1>13, <1>14, <1>15, <1>16, <1>17, <1>18 DEF Next, Sample

\* So are those of the FSK detector.
LEMMA DetectorStep ==
  ASSUME Inv, [Next]_vars
  PROVE  fsk' \in Detectors
<1>1. ASSUME NEW n \in BufferSizes, NewBuffer(n) PROVE fsk' \in Detectors
  BY <1>1 DEF NewBuffer, Inv, TypeOK
<1>2. ASSUME CallAgain PROVE fsk' \in Detectors
  BY <1>2 DEF CallAgain, Inv, TypeOK
<1>3. ASSUME OutOfData PROVE fsk' \in Detectors
  BY <1>3 DEF OutOfData, Inv, TypeOK
<1>4. ASSUME Reset PROVE fsk' \in Detectors
  <2>1. fsk \in Detectors
    BY DEF Inv, TypeOK
  <2>2. FskInit \in Detectors
    BY InitFits DEF FskFits
  <2>3. fsk' = [FskInit EXCEPT !.num = fsk.num, !.pulse = fsk.pulse,
                               !.gap = fsk.gap, !.offset = fsk.offset]
    BY <1>4 DEF Reset
  <2> QED BY <2>1, <2>2, <2>3 DEF Detectors
<1>5. ASSUME NEW level \in Levels, Idle(level) PROVE fsk' \in Detectors
  BY <1>5 DEF Idle, Inv, TypeOK
<1>6. ASSUME NEW level \in Levels, Begin(level) PROVE fsk' \in Detectors
  BY <1>6, InitFits DEF Begin, FskFits
<1>7. ASSUME NEW level \in Levels, NEW fm \in FmSamples, InPulse(level, fm) PROVE fsk' \in Detectors
  <2>1. FskFits(fsk', fpdm)
    BY <1>7, FskStepFits DEF InPulse
  <2> QED BY <2>1 DEF FskFits
<1>8. ASSUME NEW level \in Levels, NEW fm \in FmSamples, EndPulse(level, fm) PROVE fsk' \in Detectors
  <2>1. FskFits(fsk', fpdm)
    BY <1>8, FskStepFits DEF EndPulse
  <2> QED BY <2>1 DEF FskFits
<1>9. ASSUME NEW level \in Levels, NEW fm \in FmSamples, SpuriousPulse(level, fm) PROVE fsk' \in Detectors
  <2>1. FskFits(fsk', fpdm)
    BY <1>9, FskStepFits DEF SpuriousPulse
  <2> QED BY <2>1 DEF FskFits
<1>10. ASSUME NEW level \in Levels, NEW fm \in FmSamples, ResumePulse(level, fm) PROVE fsk' \in Detectors
  <2>1. FskFits(fsk', fpdm)
    BY <1>10, FskStepFits DEF ResumePulse
  <2> QED BY <2>1 DEF FskFits
<1>11. ASSUME NEW level \in Levels, NEW fm \in FmSamples, StartGap(level, fm) PROVE fsk' \in Detectors
  <2>1. FskFits(fsk', fpdm)
    BY <1>11, FskStepFits DEF StartGap
  <2> QED BY <2>1 DEF FskFits
<1>12. ASSUME NEW level \in Levels, EmitFsk(level) PROVE fsk' \in Detectors
  <2>1. fsk \in Detectors /\ fsk.num \in Slots
    BY <1>12 DEF EmitFsk, Inv, TypeOK, FskFits
  <2>2. fsk' = fsk \/ fsk' = WrapUp(fsk)
    BY <1>12 DEF EmitFsk
  <2> QED BY <2>1, <2>2, WrapUpType
<1>13. ASSUME NEW level \in Levels, InGap(level) PROVE fsk' \in Detectors
  BY <1>13 DEF InGap, Inv, TypeOK
<1>14. ASSUME NEW level \in Levels, EmitOok(level) PROVE fsk' \in Detectors
  BY <1>14 DEF EmitOok, Inv, TypeOK
<1>15. ASSUME NEW level \in Levels, EmitFull(level) PROVE fsk' \in Detectors
  BY <1>15 DEF EmitFull, Inv, TypeOK
<1>16. ASSUME NEW level \in Levels, NewPulse(level) PROVE fsk' \in Detectors
  BY <1>16 DEF NewPulse, Inv, TypeOK
<1>17. ASSUME NEW level \in Levels, EmitSpurious(level) PROVE fsk' \in Detectors
  BY <1>17 DEF EmitSpurious, Inv, TypeOK
<1>18. CASE UNCHANGED vars
  BY <1>18 DEF Inv, TypeOK
<1> QED BY <1>1, <1>2, <1>3, <1>4, <1>5, <1>6, <1>7, <1>8, <1>9, <1>10,
          <1>11, <1>12, <1>13, <1>14, <1>15, <1>16, <1>17, <1>18 DEF Next, Sample

\* The slot in use exists, and the FSK detector can go on, as long as a
\* package is being received.
LEMMA FitsStep ==
  ASSUME Inv, [Next]_vars
  PROVE  ookState' # "IDLE" => FskFits(fsk', fpdm') /\ pulses'.num \in Slots
<1> USE  DEF Inv
<1>1. ASSUME NEW n \in BufferSizes, NewBuffer(n) PROVE ookState' # "IDLE" => FskFits(fsk', fpdm') /\ pulses'.num \in Slots
  BY <1>1 DEF NewBuffer, Aged
<1>2. ASSUME CallAgain PROVE ookState' # "IDLE" => FskFits(fsk', fpdm') /\ pulses'.num \in Slots
  BY <1>2 DEF CallAgain, Aged
<1>3. ASSUME OutOfData PROVE ookState' # "IDLE" => FskFits(fsk', fpdm') /\ pulses'.num \in Slots
  BY <1>3 DEF OutOfData
<1>4. ASSUME Reset PROVE ookState' # "IDLE" => FskFits(fsk', fpdm') /\ pulses'.num \in Slots
  BY <1>4 DEF Reset
<1>5. ASSUME NEW level \in Levels, Idle(level) PROVE ookState' # "IDLE" => FskFits(fsk', fpdm') /\ pulses'.num \in Slots
  BY <1>5 DEF Idle, InCall, Advance, Settled
<1>6. ASSUME NEW level \in Levels, Begin(level) PROVE ookState' # "IDLE" => FskFits(fsk', fpdm') /\ pulses'.num \in Slots
  <2>1. fsk' = FskInit /\ pulses' = NoPulses
    BY <1>6 DEF Begin
  <2> QED BY <2>1, InitFits, FskAssumption DEF NoPulses, Slots
<1>7. ASSUME NEW level \in Levels, NEW fm \in FmSamples, InPulse(level, fm) PROVE ookState' # "IDLE" => FskFits(fsk', fpdm') /\ pulses'.num \in Slots
  <2>1. FskFits(fsk', fpdm)
    BY <1>7, FskStepFits DEF InPulse
  <2>2. pulses.num \in Slots /\ pulses'.num = pulses.num /\ fpdm' = fpdm
    BY <1>7 DEF InPulse, Advance, TypeOK, PulseTrains
  <2> QED BY <2>1, <2>2
<1>8. ASSUME NEW level \in Levels, NEW fm \in FmSamples, EndPulse(level, fm) PROVE ookState' # "IDLE" => FskFits(fsk', fpdm') /\ pulses'.num \in Slots
  <2>1. FskFits(fsk', fpdm)
    BY <1>8, FskStepFits DEF EndPulse
  <2>2. pulses.num \in Slots /\ pulses'.num = pulses.num /\ fpdm' = fpdm
    BY <1>8 DEF EndPulse, Advance, TypeOK, PulseTrains
  <2> QED BY <2>1, <2>2
<1>9. ASSUME NEW level \in Levels, NEW fm \in FmSamples, SpuriousPulse(level, fm) PROVE ookState' # "IDLE" => FskFits(fsk', fpdm') /\ pulses'.num \in Slots
  <2>1. FskFits(fsk', fpdm)
    BY <1>9, FskStepFits DEF SpuriousPulse
  <2>2. pulses.num \in Slots /\ pulses'.num = pulses.num /\ fpdm' = fpdm
    BY <1>9 DEF SpuriousPulse, Advance, TypeOK, PulseTrains
  <2> QED BY <2>1, <2>2
<1>10. ASSUME NEW level \in Levels, NEW fm \in FmSamples, ResumePulse(level, fm) PROVE ookState' # "IDLE" => FskFits(fsk', fpdm') /\ pulses'.num \in Slots
  <2>1. FskFits(fsk', fpdm)
    BY <1>10, FskStepFits DEF ResumePulse
  <2>2. pulses.num \in Slots /\ pulses'.num = pulses.num /\ fpdm' = fpdm
    BY <1>10 DEF ResumePulse, Advance, TypeOK, PulseTrains
  <2> QED BY <2>1, <2>2
<1>11. ASSUME NEW level \in Levels, NEW fm \in FmSamples, StartGap(level, fm) PROVE ookState' # "IDLE" => FskFits(fsk', fpdm') /\ pulses'.num \in Slots
  <2>1. FskFits(fsk', fpdm)
    BY <1>11, FskStepFits DEF StartGap
  <2>2. pulses.num \in Slots /\ pulses'.num = pulses.num /\ fpdm' = fpdm
    BY <1>11 DEF StartGap, Advance, TypeOK, PulseTrains
  <2> QED BY <2>1, <2>2
<1>12. ASSUME NEW level \in Levels, EmitFsk(level) PROVE ookState' # "IDLE" => FskFits(fsk', fpdm') /\ pulses'.num \in Slots
  BY <1>12 DEF EmitFsk, InCall, Emit, Spurious
<1>13. ASSUME NEW level \in Levels, InGap(level) PROVE ookState' # "IDLE" => FskFits(fsk', fpdm') /\ pulses'.num \in Slots
  BY <1>13 DEF InGap, InCall, Advance, Overdue
<1>14. ASSUME NEW level \in Levels, EmitOok(level) PROVE ookState' # "IDLE" => FskFits(fsk', fpdm') /\ pulses'.num \in Slots
  BY <1>14 DEF EmitOok, InCall, Emit, Overdue
<1>15. ASSUME NEW level \in Levels, EmitFull(level) PROVE ookState' # "IDLE" => FskFits(fsk', fpdm') /\ pulses'.num \in Slots
  BY <1>15 DEF EmitFull, InCall, Emit, IsFull
<1>16. ASSUME NEW level \in Levels, NewPulse(level) PROVE ookState' # "IDLE" => FskFits(fsk', fpdm') /\ pulses'.num \in Slots
  <2>1. pulses.num \in Slots /\ pulseLength + 1 \in Nat /\ pulses \in PulseTrains
    BY <1>16 DEF TypeOK, NewPulse
  <2> DEFINE p == EndGap(pulses, pulseLength + 1)
  <2>2. p.num = pulses.num + 1
    BY <2>1, StoreType
  <2>3. pulses' = p /\ ~(p.num >= PD_MAX_PULSES) /\ fsk' = fsk /\ fpdm' = fpdm
    BY <1>16 DEF NewPulse, IsFull, Advance
  <2>4. FskFits(fsk, fpdm)
    BY <1>16 DEF NewPulse
  <2> HIDE DEF p
  <2>5. p.num \in Slots
    BY <2>1, <2>2, <2>3, FskAssumption DEF Slots
  <2> QED BY <2>3, <2>4, <2>5
<1>17. ASSUME NEW level \in Levels, EmitSpurious(level) PROVE ookState' # "IDLE" => FskFits(fsk', fpdm') /\ pulses'.num \in Slots
  BY <1>17 DEF EmitSpurious, InCall, Emit, IsFull
<1>18. CASE UNCHANGED vars
  BY <1>18
<1> QED BY <1>1, <1>2, <1>3, <1>4, <1>5, <1>6, <1>7, <1>8, <1>9, <1>10,
          <1>11, <1>12, <1>13, <1>14, <1>15, <1>16, <1>17, <1>18 DEF Next, Sample

\* What is stored in pulse[] is no spurious pulse.
LEMMA RealStep ==
  ASSUME Inv, [Next]_vars
  PROVE  RealPulses'
<1> USE FskAssumption DEF Inv, RealPulses
<1>1. ASSUME NEW n \in BufferSizes, NewBuffer(n) PROVE RealPulses'
  BY <1>1 DEF NewBuffer, Aged, NoPulses, Zeros
<1>2. ASSUME CallAgain PROVE RealPulses'
  BY <1>2 DEF CallAgain, Aged, NoPulses, Zeros
<1>3. ASSUME OutOfData PROVE RealPulses'
  BY <1>3 DEF OutOfData, NoPulses, Zeros
<1>4. ASSUME Reset PROVE RealPulses'
  BY <1>4 DEF Reset, NoPulses, Zeros
<1>5. ASSUME NEW level \in Levels, Idle(level) PROVE RealPulses'
  BY <1>5 DEF Idle, InCall, Advance, Settled, NoPulses, Zeros
<1>6. ASSUME NEW level \in Levels, Begin(level) PROVE RealPulses'
  BY <1>6 DEF Begin, InCall, Advance, Settled, NoPulses, Zeros
<1>7. ASSUME NEW level \in Levels, NEW fm \in FmSamples, InPulse(level, fm) PROVE RealPulses'
  BY <1>7 DEF InPulse, InCall, Advance, NoPulses, Zeros
<1>8. ASSUME NEW level \in Levels, NEW fm \in FmSamples, EndPulse(level, fm) PROVE RealPulses'
  <2>1. pulses.num \in Slots /\ pulses \in PulseTrains /\ pulseLength + 1 >= PD_MIN_PULSE_SAMPLES
    BY <1>8, FskAssumption DEF EndPulse, Spurious, TypeOK
  <2>2. pulses' = [pulses EXCEPT !.pulse[pulses.num] = pulseLength + 1] /\ ret' = "none"
    BY <1>8 DEF EndPulse, InCall, Advance
  <2>3. pulses'.pulse = [pulses.pulse EXCEPT ![pulses.num] = pulseLength + 1]
    BY <2>1, <2>2 DEF PulseTrains
  <2> QED BY <2>1, <2>2, <2>3 DEF PulseTrains
<1>9. ASSUME NEW level \in Levels, NEW fm \in FmSamples, SpuriousPulse(level, fm) PROVE RealPulses'
  BY <1>9 DEF SpuriousPulse, InCall, Advance, Spurious, NoPulses, Zeros
<1>10. ASSUME NEW level \in Levels, NEW fm \in FmSamples, ResumePulse(level, fm) PROVE RealPulses'
  BY <1>10 DEF ResumePulse, InCall, Advance, RestoreCount, NoPulses, Zeros
<1>11. ASSUME NEW level \in Levels, NEW fm \in FmSamples, StartGap(level, fm) PROVE RealPulses'
  BY <1>11 DEF StartGap, InCall, Advance, Spurious, NoPulses, Zeros
<1>12. ASSUME NEW level \in Levels, EmitFsk(level) PROVE RealPulses'
  BY <1>12 DEF EmitFsk, InCall, Emit, Spurious, NoPulses, Zeros
<1>13. ASSUME NEW level \in Levels, InGap(level) PROVE RealPulses'
  BY <1>13 DEF InGap, InCall, Advance, Overdue, NoPulses, Zeros
<1>14. ASSUME NEW level \in Levels, EmitOok(level) PROVE RealPulses'
  <2>1. pulses.num \in Slots /\ pulses \in PulseTrains /\ pulseLength + 1 \in Nat
    BY <1>14 DEF EmitOok, TypeOK
  <2>2. pulses' = EndGap(pulses, pulseLength + 1)
    BY <1>14 DEF EmitOok
  <2>3. pulses'.pulse = pulses.pulse /\ pulses'.num = pulses.num + 1
    BY <2>1, <2>2, StoreType
  <2> QED BY <2>1, <2>3, FskAssumption DEF Slots
<1>15. ASSUME NEW level \in Levels, EmitFull(level) PROVE RealPulses'
  <2>1. pulses.num \in Slots /\ pulses \in PulseTrains /\ pulseLength + 1 \in Nat
    BY <1>15 DEF EmitFull, TypeOK
  <2>2. pulses' = EndGap(pulses, pulseLength + 1)
    BY <1>15 DEF EmitFull
  <2>3. pulses'.pulse = pulses.pulse /\ pulses'.num = pulses.num + 1
    BY <2>1, <2>2, StoreType
  <2> QED BY <2>1, <2>3, FskAssumption DEF Slots
<1>16. ASSUME NEW level \in Levels, NewPulse(level) PROVE RealPulses'
  <2>1. pulses.num \in Slots /\ pulses \in PulseTrains /\ pulseLength + 1 \in Nat
    BY <1>16 DEF NewPulse, TypeOK
  <2>2. pulses' = EndGap(pulses, pulseLength + 1)
    BY <1>16 DEF NewPulse
  <2>3. pulses'.pulse = pulses.pulse /\ pulses'.num = pulses.num + 1
    BY <2>1, <2>2, StoreType
  <2> QED BY <2>1, <2>3, FskAssumption DEF Slots
<1>17. ASSUME NEW level \in Levels, EmitSpurious(level) PROVE RealPulses'
  <2>1. pulses.num \in Slots /\ pulseLength + 1 \in Nat /\ pulses \in PulseTrains
    BY <1>17 DEF TypeOK, EmitSpurious
  <2> DEFINE p == EndGap(pulses, pulseLength + 1)
  <2>2. p \in PulseTrains /\ p.num = pulses.num + 1 /\ p.pulse = pulses.pulse
    BY <2>1, StoreType
  <2>3. ~(p.num >= PD_MAX_PULSES) /\ pulses' = EndGap(p, 0)
    BY <1>17 DEF EmitSpurious, IsFull
  <2>4. p.num \in Slots
    BY <2>1, <2>2, <2>3, FskAssumption DEF Slots
  <2> HIDE DEF p
  <2>5. pulses'.pulse = p.pulse /\ pulses'.num = p.num + 1
    BY <2>2, <2>3, <2>4, StoreType
  <2> QED BY <2>2, <2>4, <2>5, FskAssumption DEF Slots
<1>18. CASE UNCHANGED vars
  BY <1>18
<1> QED BY <1>1, <1>2, <1>3, <1>4, <1>5, <1>6, <1>7, <1>8, <1>9, <1>10,
          <1>11, <1>12, <1>13, <1>14, <1>15, <1>16, <1>17, <1>18 DEF Next, Sample

\* Every step keeps the types.
LEMMA TypeStep ==
  ASSUME Inv, [Next]_vars
  PROVE  TypeOK'
<1> USE DetectAssumption DEF Inv
<1>1. ASSUME NEW n \in BufferSizes, NewBuffer(n) PROVE TypeOK'
  <2> USE DEF TypeOK
  <2>1. /\ counter' \in 0..len' /\ pos' \in Nat /\ len' \in Nat /\ pos' + len' <= MaxSamples
        /\ pulseLength' \in Nat /\ maxPulse' \in Nat /\ leadIn' \in 0..OOK_EST_LOW_RATIO + 1
        /\ offset' \in Nat /\ startAgo' \in Nat /\ endAgo' \in Nat
    BY <1>1 DEF NewBuffer, Aged
  <2>2. ookState' \in OokStates /\ ret' \in {"none", "out"} \cup Packages /\ fpdm' \in Modes
    BY <1>1 DEF NewBuffer, Advance, Emit
  <2>3. eop' \in BOOLEAN
    BY <1>1 DEF NewBuffer
  <2> QED BY <2>1, <2>2, <2>3, TrainStep, DetectorStep
<1>2. ASSUME CallAgain PROVE TypeOK'
  <2> USE DEF TypeOK
  <2>1. /\ counter' \in 0..len' /\ pos' \in Nat /\ len' \in Nat /\ pos' + len' <= MaxSamples
        /\ pulseLength' \in Nat /\ maxPulse' \in Nat /\ leadIn' \in 0..OOK_EST_LOW_RATIO + 1
        /\ offset' \in Nat /\ startAgo' \in Nat /\ endAgo' \in Nat
    BY <1>2 DEF CallAgain, Aged
  <2>2. ookState' \in OokStates /\ ret' \in {"none", "out"} \cup Packages /\ fpdm' \in Modes
    BY <1>2 DEF CallAgain, Advance, Emit
  <2>3. eop' \in BOOLEAN
    BY <1>2 DEF CallAgain
  <2> QED BY <2>1, <2>2, <2>3, TrainStep, DetectorStep
<1>3. ASSUME OutOfData PROVE TypeOK'
  <2> USE DEF TypeOK
  <2>1. /\ counter' \in 0..len' /\ pos' \in Nat /\ len' \in Nat /\ pos' + len' <= MaxSamples
        /\ pulseLength' \in Nat /\ maxPulse' \in Nat /\ leadIn' \in 0..OOK_EST_LOW_RATIO + 1
        /\ offset' \in Nat /\ startAgo' \in Nat /\ endAgo' \in Nat
    BY <1>3 DEF OutOfData
  <2>2. ookState' \in OokStates /\ ret' \in {"none", "out"} \cup Packages /\ fpdm' \in Modes
    BY <1>3 DEF OutOfData, Advance, Emit
  <2>3. eop' \in BOOLEAN
    BY <1>3 DEF OutOfData
  <2> QED BY <2>1, <2>2, <2>3, TrainStep, DetectorStep
<1>4. ASSUME Reset PROVE TypeOK'
  <2> USE DEF TypeOK
  <2>1. /\ counter' \in 0..len' /\ pos' \in Nat /\ len' \in Nat /\ pos' + len' <= MaxSamples
        /\ pulseLength' \in Nat /\ maxPulse' \in Nat /\ leadIn' \in 0..OOK_EST_LOW_RATIO + 1
        /\ offset' \in Nat /\ startAgo' \in Nat /\ endAgo' \in Nat
    BY <1>4 DEF Reset
  <2>2. ookState' \in OokStates /\ ret' \in {"none", "out"} \cup Packages /\ fpdm' \in Modes
    BY <1>4 DEF Reset, Advance, Emit
  <2>3. eop' \in BOOLEAN
    BY <1>4 DEF Reset
  <2> QED BY <2>1, <2>2, <2>3, TrainStep, DetectorStep
<1>5. ASSUME NEW level \in Levels, Idle(level) PROVE TypeOK'
  <2> USE DEF TypeOK
  <2>1. /\ counter' \in 0..len' /\ pos' \in Nat /\ len' \in Nat /\ pos' + len' <= MaxSamples
        /\ pulseLength' \in Nat /\ maxPulse' \in Nat /\ leadIn' \in 0..OOK_EST_LOW_RATIO + 1
        /\ offset' \in Nat /\ startAgo' \in Nat /\ endAgo' \in Nat
    BY <1>5 DEF Idle, InCall, Advance, Settled
  <2>2. ookState' \in OokStates /\ ret' \in {"none", "out"} \cup Packages /\ fpdm' \in Modes
    BY <1>5 DEF Idle, Advance, Emit
  <2>3. eop' \in BOOLEAN
    BY <1>5 DEF Idle
  <2> QED BY <2>1, <2>2, <2>3, TrainStep, DetectorStep
<1>6. ASSUME NEW level \in Levels, Begin(level) PROVE TypeOK'
  <2> USE DEF TypeOK
  <2>1. /\ counter' \in 0..len' /\ pos' \in Nat /\ len' \in Nat /\ pos' + len' <= MaxSamples
        /\ pulseLength' \in Nat /\ maxPulse' \in Nat /\ leadIn' \in 0..OOK_EST_LOW_RATIO + 1
        /\ offset' \in Nat /\ startAgo' \in Nat /\ endAgo' \in Nat
    BY <1>6 DEF Begin, InCall, Advance, Settled
  <2>2. ookState' \in OokStates /\ ret' \in {"none", "out"} \cup Packages /\ fpdm' \in Modes
    BY <1>6 DEF Begin, Advance, Emit
  <2>3. eop' \in BOOLEAN
    BY <1>6 DEF Begin
  <2> QED BY <2>1, <2>2, <2>3, TrainStep, DetectorStep
<1>7. ASSUME NEW level \in Levels, NEW fm \in FmSamples, InPulse(level, fm) PROVE TypeOK'
  <2> USE DEF TypeOK
  <2>1. /\ counter' \in 0..len' /\ pos' \in Nat /\ len' \in Nat /\ pos' + len' <= MaxSamples
        /\ pulseLength' \in Nat /\ maxPulse' \in Nat /\ leadIn' \in 0..OOK_EST_LOW_RATIO + 1
        /\ offset' \in Nat /\ startAgo' \in Nat /\ endAgo' \in Nat
    BY <1>7 DEF InPulse, InCall, Advance
  <2>2. ookState' \in OokStates /\ ret' \in {"none", "out"} \cup Packages /\ fpdm' \in Modes
    BY <1>7 DEF InPulse, Advance, Emit
  <2>3. eop' \in BOOLEAN
    BY <1>7 DEF InPulse
  <2> QED BY <2>1, <2>2, <2>3, TrainStep, DetectorStep
<1>8. ASSUME NEW level \in Levels, NEW fm \in FmSamples, EndPulse(level, fm) PROVE TypeOK'
  <2> USE DEF TypeOK
  <2>1. /\ counter' \in 0..len' /\ pos' \in Nat /\ len' \in Nat /\ pos' + len' <= MaxSamples
        /\ pulseLength' \in Nat /\ maxPulse' \in Nat /\ leadIn' \in 0..OOK_EST_LOW_RATIO + 1
        /\ offset' \in Nat /\ startAgo' \in Nat /\ endAgo' \in Nat
    BY <1>8 DEF EndPulse, InCall, Advance, Spurious
  <2>2. ookState' \in OokStates /\ ret' \in {"none", "out"} \cup Packages /\ fpdm' \in Modes
    BY <1>8 DEF EndPulse, Advance, Emit
  <2>3. eop' \in BOOLEAN
    BY <1>8 DEF EndPulse
  <2> QED BY <2>1, <2>2, <2>3, TrainStep, DetectorStep
<1>9. ASSUME NEW level \in Levels, NEW fm \in FmSamples, SpuriousPulse(level, fm) PROVE TypeOK'
  <2> USE DEF TypeOK
  <2>1. /\ counter' \in 0..len' /\ pos' \in Nat /\ len' \in Nat /\ pos' + len' <= MaxSamples
        /\ pulseLength' \in Nat /\ maxPulse' \in Nat /\ leadIn' \in 0..OOK_EST_LOW_RATIO + 1
        /\ offset' \in Nat /\ startAgo' \in Nat /\ endAgo' \in Nat
    BY <1>9 DEF SpuriousPulse, InCall, Advance, Spurious
  <2>2. ookState' \in OokStates /\ ret' \in {"none", "out"} \cup Packages /\ fpdm' \in Modes
    BY <1>9 DEF SpuriousPulse, Advance, Emit
  <2>3. eop' \in BOOLEAN
    BY <1>9 DEF SpuriousPulse
  <2> QED BY <2>1, <2>2, <2>3, TrainStep, DetectorStep
<1>10. ASSUME NEW level \in Levels, NEW fm \in FmSamples, ResumePulse(level, fm) PROVE TypeOK'
  <2> USE DEF TypeOK
  <2>1. counter' \in 0..len' /\ pos' \in Nat /\ len' \in Nat /\ pos' + len' <= MaxSamples
    BY <1>10 DEF ResumePulse, InCall, Advance, RestoreCount
  <2>2. pulseLength' \in Nat /\ maxPulse' \in Nat /\ leadIn' \in 0..OOK_EST_LOW_RATIO + 1
    <3>1. pulses.pulse[pulses.num] \in Nat
      BY <1>10 DEF ResumePulse, PulseTrains
    <3> QED BY <1>10, <3>1 DEF ResumePulse, InCall, Advance, RestoreCount
  <2>3. offset' \in Nat /\ startAgo' \in Nat /\ endAgo' \in Nat
    BY <1>10 DEF ResumePulse, InCall, Advance, RestoreCount
  <2>4. ookState' \in OokStates /\ ret' \in {"none", "out"} \cup Packages
    BY <1>10 DEF ResumePulse, InCall, Advance, RestoreCount
  <2>5. fpdm' \in Modes
    BY <1>10 DEF ResumePulse, Advance, Emit
  <2>6. eop' \in BOOLEAN
    BY <1>10 DEF ResumePulse
  <2> QED BY <2>1, <2>2, <2>3, <2>4, <2>5, <2>6, TrainStep, DetectorStep
<1>11. ASSUME NEW level \in Levels, NEW fm \in FmSamples, StartGap(level, fm) PROVE TypeOK'
  <2> USE DEF TypeOK
  <2>1. /\ counter' \in 0..len' /\ pos' \in Nat /\ len' \in Nat /\ pos' + len' <= MaxSamples
        /\ pulseLength' \in Nat /\ maxPulse' \in Nat /\ leadIn' \in 0..OOK_EST_LOW_RATIO + 1
        /\ offset' \in Nat /\ startAgo' \in Nat /\ endAgo' \in Nat
    BY <1>11 DEF StartGap, InCall, Advance, Spurious
  <2>2. ookState' \in OokStates /\ ret' \in {"none", "out"} \cup Packages /\ fpdm' \in Modes
    BY <1>11 DEF StartGap, Advance, Emit
  <2>3. eop' \in BOOLEAN
    BY <1>11 DEF StartGap
  <2> QED BY <2>1, <2>2, <2>3, TrainStep, DetectorStep
<1>12. ASSUME NEW level \in Levels, EmitFsk(level) PROVE TypeOK'
  <2> USE DEF TypeOK
  <2>1. /\ counter' \in 0..len' /\ pos' \in Nat /\ len' \in Nat /\ pos' + len' <= MaxSamples
        /\ pulseLength' \in Nat /\ maxPulse' \in Nat /\ leadIn' \in 0..OOK_EST_LOW_RATIO + 1
        /\ offset' \in Nat /\ startAgo' \in Nat /\ endAgo' \in Nat
    BY <1>12 DEF EmitFsk, InCall, Emit, Spurious
  <2>2. ookState' \in OokStates /\ ret' \in {"none", "out"} \cup Packages /\ fpdm' \in Modes
    BY <1>12 DEF EmitFsk, Advance, Emit
  <2>3. eop' \in BOOLEAN
    BY <1>12 DEF EmitFsk
  <2> QED BY <2>1, <2>2, <2>3, TrainStep, DetectorStep
<1>13. ASSUME NEW level \in Levels, InGap(level) PROVE TypeOK'
  <2> USE DEF TypeOK
  <2>1. /\ counter' \in 0..len' /\ pos' \in Nat /\ len' \in Nat /\ pos' + len' <= MaxSamples
        /\ pulseLength' \in Nat /\ maxPulse' \in Nat /\ leadIn' \in 0..OOK_EST_LOW_RATIO + 1
        /\ offset' \in Nat /\ startAgo' \in Nat /\ endAgo' \in Nat
    BY <1>13 DEF InGap, InCall, Advance, Overdue
  <2>2. ookState' \in OokStates /\ ret' \in {"none", "out"} \cup Packages /\ fpdm' \in Modes
    BY <1>13 DEF InGap, Advance, Emit
  <2>3. eop' \in BOOLEAN
    BY <1>13 DEF InGap
  <2> QED BY <2>1, <2>2, <2>3, TrainStep, DetectorStep
<1>14. ASSUME NEW level \in Levels, EmitOok(level) PROVE TypeOK'
  <2> USE DEF TypeOK
  <2>1. /\ counter' \in 0..len' /\ pos' \in Nat /\ len' \in Nat /\ pos' + len' <= MaxSamples
        /\ pulseLength' \in Nat /\ maxPulse' \in Nat /\ leadIn' \in 0..OOK_EST_LOW_RATIO + 1
        /\ offset' \in Nat /\ startAgo' \in Nat /\ endAgo' \in Nat
    BY <1>14 DEF EmitOok, InCall, Emit, Overdue
  <2>2. ookState' \in OokStates /\ ret' \in {"none", "out"} \cup Packages /\ fpdm' \in Modes
    BY <1>14 DEF EmitOok, Advance, Emit
  <2>3. eop' \in BOOLEAN
    BY <1>14 DEF EmitOok
  <2> QED BY <2>1, <2>2, <2>3, TrainStep, DetectorStep
<1>15. ASSUME NEW level \in Levels, EmitFull(level) PROVE TypeOK'
  <2> USE DEF TypeOK
  <2>1. /\ counter' \in 0..len' /\ pos' \in Nat /\ len' \in Nat /\ pos' + len' <= MaxSamples
        /\ pulseLength' \in Nat /\ maxPulse' \in Nat /\ leadIn' \in 0..OOK_EST_LOW_RATIO + 1
        /\ offset' \in Nat /\ startAgo' \in Nat /\ endAgo' \in Nat
    BY <1>15 DEF EmitFull, InCall, Emit, IsFull
  <2>2. ookState' \in OokStates /\ ret' \in {"none", "out"} \cup Packages /\ fpdm' \in Modes
    BY <1>15 DEF EmitFull, Advance, Emit
  <2>3. eop' \in BOOLEAN
    BY <1>15 DEF EmitFull
  <2> QED BY <2>1, <2>2, <2>3, TrainStep, DetectorStep
<1>16. ASSUME NEW level \in Levels, NewPulse(level) PROVE TypeOK'
  <2> USE DEF TypeOK
  <2>1. /\ counter' \in 0..len' /\ pos' \in Nat /\ len' \in Nat /\ pos' + len' <= MaxSamples
        /\ pulseLength' \in Nat /\ maxPulse' \in Nat /\ leadIn' \in 0..OOK_EST_LOW_RATIO + 1
        /\ offset' \in Nat /\ startAgo' \in Nat /\ endAgo' \in Nat
    BY <1>16 DEF NewPulse, InCall, Advance, IsFull
  <2>2. ookState' \in OokStates /\ ret' \in {"none", "out"} \cup Packages /\ fpdm' \in Modes
    BY <1>16 DEF NewPulse, Advance, Emit
  <2>3. eop' \in BOOLEAN
    BY <1>16 DEF NewPulse
  <2> QED BY <2>1, <2>2, <2>3, TrainStep, DetectorStep
<1>17. ASSUME NEW level \in Levels, EmitSpurious(level) PROVE TypeOK'
  <2> USE DEF TypeOK
  <2>1. /\ counter' \in 0..len' /\ pos' \in Nat /\ len' \in Nat /\ pos' + len' <= MaxSamples
        /\ pulseLength' \in Nat /\ maxPulse' \in Nat /\ leadIn' \in 0..OOK_EST_LOW_RATIO + 1
        /\ offset' \in Nat /\ startAgo' \in Nat /\ endAgo' \in Nat
    BY <1>17 DEF EmitSpurious, InCall, Emit, IsFull
  <2>2. ookState' \in OokStates /\ ret' \in {"none", "out"} \cup Packages /\ fpdm' \in Modes
    BY <1>17 DEF EmitSpurious, Advance, Emit
  <2>3. eop' \in BOOLEAN
    BY <1>17 DEF EmitSpurious
  <2> QED BY <2>1, <2>2, <2>3, TrainStep, DetectorStep
<1>18. CASE UNCHANGED vars
  BY <1>18 DEF Inv, TypeOK
<1> QED BY <1>1, <1>2, <1>3, <1>4, <1>5, <1>6, <1>7, <1>8, <1>9, <1>10,
          <1>11, <1>12, <1>13, <1>14, <1>15, <1>16, <1>17, <1>18 DEF Next, Sample

-----------------------------------------------------------------------------
\* The initial state, before the first buffer.
LEMMA InitInv == Init => Inv
<1> SUFFICES ASSUME Init PROVE Inv
  OBVIOUS
<1>1. NoPulses \in PulseTrains /\ FskInit \in Detectors
  BY ZerosType, FskAssumption, InitFits DEF NoPulses, PulseTrains, FskFits
<1>2. TypeOK
  <2>1. eop \in BOOLEAN
    BY DEF Init
  <2>2. 0 \in 0..OOK_EST_LOW_RATIO + 1 /\ 0 + 0 <= MaxSamples
    BY DetectAssumption
  <2> QED BY <1>1, <2>1, <2>2 DEF Init, TypeOK
<1>3. AgeExact /\ GapBounded
  BY DEF Init, AgeExact, GapBounded
<1>4. RealPulses
  BY DEF Init, RealPulses, NoPulses, Zeros
<1> QED BY <1>2, <1>3, <1>4 DEF Init, Inv

\* The invariant of the detector.
THEOREM Invariance == Spec => []Inv
<1>1. ASSUME Inv, [Next]_vars PROVE Inv'
  BY <1>1, TypeStep, FitsStep, PlaceStep, AgeStep, GapStep, RealStep DEF Inv
<1>2. Inv /\ [Next]_vars => Inv'
  BY <1>1
<1> QED BY InitInv, <1>2, PTL DEF Spec

\* Type correctness of the package detector and of both FSK detectors.
THEOREM TypeCorrect == Spec => []TypeOK
<1>1. Inv => TypeOK
  BY DEF Inv
<1> QED BY Invariance, <1>1, PTL

\* Neither detector stores or reads a pulse or gap outside the arrays, for any
\* size of them and whatever is received.
THEOREM NoOverrun == Spec => []IndexSafe
<1>1. Inv => IndexSafe
  BY DEF Inv, IndexSafe, FskFits
<1> QED BY Invariance, <1>1, PTL

\* start_ago of a package being received is exact, over any cut into buffers.
THEOREM AgeIsExact == Spec => []AgeExact
<1>1. Inv => AgeExact
  BY DEF Inv
<1> QED BY Invariance, <1>1, PTL

\* Silence of more than PD_MAX_GAP_MS ends a package.
THEOREM SilenceEndsPackage == Spec => []GapBounded
<1>1. Inv => GapBounded
  BY DEF Inv
<1> QED BY Invariance, <1>1, PTL

\* No spurious pulse is stored as one.
THEOREM NoSpuriousPulse == Spec => []RealPulses
<1>1. Inv => RealPulses
  BY DEF Inv
<1> QED BY Invariance, <1>1, PTL

-----------------------------------------------------------------------------
(* The samples of a package.                                                *)

\* Trains and detectors have the fields Span() is about.
LEMMA SpanType ==
  ASSUME NEW p, p.pulse \in [Slots -> Nat], p.gap \in [Slots -> Nat],
         p.num \in 0..PD_MAX_PULSES
  PROVE  Span(p) \in Nat
<1>1. PD_MAX_PULSES \in Nat /\ \A i \in 0..PD_MAX_PULSES - 1 : i \in Slots
  BY FskAssumption DEF Slots
<1>2. \A i \in 0..PD_MAX_PULSES - 1 : p.pulse[i] \in Nat /\ p.gap[i] \in Nat
  BY <1>1
<1>3. SumBelow(p.pulse, p.num) \in Nat /\ SumBelow(p.gap, p.num) \in Nat
  BY <1>1, <1>2, SumType
<1> QED BY <1>3 DEF Span

\* Two trains that agree below num span the same.
LEMMA SpanSame ==
  ASSUME NEW p, NEW q, p.num \in Nat, q.num = p.num,
         \A i \in 0..p.num - 1 : q.pulse[i] = p.pulse[i] /\ q.gap[i] = p.gap[i]
  PROVE  Span(q) = Span(p)
<1> DEFINE k == p.num
<1>1. SumBelow(q.pulse, k) = SumBelow(p.pulse, k)
  BY SumSame
<1>2. SumBelow(q.gap, k) = SumBelow(p.gap, k)
  BY SumSame
<1> QED BY <1>1, <1>2 DEF Span

\* A train with one slot more spans that slot more.
LEMMA SpanNext ==
  ASSUME NEW p, NEW q, p.num \in Slots, q.num = p.num + 1,
         p.pulse \in [Slots -> Nat], p.gap \in [Slots -> Nat],
         q.pulse \in [Slots -> Nat], q.gap \in [Slots -> Nat],
         \A i \in 0..p.num - 1 : q.pulse[i] = p.pulse[i] /\ q.gap[i] = p.gap[i]
  PROVE  Span(q) = Span(p) + q.pulse[p.num] + q.gap[p.num]
<1> DEFINE k == p.num
<1>1. k \in Nat /\ k \in 0..PD_MAX_PULSES /\ PD_MAX_PULSES \in Nat
  BY FskAssumption DEF Slots
<1>2. SumBelow(q.pulse, k) = SumBelow(p.pulse, k) /\ SumBelow(q.gap, k) = SumBelow(p.gap, k)
  BY <1>1, SumSame
<1>3. /\ SumBelow(q.pulse, k + 1) = SumBelow(q.pulse, k) + q.pulse[k]
      /\ SumBelow(q.gap, k + 1) = SumBelow(q.gap, k) + q.gap[k]
  BY <1>1, SumNext
<1>4. SumBelow(p.pulse, k) \in Nat /\ SumBelow(p.gap, k) \in Nat
  <2>1. \A i \in 0..PD_MAX_PULSES - 1 : p.pulse[i] \in Nat /\ p.gap[i] \in Nat
    BY DEF Slots
  <2> QED BY <1>1, <2>1, SumType
<1>5. q.pulse[k] \in Nat /\ q.gap[k] \in Nat
  OBVIOUS
<1> QED BY <1>2, <1>3, <1>4, <1>5 DEF Span

\* Nothing is spanned before the first slot is complete.
LEMMA SpanNone == ASSUME NEW p, p.num = 0 PROVE Span(p) = 0
  BY SumOfNone DEF Span

\* A pulse stored in the slot in use is not spanned yet.
LEMMA StoreSpan ==
  ASSUME NEW p \in PulseTrains, p.num \in Slots, NEW n \in Nat
  PROVE  LET q == [p EXCEPT !.pulse[p.num] = n]
         IN  /\ Span(q) = Span(p) /\ q.num = p.num
             /\ q.pulse[p.num] = n
             /\ \A i \in Slots : i # p.num => q.pulse[i] = p.pulse[i]
<1> DEFINE w == [p.pulse EXCEPT ![p.num] = n]
           q == [p EXCEPT !.pulse = w]
<1>1. q = [p EXCEPT !.pulse[p.num] = n]
  BY DEF PulseTrains
<1>2. w[p.num] = n /\ \A i \in Slots : i # p.num => w[i] = p.pulse[i]
  BY DEF PulseTrains
<1> HIDE DEF w
<1>3. q.pulse = w /\ q.gap = p.gap /\ q.num = p.num
  BY DEF PulseTrains
<1>4. p.num \in Nat /\ \A i \in 0..p.num - 1 : i \in Slots /\ i # p.num
  BY FskAssumption DEF Slots
<1> HIDE DEF q
<1>5. Span(q) = Span(p)
  BY <1>2, <1>3, <1>4, SpanSame
<1> QED BY <1>1, <1>2, <1>3, <1>5

\* The gap completes it.
LEMMA EndGapSpan ==
  ASSUME NEW p \in PulseTrains, p.num \in Slots, NEW n \in Nat
  PROVE  Span(EndGap(p, n)) = Span(p) + p.pulse[p.num] + n
<1> DEFINE g == [p.gap EXCEPT ![p.num] = n]
           q == [p EXCEPT !.gap = g, !.num = p.num + 1]
<1>1. q = EndGap(p, n)
  BY DEF PulseTrains, EndGap
<1>2. /\ g[p.num] = n /\ g \in [Slots -> Nat]
      /\ \A i \in Slots : i # p.num => g[i] = p.gap[i]
  BY DEF PulseTrains
<1> HIDE DEF g
<1>3. /\ q.pulse = p.pulse /\ q.gap = g /\ q.num = p.num + 1
      /\ p.pulse \in [Slots -> Nat] /\ p.gap \in [Slots -> Nat]
  BY DEF PulseTrains
<1>4. \A i \in 0..p.num - 1 : i \in Slots /\ i # p.num
  BY FskAssumption DEF Slots
<1> HIDE DEF q
<1>5. Span(q) = Span(p) + q.pulse[p.num] + q.gap[p.num]
  BY <1>2, <1>3, <1>4, SpanNext
<1> QED BY <1>1, <1>2, <1>3, <1>5

\* A package of pulses p, at a state with l samples not stored yet, has taken m
\* samples.
Spans(state, p, l, m) ==
    /\ m = Span(p) + l + (IF state = "PULSE" THEN 0 ELSE p.pulse[p.num])
    /\ \A i \in Slots : i > p.num => p.pulse[i] = 0
    /\ state = "PULSE" => p.pulse[p.num] = 0 \/ l >= PD_MIN_PULSE_SAMPLES

\* The slots behind the one in use are empty, and a pulse that was resumed is
\* no spurious one: so a spurious pulse leaves nothing in its slot.
SpanInv ==
    /\ ookState # "IDLE" => Spans(ookState, pulses, pulseLength, Measured)
    /\ ret = "PULSE_DATA_OOK" =>
        Span(pulses) = Measured /\ Measured = startAgo - endAgo

\* Within a package every sample is measured.
LEMMA MeasuredNext ==
  ASSUME Inv, InCall, Advance, UNCHANGED offset
  PROVE  Measured' = Measured + 1 /\ ret' = "none" /\ Measured \in Int
BY DEF Inv, TypeOK, InCall, Advance, Measured, Now

\* A step that stores nothing.
LEMMA SpanCounted ==
  ASSUME Inv, SpanInv, ookState # "IDLE", InCall, Advance, UNCHANGED <<offset, pulses>>,
         pulseLength' = pulseLength + 1,
         ookState' = ookState \/ (ookState = "GAP_START" /\ ookState' = "GAP")
  PROVE  SpanInv'
<1>1. Measured' = Measured + 1 /\ ret' = "none" /\ Measured \in Int
  BY MeasuredNext
<1>2. Spans(ookState, pulses, pulseLength, Measured) /\ pulseLength \in Nat
  BY DEF SpanInv, Inv, TypeOK
<1>3. /\ pulses.num \in Slots /\ pulses.pulse[pulses.num] \in Nat
      /\ Span(pulses) \in Nat
  <2>1. pulses \in PulseTrains /\ pulses.num \in Slots
    BY DEF Inv, TypeOK
  <2>2. pulses.pulse \in [Slots -> Nat] /\ pulses.gap \in [Slots -> Nat]
        /\ pulses.num \in 0..PD_MAX_PULSES
    BY <2>1 DEF PulseTrains
  <2> QED BY <2>1, <2>2, SpanType
<1>4. Spans(ookState', pulses, pulseLength', Measured')
  BY <1>1, <1>2, <1>3, FskAssumption DEF Spans
<1> QED BY <1>1, <1>4 DEF SpanInv

\* What Inv says of the numbers below.
LEMMA TrainFacts ==
  ASSUME Inv, ookState # "IDLE"
  PROVE  /\ pulses \in PulseTrains /\ pulses.num \in Slots /\ pulses.num \in Nat
         /\ Span(pulses) \in Nat /\ pulseLength \in Nat
         /\ \A i \in Slots : pulses.pulse[i] \in Nat
         /\ offset \in Nat /\ startAgo = pos + len - offset
<1>1. /\ pulses \in PulseTrains /\ pulses.num \in Slots /\ pulseLength \in Nat
      /\ offset \in Nat /\ startAgo = pos + len - offset
  BY DEF Inv, TypeOK, AgeExact
<1>2. /\ pulses.pulse \in [Slots -> Nat] /\ pulses.gap \in [Slots -> Nat]
      /\ pulses.num \in 0..PD_MAX_PULSES /\ pulses.num \in Nat
  BY <1>1, FskAssumption DEF PulseTrains
<1> QED BY <1>1, <1>2, SpanType

\* A package of OOK pulses is returned: what it spans is what was measured.
LEMMA SpanEmitted ==
  ASSUME Inv, SpanInv, ookState # "IDLE", InCall, Emit("PULSE_DATA_OOK"),
         Span(pulses') = Measured + 1
  PROVE  SpanInv'
<1>1. /\ ret = "none" /\ pos \in Nat /\ len \in Nat /\ counter \in Nat
      /\ startAgo = pos + len - offset /\ offset \in Nat
  BY TrainFacts DEF Inv, TypeOK, InCall
<1>2. /\ ookState' = "IDLE" /\ ret' = "PULSE_DATA_OOK" /\ endAgo' = len - counter
      /\ UNCHANGED <<offset, startAgo, pos, len, counter>>
  BY DEF Emit
<1>3. Measured' = Measured + 1 /\ Measured' = startAgo' - endAgo'
  BY <1>1, <1>2 DEF Measured, Now
<1> QED BY <1>2, <1>3 DEF SpanInv

\* Every step keeps the count: what a pulse or gap gains, no other loses.
LEMMA SpanStep ==
  ASSUME Inv, SpanInv, [Next]_vars
  PROVE  SpanInv'
<1>1. ASSUME NEW n \in BufferSizes, NewBuffer(n) PROVE SpanInv'
  <2>1. Measured' = Measured
    <3>1. n \in Nat /\ pos \in Nat /\ len \in Nat /\ offset \in Nat
      BY DetectAssumption DEF Inv, TypeOK
    <3>2. ret = "out" /\ ret' = "none" /\ counter = 0
      BY <1>1 DEF NewBuffer, Inv
    <3> QED BY <1>1, <3>1, <3>2 DEF NewBuffer, Measured, Now
  <2> QED BY <1>1, <2>1 DEF NewBuffer, SpanInv
<1>2. ASSUME CallAgain PROVE SpanInv'
  <2>1. ookState' = "IDLE" /\ ret' = "none"
    BY <1>2 DEF CallAgain, Inv
  <2> QED BY <2>1 DEF SpanInv
<1>3. ASSUME OutOfData PROVE SpanInv'
  <2>1. Measured' = Measured
    BY <1>3 DEF OutOfData, Measured, Now
  <2> QED BY <1>3, <2>1 DEF OutOfData, SpanInv
<1>4. ASSUME Reset PROVE SpanInv'
  BY <1>4 DEF Reset, SpanInv
<1>5. ASSUME NEW level \in Levels, Idle(level) PROVE SpanInv'
  BY <1>5 DEF Idle, InCall, Advance, SpanInv
<1>6. ASSUME NEW level \in Levels, Begin(level) PROVE SpanInv'
  <2>1. Measured' = 0 /\ ret' = "none"
    BY <1>6 DEF Begin, InCall, Advance, Measured, Now, Inv, TypeOK
  <2>2. pulses' = NoPulses /\ ookState' = "PULSE" /\ pulseLength' = 0
    BY <1>6 DEF Begin
  <2>3. Span(NoPulses) = 0 /\ 0 \in Slots /\ NoPulses.num = 0
        /\ \A i \in Slots : NoPulses.pulse[i] = 0
    BY SpanNone, FskAssumption DEF NoPulses, Zeros, Slots
  <2>4. Spans("PULSE", NoPulses, 0, 0)
    BY <2>3 DEF Spans
  <2> QED BY <2>1, <2>2, <2>4 DEF SpanInv
<1>7. ASSUME NEW level \in Levels, NEW fm \in FmSamples, InPulse(level, fm) PROVE SpanInv'
  BY <1>7, SpanCounted DEF InPulse
<1>8. ASSUME NEW level \in Levels, NEW fm \in FmSamples, EndPulse(level, fm) PROVE SpanInv'
  <2> DEFINE l == pulseLength + 1
             q == [pulses EXCEPT !.pulse[pulses.num] = l]
  <2>1. /\ ookState = "PULSE" /\ ookState' = "GAP_START" /\ pulseLength' = 0
        /\ pulses' = q /\ InCall /\ Advance /\ UNCHANGED offset
    BY <1>8 DEF EndPulse
  <2>2. Measured' = Measured + 1 /\ ret' = "none"
    BY <2>1, MeasuredNext
  <2>3. l \in Nat /\ Spans("PULSE", pulses, pulseLength, Measured)
    BY <2>1, TrainFacts DEF SpanInv
  <2>4. /\ Span(q) = Span(pulses) /\ q.num = pulses.num /\ q.pulse[pulses.num] = l
        /\ \A i \in Slots : i # pulses.num => q.pulse[i] = pulses.pulse[i]
    BY <2>1, <2>3, TrainFacts, StoreSpan
  <2> HIDE DEF q
  <2>5. \A i \in Slots : i > q.num => q.pulse[i] = 0
    <3>1. \A i \in Slots : i > pulses.num => i # pulses.num
      BY <2>1, TrainFacts DEF Slots
    <3> QED BY <2>3, <2>4, <3>1 DEF Spans
  <2>6. Spans("GAP_START", q, 0, Measured + 1)
    BY <2>1, <2>3, <2>4, <2>5, TrainFacts DEF Spans
  <2> QED BY <2>1, <2>2, <2>6 DEF SpanInv
<1>9. ASSUME NEW level \in Levels, NEW fm \in FmSamples, SpuriousPulse(level, fm) PROVE SpanInv'
  <2>1. /\ ookState = "PULSE" /\ pulseLength' = pulseLength + 1 /\ InCall /\ Advance
        /\ ookState' = "IDLE" \/ (ookState' = "GAP" /\ UNCHANGED <<offset, pulses>>)
        /\ pulseLength + 1 < PD_MIN_PULSE_SAMPLES /\ ret' = "none" /\ UNCHANGED offset
    BY <1>9 DEF SpuriousPulse, Spurious, Advance, InCall
  <2>2. CASE ookState' = "IDLE"
    BY <2>1, <2>2 DEF SpanInv
  <2>3. CASE ookState' = "GAP" /\ UNCHANGED pulses
    <3>1. Measured' = Measured + 1
      BY <2>1, MeasuredNext
    <3>2. Spans("PULSE", pulses, pulseLength, Measured)
      BY <2>1 DEF SpanInv
    <3>3. pulses.pulse[pulses.num] = 0
      BY <2>1, <3>2, TrainFacts, FskAssumption DEF Spans
    <3>4. Spans("GAP", pulses, pulseLength + 1, Measured + 1)
      BY <2>1, <3>2, <3>3, TrainFacts DEF Spans
    <3> QED BY <2>1, <2>3, <3>1, <3>4 DEF SpanInv
  <2> QED BY <2>1, <2>2, <2>3, <1>9 DEF SpuriousPulse
<1>10. ASSUME NEW level \in Levels, NEW fm \in FmSamples, ResumePulse(level, fm) PROVE SpanInv'
  <2> DEFINE l == pulseLength + 1 + pulses.pulse[pulses.num]
  <2>1. /\ ookState = "GAP_START" /\ ookState' = "PULSE" /\ InCall /\ Advance
        /\ pulseLength' = l /\ UNCHANGED <<offset, pulses>>
    BY <1>10 DEF ResumePulse, RestoreCount
  <2>2. Measured' = Measured + 1 /\ ret' = "none"
    BY <2>1, MeasuredNext
  <2>3. Spans("GAP_START", pulses, pulseLength, Measured)
    BY <2>1 DEF SpanInv
  <2>4. \/ pulses.pulse[pulses.num] = 0
        \/ pulses.pulse[pulses.num] >= PD_MIN_PULSE_SAMPLES
    BY <2>1, TrainFacts DEF Inv, RealPulses
  <2>5. Spans("PULSE", pulses, l, Measured + 1)
    BY <2>1, <2>3, <2>4, TrainFacts, FskAssumption DEF Spans
  <2> QED BY <2>1, <2>2, <2>5 DEF SpanInv
<1>11. ASSUME NEW level \in Levels, NEW fm \in FmSamples, StartGap(level, fm) PROVE SpanInv'
  BY <1>11, SpanCounted DEF StartGap
<1>12. ASSUME NEW level \in Levels, EmitFsk(level) PROVE SpanInv'
  BY <1>12 DEF EmitFsk, Emit, SpanInv
<1>13. ASSUME NEW level \in Levels, InGap(level) PROVE SpanInv'
  BY <1>13, SpanCounted DEF InGap
<1>14. ASSUME NEW level \in Levels, EmitOok(level) PROVE SpanInv'
  <2>1. /\ ookState = "GAP" /\ InCall /\ Emit("PULSE_DATA_OOK")
        /\ pulses' = EndGap(pulses, pulseLength + 1)
    BY <1>14 DEF EmitOok
  <2>2. Spans("GAP", pulses, pulseLength, Measured)
    BY <2>1 DEF SpanInv
  <2>3. Span(pulses') = Span(pulses) + pulses.pulse[pulses.num] + (pulseLength + 1)
    BY <2>1, TrainFacts, EndGapSpan
  <2>4. Span(pulses') = Measured + 1
    BY <2>1, <2>2, <2>3, TrainFacts DEF Spans
  <2> QED BY <2>1, <2>4, SpanEmitted
<1>15. ASSUME NEW level \in Levels, EmitFull(level) PROVE SpanInv'
  <2>1. /\ ookState = "GAP" /\ InCall /\ Emit("PULSE_DATA_OOK")
        /\ pulses' = EndGap(pulses, pulseLength + 1)
    BY <1>15 DEF EmitFull
  <2>2. Spans("GAP", pulses, pulseLength, Measured)
    BY <2>1 DEF SpanInv
  <2>3. Span(pulses') = Span(pulses) + pulses.pulse[pulses.num] + (pulseLength + 1)
    BY <2>1, TrainFacts, EndGapSpan
  <2>4. Span(pulses') = Measured + 1
    BY <2>1, <2>2, <2>3, TrainFacts DEF Spans
  <2> QED BY <2>1, <2>4, SpanEmitted
<1>16. ASSUME NEW level \in Levels, NewPulse(level) PROVE SpanInv'
  <2> DEFINE q == EndGap(pulses, pulseLength + 1)
  <2>1. /\ ookState = "GAP" /\ ookState' = "PULSE" /\ pulseLength' = 0
        /\ pulses' = q /\ InCall /\ Advance /\ UNCHANGED offset
        /\ ~(q.num >= PD_MAX_PULSES)
    BY <1>16 DEF NewPulse, IsFull
  <2>2. Measured' = Measured + 1 /\ ret' = "none"
    BY <2>1, MeasuredNext
  <2>3. Spans("GAP", pulses, pulseLength, Measured)
    BY <2>1 DEF SpanInv
  <2>4. Span(q) = Span(pulses) + pulses.pulse[pulses.num] + (pulseLength + 1)
    BY <2>1, TrainFacts, EndGapSpan
  <2>5. q.num = pulses.num + 1 /\ q.pulse = pulses.pulse
    <3> DEFINE l == pulseLength + 1
    <3>1. l \in Nat /\ pulses \in PulseTrains /\ pulses.num \in Slots
      BY <2>1, TrainFacts
    <3> HIDE DEF l
    <3> QED BY <3>1, StoreType DEF l
  <2> HIDE DEF q
  <2>6. q.num \in Slots /\ q.num > pulses.num
    BY <2>1, <2>5, TrainFacts, FskAssumption DEF Slots
  <2>7. \A i \in Slots : i > q.num => q.pulse[i] = 0
    <3>1. \A i \in Slots : i > q.num => i > pulses.num
      BY <2>1, <2>5, TrainFacts, FskAssumption DEF Slots
    <3> QED BY <2>3, <2>5, <3>1 DEF Spans
  <2>8. q.pulse[q.num] = 0
    BY <2>3, <2>5, <2>6 DEF Spans
  <2>9. Spans("PULSE", q, 0, Measured + 1)
    BY <2>1, <2>3, <2>4, <2>7, <2>8, TrainFacts DEF Spans
  <2> QED BY <2>1, <2>2, <2>9 DEF SpanInv
<1>17. ASSUME NEW level \in Levels, EmitSpurious(level) PROVE SpanInv'
  <2> DEFINE q == EndGap(pulses, pulseLength + 1)
  <2>1. /\ ookState = "GAP" /\ InCall /\ Emit("PULSE_DATA_OOK")
        /\ pulses' = EndGap(q, 0) /\ ~(q.num >= PD_MAX_PULSES)
    BY <1>17 DEF EmitSpurious, IsFull
  <2>2. Spans("GAP", pulses, pulseLength, Measured)
    BY <2>1 DEF SpanInv
  <2>3. Span(q) = Span(pulses) + pulses.pulse[pulses.num] + (pulseLength + 1)
    BY <2>1, TrainFacts, EndGapSpan
  <2>4. q \in PulseTrains /\ q.num = pulses.num + 1 /\ q.pulse = pulses.pulse
    <3> DEFINE l == pulseLength + 1
    <3>1. l \in Nat /\ pulses \in PulseTrains /\ pulses.num \in Slots
      BY <2>1, TrainFacts
    <3> HIDE DEF l
    <3> QED BY <3>1, StoreType DEF l
  <2> HIDE DEF q
  <2>5. q.num \in Slots /\ q.num > pulses.num
    BY <2>1, <2>4, TrainFacts, FskAssumption DEF Slots
  <2>6. q.pulse[q.num] = 0
    BY <2>2, <2>4, <2>5 DEF Spans
  <2>7. Span(EndGap(q, 0)) = Span(q) + q.pulse[q.num] + 0
    BY <2>4, <2>5, EndGapSpan
  <2>8. Span(pulses') = Measured + 1
    BY <2>1, <2>2, <2>3, <2>6, <2>7, TrainFacts DEF Spans
  <2> QED BY <2>1, <2>8, SpanEmitted
<1>18. CASE UNCHANGED vars
  <2>1. Measured' = Measured
    BY <1>18 DEF Measured, Now
  <2> QED BY <1>18, <2>1 DEF SpanInv
<1> QED BY <1>1, <1>2, <1>3, <1>4, <1>5, <1>6, <1>7, <1>8, <1>9, <1>10,
          <1>11, <1>12, <1>13, <1>14, <1>15, <1>16, <1>17, <1>18 DEF Next, Sample

\* No sample of a package is lost or counted twice, however the signal is cut
\* into buffers: an OOK package spans the samples from its first to its last,
\* which is what start_ago and end_ago say.
THEOREM EverySampleSpanned == Spec => []SpanExact
<1>1. Init => SpanInv
  BY DEF Init, SpanInv
<1>2. Inv /\ SpanInv /\ [Next]_vars => SpanInv'
  BY SpanStep
<1>3. Inv /\ SpanInv => SpanExact
  BY DEF Inv, SpanInv, Spans, SpanExact
<1> QED BY Invariance, <1>1, <1>2, <1>3, PTL DEF Spec

-----------------------------------------------------------------------------
(* The samples of an FSK package.                                           *)

\* All samples the detector has taken: the complete slots, the pulse of the gap
\* that is being received, and what is not stored yet.
Total(f) == Span(f) + f.length + (IF f.state = "FL" THEN f.pulse[f.num] ELSE 0)

\* The fields of a detector given one by one.
LEMMA BuiltFields ==
  ASSUME NEW f \in Detectors, NEW st, NEW l, NEW n, NEW p, NEW g
  PROVE  LET r == Built(f, st, l, n, p, g)
         IN  /\ r.state = st /\ r.length = l /\ r.num = n /\ r.pulse = p /\ r.gap = g
             /\ r.offset = f.offset
  BY DEF Built, Detectors

\* The types of the fields, for a detector with a slot in use.
LEMMA DetectorFacts ==
  ASSUME NEW f \in Detectors, f.num \in Slots
  PROVE  /\ f.pulse \in [Slots -> Nat] /\ f.gap \in [Slots -> Nat]
         /\ f.num \in Nat /\ f.length \in Nat /\ f.offset \in Nat
         /\ Span(f) \in Nat /\ f.pulse[f.num] \in Nat /\ f.gap[f.num] \in Nat
<1>1. /\ f.pulse \in [Slots -> Nat] /\ f.gap \in [Slots -> Nat]
      /\ f.num \in Nat /\ f.length \in Nat /\ f.offset \in Nat
  BY DEF Detectors
<1>2. f.num \in 0..PD_MAX_PULSES
  BY FskAssumption DEF Slots
<1> QED BY <1>1, <1>2, SpanType

\* A sample is counted.
LEMMA CountTotal ==
  ASSUME NEW f \in Detectors, f.num \in Slots
  PROVE  LET g == [f EXCEPT !.length = @ + 1]
         IN  Total(g) = Total(f) + 1 /\ g.offset = f.offset
<1> DEFINE g == [f EXCEPT !.length = @ + 1]
<1>1. /\ g.pulse = f.pulse /\ g.gap = f.gap /\ g.num = f.num /\ g.state = f.state
      /\ g.length = f.length + 1 /\ g.offset = f.offset
  BY DEF Detectors
<1> HIDE DEF g
<1>2. Span(g) = Span(f)
  BY <1>1 DEF Span
<1>3. Total(g) = Total(f) + 1
  BY <1>1, <1>2, DetectorFacts DEF Total
<1> QED BY <1>1, <1>3 DEF g

\* The first frequency jump.
LEMMA FromInitTotal ==
  ASSUME NEW f, FskFits(f, "OLD"), f.state = "INIT", NEW fm \in FmSamples
  PROVE  Total(FromInit(f, fm)) = Total(f) /\ FromInit(f, fm).offset = f.offset
<1>0. /\ f \in Detectors /\ f.num = 0 /\ f.num \in Slots /\ 0 \in Slots
      /\ f.pulse \in [Slots -> Nat] /\ f.gap \in [Slots -> Nat] /\ f.length \in Nat
  BY DetectorFacts DEF FskFits
<1>1. Total(f) = f.length
  BY <1>0, SpanNone DEF Total
<1>2. CASE TooShort(f) \/ fm = "flat"
  BY <1>2 DEF FromInit
<1>3. CASE ~TooShort(f) /\ fm = "up"
  <2> DEFINE p == [f.pulse EXCEPT ![0] = 0]
             g == [f.gap EXCEPT ![0] = f.length]
             r == Built(f, "FH", 0, 1, p, g)
  <2>1. FromInit(f, fm) = r
    <3>1. FromInit(f, fm) = [f EXCEPT !.state = "FH", !.pulse[0] = 0,
                                      !.gap[0] = f.length, !.num = f.num + 1,
                                      !.length = 0]
      BY <1>3 DEF FromInit
    <3>2. f.num + 1 = 1
      BY <1>0
    <3> QED BY <1>0, <3>1, <3>2 DEF Built, Detectors
  <2>2. /\ p \in [Slots -> Nat] /\ g \in [Slots -> Nat] /\ p[0] = 0 /\ g[0] = f.length
    BY <1>0
  <2> HIDE DEF p, g
  <2>3. /\ r.state = "FH" /\ r.length = 0 /\ r.num = 1 /\ r.pulse = p /\ r.gap = g
        /\ r.offset = f.offset
    BY <1>0, BuiltFields
  <2> HIDE DEF r
  <2>4. r.num = f.num + 1
    BY <1>0, <2>3
  <2>5. \A i \in 0..f.num - 1 : r.pulse[i] = f.pulse[i] /\ r.gap[i] = f.gap[i]
    BY <1>0
  <2>6. Span(r) = Span(f) + p[0] + g[0]
    BY <1>0, <2>2, <2>3, <2>4, <2>5, SpanNext
  <2> QED BY <1>0, <1>1, <2>1, <2>2, <2>3, <2>6, SpanNone DEF Total
<1>4. CASE ~TooShort(f) /\ fm = "down"
  <2> DEFINE p == [f.pulse EXCEPT ![0] = f.length]
             r == Built(f, "FL", 0, 0, p, f.gap)
  <2>1. FromInit(f, fm) = r
    BY <1>0, <1>4 DEF Built, FromInit, Detectors
  <2>2. p[0] = f.length
    BY <1>0
  <2> HIDE DEF p
  <2>3. r.state = "FL" /\ r.length = 0 /\ r.num = 0 /\ r.pulse = p /\ r.offset = f.offset
    BY <1>0, BuiltFields
  <2> HIDE DEF r
  <2> QED BY <1>0, <1>1, <2>1, <2>2, <2>3, SpanNone DEF Total
<1> QED BY <1>2, <1>3, <1>4, FskAssumption

\* A pulse is stored, or what it was is added to the gap before it.
LEMMA FromHighTotal ==
  ASSUME NEW f, FskFits(f, "OLD"), f.state = "FH", NEW fm \in FmSamples
  PROVE  Total(FromHigh(f, fm)) = Total(f) /\ FromHigh(f, fm).offset = f.offset
<1>0. /\ f \in Detectors /\ f.num \in Slots /\ f.num > 0 /\ f.num \in Nat
      /\ f.pulse \in [Slots -> Nat] /\ f.gap \in [Slots -> Nat] /\ f.length \in Nat
      /\ Span(f) \in Nat /\ Total(f) = Span(f) + f.length
  BY DetectorFacts DEF FskFits, Total
<1>1. CASE fm # "down"
  BY <1>1 DEF FromHigh
<1>2. CASE fm = "down" /\ ~TooShort(f)
  <2> DEFINE p == [f.pulse EXCEPT ![f.num] = f.length]
             r == Built(f, "FL", 0, f.num, p, f.gap)
  <2>1. FromHigh(f, fm) = r
    BY <1>0, <1>2 DEF FromHigh, StorePulse, Built, Detectors
  <2>2. p[f.num] = f.length /\ \A i \in Slots : i # f.num => p[i] = f.pulse[i]
    BY <1>0
  <2> HIDE DEF p
  <2>3. /\ r.state = "FL" /\ r.length = 0 /\ r.num = f.num /\ r.pulse = p
        /\ r.gap = f.gap /\ r.offset = f.offset
    BY <1>0, BuiltFields
  <2> HIDE DEF r
  <2>4. \A i \in 0..f.num - 1 : i \in Slots /\ i # f.num
    BY <1>0, FskAssumption DEF Slots
  <2>5. Span(r) = Span(f)
    BY <1>0, <2>2, <2>3, <2>4, SpanSame
  <2> QED BY <1>0, <2>1, <2>2, <2>3, <2>5 DEF Total
<1>3. CASE fm = "down" /\ TooShort(f)
  <2> DEFINE st == IF f.num - 1 = 0 /\ f.pulse[0] = 0 THEN "INIT" ELSE "FL"
             n == f.num - 1
             l == f.length + f.gap[n]
             r == Built(f, st, l, n, f.pulse, f.gap)
  <2>1. FromHigh(f, fm) = r
    BY <1>0, <1>3 DEF Built, FromHigh, RewindGap, Detectors
  <2>2. /\ n \in Slots /\ n \in Nat /\ f.num = n + 1
        /\ (st = "FL" \/ (st = "INIT" /\ f.pulse[n] = 0))
    BY <1>0, FskAssumption DEF Slots
  <2>3. l = f.length + f.gap[n]
    OBVIOUS
  <2> HIDE DEF st, n, l
  <2>4. /\ r.state = st /\ r.length = l /\ r.num = n /\ r.pulse = f.pulse
        /\ r.gap = f.gap /\ r.offset = f.offset
    BY <1>0, BuiltFields
  <2> HIDE DEF r
  <2>5. Span(f) = Span(r) + f.pulse[n] + f.gap[n]
    <3>1. f.num = r.num + 1 /\ r.num \in Slots
      BY <2>2, <2>4
    <3>2. \A i \in 0..r.num - 1 : f.pulse[i] = r.pulse[i] /\ f.gap[i] = r.gap[i]
      BY <2>4
    <3> QED BY <1>0, <2>4, <3>1, <3>2, SpanNext
  <2>6. f.pulse[n] \in Nat /\ f.gap[n] \in Nat /\ Span(r) \in Nat
    <3>1. r.num \in 0..PD_MAX_PULSES
      BY <2>2, <2>4, FskAssumption DEF Slots
    <3> QED BY <1>0, <2>2, <2>4, <3>1, SpanType
  <2> QED BY <1>0, <2>1, <2>2, <2>3, <2>4, <2>5, <2>6 DEF Total
<1> QED BY <1>1, <1>2, <1>3

\* A gap completes its slot, or is added to the pulse before it. Shifted slots
\* are counted in the offset.
LEMMA FromLowTotal ==
  ASSUME NEW f, FskFits(f, "OLD"), f.state = "FL", NEW fm \in FmSamples
  PROVE  /\ FromLow(f, fm).offset # 0
            \/ (Total(FromLow(f, fm)) = Total(f) /\ f.offset = 0)
<1>0. /\ f \in Detectors /\ f.num \in Slots /\ f.num \in Nat /\ f.offset \in Nat
      /\ f.pulse \in [Slots -> Nat] /\ f.gap \in [Slots -> Nat] /\ f.length \in Nat
      /\ Span(f) \in Nat /\ f.pulse[f.num] \in Nat
      /\ Total(f) = Span(f) + f.length + f.pulse[f.num]
  BY DetectorFacts DEF FskFits, Total
<1>1. CASE fm # "up"
  BY <1>1 DEF FromLow
<1>2. CASE fm = "up" /\ ~TooShort(f)
  <2> DEFINE g == [f.gap EXCEPT ![f.num] = f.length]
             s == [f EXCEPT !.gap = g, !.num = f.num + 1, !.length = 0]
  <2>1. s = StoreGap(f)
    BY DEF StoreGap, Detectors
  <2>2. s \in Detectors /\ s.num = f.num + 1 /\ s.num \in 1..PD_MAX_PULSES
    BY <1>0, <2>1, StoreGapFits, FskAssumption DEF Slots
  <2>3. FromLow(f, fm) = [MakeRoom(s) EXCEPT !.state = "FH"]
    BY <1>2, <2>1 DEF FromLow
  <2>4. s.offset = f.offset /\ s.pulse = f.pulse /\ s.gap = g /\ s.length = 0
    BY DEF Detectors
  <2>5. /\ g[f.num] = f.length /\ g \in [Slots -> Nat]
        /\ \A i \in Slots : i # f.num => g[i] = f.gap[i]
    BY <1>0
  <2> HIDE DEF g, s
  <2>6. CASE NeedsRoom(s)
    <3>1. MakeRoom(s) = Shift(s) /\ Shift(s).offset = s.offset + Offs
      BY <2>2, <2>6 DEF MakeRoom, Shift, Detectors
    <3>2. MakeRoom(s) \in Detectors
      BY <2>2, MakeRoomFits
    <3>3. FromLow(f, fm).offset = s.offset + Offs
      BY <2>3, <3>1, <3>2 DEF Detectors
    <3>4. s.offset + Offs # 0
      BY <1>0, <2>4, OffsFits, FskAssumption
    <3> QED BY <3>3, <3>4
  <2>7. CASE ~NeedsRoom(s)
    <3> DEFINE r == [s EXCEPT !.state = "FH"]
    <3>1. FromLow(f, fm) = r
      BY <2>3, <2>7 DEF MakeRoom
    <3>2. /\ r.state = "FH" /\ r.length = 0 /\ r.num = f.num + 1 /\ r.pulse = f.pulse
          /\ r.gap = g /\ r.offset = f.offset
      BY <2>2, <2>4 DEF Detectors
    <3> HIDE DEF r
    <3>3. \A i \in 0..f.num - 1 : r.pulse[i] = f.pulse[i] /\ r.gap[i] = f.gap[i]
      <4>1. \A i \in 0..f.num - 1 : i \in Slots /\ i # f.num
        BY <1>0, FskAssumption DEF Slots
      <4> QED BY <2>5, <3>2, <4>1
    <3>4. Span(r) = Span(f) + f.pulse[f.num] + f.length
      BY <1>0, <2>5, <3>2, <3>3, SpanNext
    <3>5. Total(r) = Total(f)
      BY <1>0, <3>2, <3>4 DEF Total
    <3> QED BY <3>1, <3>2, <3>5
  <2> QED BY <2>6, <2>7
<1>3. CASE fm = "up" /\ TooShort(f)
  <2> DEFINE st == IF f.num = 0 THEN "INIT" ELSE "FH"
             l == f.length + f.pulse[f.num]
             r == Built(f, st, l, f.num, f.pulse, f.gap)
  <2>1. FromLow(f, fm) = r
    BY <1>0, <1>3 DEF Built, FromLow, RewindPulse, Detectors
  <2>2. st # "FL" /\ l = f.length + f.pulse[f.num]
    OBVIOUS
  <2> HIDE DEF st, l
  <2>3. /\ r.state = st /\ r.length = l /\ r.num = f.num /\ r.pulse = f.pulse
        /\ r.gap = f.gap /\ r.offset = f.offset
    BY <1>0, BuiltFields
  <2> HIDE DEF r
  <2>4. Span(r) = Span(f)
    BY <2>3 DEF Span
  <2>5. Total(r) = Total(f)
    BY <1>0, <2>2, <2>3, <2>4 DEF Total
  <2> QED BY <2>1, <2>3, <2>5
<1> QED BY <1>1, <1>2, <1>3

\* pulse_detect_fsk_classic() takes one sample and loses none, unless it shifts
\* the slots.
LEMMA ClassicTotal ==
  ASSUME NEW f, FskFits(f, "OLD"), NEW fm \in FmSamples, Classic(f, fm).offset = 0
  PROVE  Total(Classic(f, fm)) = Total(f) + 1 /\ f.offset = 0
<1> DEFINE g == [f EXCEPT !.length = @ + 1]
<1>1. FskFits(g, "OLD") /\ g.state = f.state
  BY CountFits DEF FskFits
<1>2. f.state \in {"INIT", "FH", "FL"} /\ f \in Detectors /\ f.num \in Slots
  BY DEF FskFits, Detectors, FskStates
<1>3. Total(g) = Total(f) + 1 /\ g.offset = f.offset
  BY <1>2, CountTotal
<1>4. CASE f.state = "INIT"
  <2>1. Classic(f, fm) = FromInit(g, fm)
    BY <1>4 DEF Classic
  <2> HIDE DEF g
  <2> QED BY <1>1, <1>3, <1>4, <2>1, FromInitTotal
<1>5. CASE f.state = "FH"
  <2>1. Classic(f, fm) = FromHigh(g, fm)
    BY <1>5 DEF Classic
  <2> HIDE DEF g
  <2> QED BY <1>1, <1>3, <1>5, <2>1, FromHighTotal
<1>6. CASE f.state = "FL"
  <2>1. Classic(f, fm) = FromLow(g, fm)
    BY <1>6 DEF Classic
  <2> HIDE DEF g
  <2> QED BY <1>1, <1>3, <1>6, <2>1, FromLowTotal
<1> QED BY <1>2, <1>4, <1>5, <1>6

\* pulse_detect_fsk_wrap_up() takes the last sample and completes the last slot.
LEMMA WrapUpTotal ==
  ASSUME NEW f, FskFits(f, "OLD"), f.state # "INIT"
  PROVE  Span(WrapUp(f)) = Total(f) + 1 /\ WrapUp(f).offset = f.offset
<1>a. f \in Detectors /\ f.num \in Slots
  BY DEF FskFits
<1>b. f.state = "FH" \/ f.state = "FL"
  BY <1>a DEF Detectors, FskStates
<1>c. ~(f.num >= PD_MAX_PULSES) /\ \A i \in 0..f.num - 1 : i \in Slots /\ i # f.num
  BY <1>a, FskAssumption DEF Slots
<1>0. /\ f \in Detectors /\ f.num \in Slots /\ f.num \in Nat
      /\ f.pulse \in [Slots -> Nat] /\ f.gap \in [Slots -> Nat] /\ f.length \in Nat
      /\ Span(f) \in Nat /\ f.pulse[f.num] \in Nat
      /\ ~(f.num >= PD_MAX_PULSES)
      /\ \A i \in 0..f.num - 1 : i \in Slots /\ i # f.num
  BY <1>a, <1>c, DetectorFacts
<1>1. CASE f.state = "FH"
  <2> DEFINE p == [f.pulse EXCEPT ![f.num] = f.length + 1]
             g == [f.gap EXCEPT ![f.num] = 0]
             r == Built(f, "FH", f.length + 1, f.num + 1, p, g)
  <2>1. WrapUp(f) = r
    BY <1>0, <1>1 DEF Built, WrapUp, Detectors
  <2>2. /\ p \in [Slots -> Nat] /\ g \in [Slots -> Nat]
        /\ p[f.num] = f.length + 1 /\ g[f.num] = 0
        /\ \A i \in Slots : i # f.num => p[i] = f.pulse[i] /\ g[i] = f.gap[i]
    BY <1>0
  <2> HIDE DEF p, g
  <2>3. r.num = f.num + 1 /\ r.pulse = p /\ r.gap = g /\ r.offset = f.offset
    BY <1>0, BuiltFields
  <2> HIDE DEF r
  <2>4. \A i \in 0..f.num - 1 : r.pulse[i] = f.pulse[i] /\ r.gap[i] = f.gap[i]
    BY <1>0, <2>2, <2>3
  <2>5. Span(r) = Span(f) + p[f.num] + g[f.num]
    BY <1>0, <2>2, <2>3, <2>4, SpanNext
  <2>6. Total(f) = Span(f) + f.length
    BY <1>0, <1>1 DEF Total
  <2> QED BY <1>0, <2>1, <2>2, <2>3, <2>5, <2>6
<1>2. CASE f.state = "FL"
  <2> DEFINE g == [f.gap EXCEPT ![f.num] = f.length + 1]
             r == Built(f, "FL", f.length + 1, f.num + 1, f.pulse, g)
  <2>1. WrapUp(f) = r
    BY <1>0, <1>2 DEF Built, WrapUp, Detectors
  <2>2. /\ g \in [Slots -> Nat] /\ g[f.num] = f.length + 1
        /\ \A i \in Slots : i # f.num => g[i] = f.gap[i]
    BY <1>0
  <2> HIDE DEF g
  <2>3. r.num = f.num + 1 /\ r.pulse = f.pulse /\ r.gap = g /\ r.offset = f.offset
    BY <1>0, BuiltFields
  <2> HIDE DEF r
  <2>4. \A i \in 0..f.num - 1 : r.pulse[i] = f.pulse[i] /\ r.gap[i] = f.gap[i]
    BY <1>0, <2>2, <2>3
  <2>5. Span(r) = Span(f) + f.pulse[f.num] + g[f.num]
    BY <1>0, <2>2, <2>3, <2>4, SpanNext
  <2>6. Total(f) = Span(f) + f.length + f.pulse[f.num]
    BY <1>0, <1>2 DEF Total
  <2> QED BY <1>0, <2>1, <2>2, <2>3, <2>5, <2>6
<1> QED BY <1>b, <1>1, <1>2

\* In the first pulse, and in the gap that may not be one, the classic detector
\* has taken every sample of the package that it has not shifted out.
FskTotal ==
    /\ ookState \in {"PULSE", "GAP_START"} /\ fpdm = "OLD" /\ pulses.num = 0
       /\ fsk.offset = 0 => Measured = Total(fsk)
    /\ FskSpanExact

\* Not in the first pulse any more, or not in a package.
LEMMA FskPast ==
  ASSUME \/ ookState' = "IDLE" \/ ookState' = "GAP" \/ pulses'.num # 0,
         ret' # "PULSE_DATA_FSK"
  PROVE  FskTotal'
BY DEF FskTotal, FskSpanExact

\* Both detectors take the sample.
LEMMA FskCounted ==
  ASSUME Inv, FskTotal, ookState \in {"PULSE", "GAP_START"}, InCall, Advance,
         UNCHANGED offset, pulses'.num = pulses.num, NEW fm \in FmSamples, FskStep(fm)
  PROVE  FskTotal'
<1>1. Measured' = Measured + 1 /\ ret' = "none" /\ Measured \in Int
  BY MeasuredNext
<1>2. fpdm' = fpdm
  BY DEF Advance
<1> SUFFICES ASSUME fpdm = "OLD", pulses.num = 0, fsk'.offset = 0
             PROVE  Measured' = Total(fsk')
  BY <1>1, <1>2 DEF FskTotal, FskSpanExact
<1>3. fsk' = Classic(fsk, fm) /\ FskFits(fsk, "OLD")
  BY DEF FskStep, Inv
<1>4. Total(fsk') = Total(fsk) + 1 /\ fsk.offset = 0
  BY <1>3, ClassicTotal
<1>5. Measured = Total(fsk)
  BY <1>4 DEF FskTotal
<1> QED BY <1>1, <1>4, <1>5

\* Every step keeps the FSK count too.
LEMMA FskTotalStep ==
  ASSUME Inv, FskTotal, [Next]_vars
  PROVE  FskTotal'
<1>1. ASSUME NEW n \in BufferSizes, NewBuffer(n) PROVE FskTotal'
  <2>1. Measured' = Measured
    <3>1. n \in Nat /\ pos \in Nat /\ len \in Nat /\ offset \in Nat
      BY DetectAssumption DEF Inv, TypeOK
    <3>2. ret = "out" /\ ret' = "none" /\ counter = 0
      BY <1>1 DEF NewBuffer, Inv
    <3> QED BY <1>1, <3>1, <3>2 DEF NewBuffer, Measured, Now
  <2>2. ret' = "none" /\ UNCHANGED <<ookState, pulses, fsk, fpdm>>
    BY <1>1 DEF NewBuffer
  <2> QED BY <2>1, <2>2 DEF FskTotal, FskSpanExact
<1>2. ASSUME CallAgain PROVE FskTotal'
  <2>1. ookState' = "IDLE" /\ ret' = "none"
    BY <1>2 DEF CallAgain, Inv
  <2> QED BY <2>1, FskPast
<1>3. ASSUME OutOfData PROVE FskTotal'
  <2>1. Measured' = Measured /\ ret' = "out" /\ UNCHANGED <<ookState, pulses, fsk, fpdm>>
    BY <1>3 DEF OutOfData, Measured, Now
  <2> QED BY <2>1 DEF FskTotal, FskSpanExact
<1>4. ASSUME Reset PROVE FskTotal'
  BY <1>4, FskPast DEF Reset
<1>5. ASSUME NEW level \in Levels, Idle(level) PROVE FskTotal'
  BY <1>5, FskPast DEF Idle, InCall, Advance
<1>6. ASSUME NEW level \in Levels, Begin(level) PROVE FskTotal'
  <2>1. Measured' = 0 /\ ret' = "none" /\ fsk' = FskInit
    BY <1>6 DEF Begin, InCall, Advance, Measured, Now, Inv, TypeOK
  <2>2. Total(FskInit) = 0
    BY SpanNone DEF FskInit, Total
  <2> QED BY <2>1, <2>2 DEF FskTotal, FskSpanExact
<1>7. ASSUME NEW level \in Levels, NEW fm \in FmSamples, InPulse(level, fm) PROVE FskTotal'
  BY <1>7, FskCounted DEF InPulse
<1>8. ASSUME NEW level \in Levels, NEW fm \in FmSamples, EndPulse(level, fm) PROVE FskTotal'
  <2>1. /\ ookState = "PULSE" /\ InCall /\ Advance /\ UNCHANGED offset /\ FskStep(fm)
        /\ pulses' = [pulses EXCEPT !.pulse[pulses.num] = pulseLength + 1]
    BY <1>8 DEF EndPulse
  <2>2. pulses'.num = pulses.num
    BY <2>1, TrainFacts DEF PulseTrains
  <2> QED BY <2>1, <2>2, FskCounted
<1>9. ASSUME NEW level \in Levels, NEW fm \in FmSamples, SpuriousPulse(level, fm) PROVE FskTotal'
  BY <1>9, FskPast DEF SpuriousPulse, InCall, Advance
<1>10. ASSUME NEW level \in Levels, NEW fm \in FmSamples, ResumePulse(level, fm) PROVE FskTotal'
  BY <1>10, FskCounted DEF ResumePulse
<1>11. ASSUME NEW level \in Levels, NEW fm \in FmSamples, StartGap(level, fm) PROVE FskTotal'
  BY <1>11, FskCounted DEF StartGap
<1>12. ASSUME NEW level \in Levels, EmitFsk(level) PROVE FskTotal'
  <2>1. /\ ookState = "GAP_START" /\ ret = "none" /\ fsk.num > PD_MIN_PULSES
        /\ fsk' = IF fpdm = "OLD" THEN WrapUp(fsk) ELSE fsk
        /\ ookState' = "IDLE" /\ ret' = "PULSE_DATA_FSK" /\ endAgo' = len - counter
        /\ UNCHANGED <<pulses, offset, startAgo, pos, len, counter, fpdm>>
    BY <1>12 DEF EmitFsk, Emit, InCall
  <2> SUFFICES ASSUME fpdm = "OLD", pulses.num = 0, fsk'.offset = 0
               PROVE  Span(fsk') = Measured' /\ Measured' = startAgo' - endAgo'
    BY <2>1 DEF FskTotal, FskSpanExact
  <2>2. FskFits(fsk, "OLD") /\ fsk.num \in Nat
    BY <2>1, FskAssumption DEF Inv, FskFits, Slots
  <2>3. fsk.state # "INIT"
    BY <2>1, <2>2, DetectAssumption DEF FskFits
  <2>4. fsk' = WrapUp(fsk) /\ Span(fsk') = Total(fsk) + 1 /\ fsk.offset = 0
    BY <2>1, <2>2, <2>3, WrapUpTotal
  <2>5. Measured = Total(fsk)
    BY <2>1, <2>4 DEF FskTotal
  <2>6. /\ pos \in Nat /\ len \in Nat /\ counter \in Nat
        /\ startAgo = pos + len - offset /\ offset \in Nat
    BY <2>1, TrainFacts DEF Inv, TypeOK
  <2>7. Measured' = Measured + 1 /\ Measured' = startAgo' - endAgo'
    BY <2>1, <2>6 DEF Measured, Now
  <2> QED BY <2>4, <2>5, <2>7
<1>13. ASSUME NEW level \in Levels, InGap(level) PROVE FskTotal'
  BY <1>13, FskPast DEF InGap, InCall, Advance
<1>14. ASSUME NEW level \in Levels, EmitOok(level) PROVE FskTotal'
  BY <1>14, FskPast DEF EmitOok, Emit
<1>15. ASSUME NEW level \in Levels, EmitFull(level) PROVE FskTotal'
  BY <1>15, FskPast DEF EmitFull, Emit
<1>16. ASSUME NEW level \in Levels, NewPulse(level) PROVE FskTotal'
  <2>1. ookState = "GAP" /\ pulses' = EndGap(pulses, pulseLength + 1) /\ ret' = "none"
    BY <1>16 DEF NewPulse, InCall, Advance
  <2>2. pulses'.num = pulses.num + 1
    <3> DEFINE l == pulseLength + 1
    <3>1. l \in Nat /\ pulses \in PulseTrains /\ pulses.num \in Slots
      BY <2>1, TrainFacts
    <3> HIDE DEF l
    <3>2. EndGap(pulses, l).num = pulses.num + 1
      BY <3>1, StoreType
    <3> QED BY <2>1, <3>2 DEF l
  <2>3. pulses'.num # 0
    BY <2>1, <2>2, TrainFacts
  <2> QED BY <2>1, <2>3, FskPast
<1>17. ASSUME NEW level \in Levels, EmitSpurious(level) PROVE FskTotal'
  BY <1>17, FskPast DEF EmitSpurious, Emit
<1>18. CASE UNCHANGED vars
  <2>1. Measured' = Measured
    BY <1>18 DEF Measured, Now
  <2> QED BY <1>18, <2>1 DEF FskTotal, FskSpanExact
<1> QED BY <1>1, <1>2, <1>3, <1>4, <1>5, <1>6, <1>7, <1>8, <1>9, <1>10,
          <1>11, <1>12, <1>13, <1>14, <1>15, <1>16, <1>17, <1>18 DEF Next, Sample

\* The rewinds of the classic FSK detector keep every sample of its package.
THEOREM EveryFskSampleSpanned == Spec => []FskSpanExact
<1>1. Init => FskTotal
  BY DEF Init, FskTotal, FskSpanExact
<1>2. Inv /\ FskTotal /\ [Next]_vars => FskTotal'
  BY FskTotalStep
<1>3. FskTotal => FskSpanExact
  BY DEF FskTotal
<1> QED BY Invariance, <1>1, <1>2, <1>3, PTL DEF Spec

=============================================================================
