----------------------------- MODULE PulseDetect -----------------------------
(***************************************************************************)
(* The package detector of src/rtl433/src/pulse_detect.c, called by        *)
(* sdr_callback() once per sample buffer and again after each package.     *)
(*                                                                         *)
(* A sample of the envelope is "high" (above threshold and hysteresis),    *)
(* "low" (below both) or "mid"; the level estimators that decide this, and *)
(* the levels reported with a package, are left out. The signal is         *)
(* arbitrary, and so is the way it is cut into buffers.                    *)
(***************************************************************************)
EXTENDS PulseDetectFsk, PartialSums

CONSTANTS PD_MIN_PULSES,       \* FSK pulses that make a package
          PD_MAX_GAP_RATIO,
          MinGap,              \* PD_MIN_GAP_MS in samples
          MaxGap,              \* PD_MAX_GAP_MS in samples
          OOK_EST_LOW_RATIO,   \* samples of lead-in after a reset
          BufferSizes,         \* sample counts of a buffer
          MaxSamples           \* bound: samples in a behaviour

ASSUME DetectAssumption ==
    /\ {PD_MIN_PULSES, PD_MAX_GAP_RATIO, MinGap, MaxGap, OOK_EST_LOW_RATIO,
        MaxSamples} \subseteq Nat
    /\ MaxGap >= PD_MIN_PULSE_SAMPLES
    /\ BufferSizes \subseteq Nat \ {0}

VARIABLES
    ookState,     \* ook_state
    pulseLength,  \* pulse_length
    maxPulse,     \* max_pulse
    leadIn,       \* lead_in_counter
    pulses,       \* num_pulses, pulse[] and gap[] of the OOK pulse_data_t
    offset,       \* offset of both pulse_data_t, as first set
    startAgo,     \* start_ago of both pulse_data_t
    endAgo,       \* end_ago of the last package
    fsk,          \* the FSK detector and its pulse_data_t
    fpdm,         \* the argument fpdm
    pos,          \* input_pos: samples before this buffer
    len,          \* samples in this buffer
    counter,      \* data_counter
    eop,          \* eop_on_spurious, a local of the call
    ret           \* "none" inside the call, else what it returned

input == <<fpdm, pos, len>>
ook == <<ookState, pulseLength, maxPulse, leadIn, pulses>>
times == <<offset, startAgo, endAgo>>
vars == <<ook, times, fsk, input, counter, eop, ret>>

OokStates == {"IDLE", "PULSE", "GAP_START", "GAP"}
Packages == {"PULSE_DATA_OOK", "PULSE_DATA_FSK"}
Modes == {"OLD", "NEW"}
Levels == {"low", "mid", "high"}

PulseTrains ==
    [num : 0..PD_MAX_PULSES, pulse : [Slots -> Nat], gap : [Slots -> Nat]]

TypeOK ==
    /\ ookState \in OokStates
    /\ pulseLength \in Nat /\ maxPulse \in Nat
    /\ leadIn \in 0..OOK_EST_LOW_RATIO + 1
    /\ pulses \in PulseTrains
    /\ offset \in Nat /\ startAgo \in Nat /\ endAgo \in Nat
    /\ fsk \in Detectors
    /\ fpdm \in Modes
    /\ pos \in Nat /\ len \in Nat /\ pos + len <= MaxSamples
    /\ counter \in 0..len
    /\ eop \in BOOLEAN
    /\ ret \in {"none", "out"} \cup Packages

NoPulses == [num |-> 0, pulse |-> Zeros, gap |-> Zeros]

Init ==
    /\ ookState = "IDLE"
    /\ pulseLength = 0 /\ maxPulse = 0 /\ leadIn = 0
    /\ pulses = NoPulses
    /\ offset = 0 /\ startAgo = 0 /\ endAgo = 0
    /\ fsk = FskInit
    /\ fpdm \in Modes
    /\ pos = 0 /\ len = 0 /\ counter = 0
    /\ eop = FALSE
    /\ ret = "out"

-----------------------------------------------------------------------------
(* The caller.                                                              *)

NeverAged == startAgo  \* mutant
Aged == IF counter = 0 THEN startAgo + len' ELSE startAgo

\* A fresh buffer ages the data of the last package. The frequency, and the FSK
\* detector of AUTO mode with it, stays the same.
NewBuffer(n) ==
    /\ ret = "out"
    /\ pos + len + n <= MaxSamples
    /\ pos' = pos + len
    /\ len' = n
    /\ startAgo' = Aged
    /\ eop' = FALSE
    /\ ret' = "none"
    /\ UNCHANGED <<ook, offset, endAgo, fsk, fpdm, counter>>

\* The loop of sdr_callback() calls again after a package, at the sample the
\* package ended with.
CallAgain ==
    /\ ret \in Packages
    /\ eop' = FALSE
    /\ ret' = "none"
    /\ UNCHANGED <<ook, offset, endAgo, fsk, input, counter>>
    /\ startAgo' = Aged

OutOfData ==
    /\ ret = "none" /\ counter = len
    /\ counter' = 0
    /\ ret' = "out"
    /\ UNCHANGED <<ook, times, fsk, input, eop>>

\* pulse_detect_reset(), called by reset_sdr_callback() between buffers.
Reset ==
    /\ ret = "out"
    /\ ookState' = "IDLE"
    /\ pulseLength' = 0 /\ maxPulse' = 0 /\ leadIn' = 0 /\ counter' = 0
    /\ fsk' = [FskInit EXCEPT !.num = fsk.num, !.pulse = fsk.pulse, !.gap = fsk.gap,
                              !.offset = fsk.offset]
    /\ UNCHANGED <<pulses, times, input, eop, ret>>

-----------------------------------------------------------------------------
(* One sample.                                                              *)

InCall == ret = "none" /\ counter < len

Advance == counter' = counter + 1 /\ UNCHANGED <<input, ret>>

\* A package ends at this sample, which the next call looks at again.
Emit(package) ==
    /\ ookState' = "IDLE"
    /\ endAgo' = len - counter
    /\ ret' = package
    /\ UNCHANGED <<offset, startAgo, input, counter>>

Settled == leadIn > OOK_EST_LOW_RATIO

Idle(level) ==
    /\ InCall /\ ookState = "IDLE"
    /\ ~(level = "high" /\ Settled)
    /\ leadIn' = IF Settled THEN leadIn ELSE leadIn + 1
    /\ Advance
    /\ UNCHANGED <<ookState, pulseLength, maxPulse, pulses, times, fsk, eop>>

Begin(level) ==
    /\ InCall /\ ookState = "IDLE"
    /\ level = "high" /\ Settled
    /\ ookState' = "PULSE"
    /\ pulseLength' = 0 /\ maxPulse' = 0
    /\ pulses' = NoPulses
    /\ fsk' = FskInit
    /\ offset' = pos + counter
    /\ startAgo' = len - counter
    /\ Advance
    /\ UNCHANGED <<leadIn, endAgo, eop>>

\* FSK is looked for in the first pulse only.
FskStep(fm) ==
    fsk' = CASE pulses.num > 0 -> fsk
             [] pulses.num = 0 /\ fpdm = "OLD" -> Classic(fsk, fm)
             [] pulses.num = 0 /\ fpdm = "NEW" -> MinMax(fsk, fm)

SpuriousLess(n) == n < PD_MIN_PULSE_SAMPLES - 1  \* mutant
Spurious(n) == n < PD_MIN_PULSE_SAMPLES

InPulse(level, fm) ==
    /\ InCall /\ ookState = "PULSE"
    /\ level # "low"
    /\ pulseLength' = pulseLength + 1
    /\ FskStep(fm)
    /\ Advance
    /\ UNCHANGED <<ookState, maxPulse, leadIn, pulses, times, eop>>

EndPulse(level, fm) ==
    /\ InCall /\ ookState = "PULSE"
    /\ level = "low" /\ ~Spurious(pulseLength + 1)
    /\ pulses' = [pulses EXCEPT !.pulse[pulses.num] = pulseLength + 1]
    /\ maxPulse' = IF pulseLength + 1 > maxPulse THEN pulseLength + 1 ELSE maxPulse
    /\ pulseLength' = 0
    /\ ookState' = "GAP_START"
    /\ FskStep(fm)
    /\ Advance
    /\ UNCHANGED <<leadIn, times, eop>>

\* A spurious short pulse: back to idle, or the end of the package.
SpuriousPulse(level, fm) ==
    /\ InCall /\ ookState = "PULSE"
    /\ level = "low" /\ Spurious(pulseLength + 1)
    /\ pulseLength' = pulseLength + 1
    /\ \/ pulses.num <= 1 /\ ookState' = "IDLE" /\ UNCHANGED eop
       \/ pulses.num > 1 /\ ookState' = "GAP" /\ eop' = TRUE
    /\ FskStep(fm)
    /\ Advance
    /\ UNCHANGED <<maxPulse, leadIn, pulses, times>>

RestartCount == 0  \* mutant
RestoreCount == pulses.pulse[pulses.num]

\* A spurious short gap: the pulse goes on, its length restored.
ResumePulse(level, fm) ==
    /\ InCall /\ ookState = "GAP_START"
    /\ level = "high"
    /\ pulseLength' = pulseLength + 1 + RestoreCount
    /\ ookState' = "PULSE"
    /\ FskStep(fm)
    /\ Advance
    /\ UNCHANGED <<maxPulse, leadIn, pulses, times, eop>>

StartGap(level, fm) ==
    /\ InCall /\ ookState = "GAP_START"
    /\ level # "high"
    /\ \/ Spurious(pulseLength + 1) /\ UNCHANGED ookState
       \/ ~Spurious(pulseLength + 1) /\ fsk.num <= PD_MIN_PULSES /\ ookState' = "GAP"
    /\ pulseLength' = pulseLength + 1
    /\ FskStep(fm)
    /\ Advance
    /\ UNCHANGED <<maxPulse, leadIn, pulses, times, eop>>

\* The first pulse was an FSK package.
EmitFsk(level) ==
    /\ InCall /\ ookState = "GAP_START"
    /\ level # "high"
    /\ ~Spurious(pulseLength + 1) /\ fsk.num > PD_MIN_PULSES
    /\ pulseLength' = pulseLength + 1
    /\ fsk' = IF fpdm = "OLD" THEN WrapUp(fsk) ELSE fsk
    /\ Emit("PULSE_DATA_FSK")
    /\ UNCHANGED <<maxPulse, leadIn, pulses, eop>>

OverdueUncapped(n) ==  \* mutant
    eop \/ (n > PD_MAX_GAP_RATIO * maxPulse /\ n > MinGap)

\* eop_on_spurious, or a gap too long for the package to go on.
Overdue(n) ==
    \/ eop
    \/ n > PD_MAX_GAP_RATIO * maxPulse /\ n > MinGap
    \/ n > MaxGap

EndGap(p, n) == [p EXCEPT !.gap[p.num] = n, !.num = @ + 1]

InGap(level) ==
    /\ InCall /\ ookState = "GAP"
    /\ level # "high" /\ ~Overdue(pulseLength + 1)
    /\ pulseLength' = pulseLength + 1
    /\ Advance
    /\ UNCHANGED <<ookState, maxPulse, leadIn, pulses, times, fsk, eop>>

EmitOok(level) ==
    /\ InCall /\ ookState = "GAP"
    /\ level # "high" /\ Overdue(pulseLength + 1)
    /\ pulseLength' = pulseLength + 1
    /\ pulses' = EndGap(pulses, pulseLength + 1)
    /\ Emit("PULSE_DATA_OOK")
    /\ UNCHANGED <<maxPulse, leadIn, fsk, eop>>

IsFull(p) == p.num >= PD_MAX_PULSES

\* A new pulse when there is no room for one: the package ends here.
EmitFull(level) ==
    /\ InCall /\ ookState = "GAP"
    /\ level = "high"
    /\ pulses' = EndGap(pulses, pulseLength + 1)
    /\ IsFull(pulses')
    /\ pulseLength' = pulseLength + 1
    /\ Emit("PULSE_DATA_OOK")
    /\ UNCHANGED <<maxPulse, leadIn, fsk, eop>>

NewPulse(level) ==
    /\ InCall /\ ookState = "GAP"
    /\ level = "high" /\ ~Overdue(0)
    /\ pulses' = EndGap(pulses, pulseLength + 1)
    /\ ~IsFull(pulses')
    /\ pulseLength' = 0
    /\ ookState' = "PULSE"
    /\ Advance
    /\ UNCHANGED <<maxPulse, leadIn, times, fsk, eop>>

\* A new pulse right after a spurious one: its gap is stored, and then one more
\* pulse and gap of no length.
EmitSpurious(level) ==
    /\ InCall /\ ookState = "GAP"
    /\ level = "high" /\ Overdue(0)
    /\ ~IsFull(EndGap(pulses, pulseLength + 1))
    /\ pulses' = EndGap(EndGap(pulses, pulseLength + 1), 0)
    /\ pulseLength' = 0
    /\ Emit("PULSE_DATA_OOK")
    /\ UNCHANGED <<maxPulse, leadIn, fsk, eop>>

-----------------------------------------------------------------------------

Sample(level, fm) ==
    \/ Idle(level) \/ Begin(level)
    \/ InPulse(level, fm) \/ EndPulse(level, fm) \/ SpuriousPulse(level, fm)
    \/ ResumePulse(level, fm) \/ StartGap(level, fm) \/ EmitFsk(level)
    \/ InGap(level) \/ EmitOok(level) \/ EmitFull(level)
    \/ NewPulse(level) \/ EmitSpurious(level)

Next ==
    \/ \E n \in BufferSizes : NewBuffer(n)
    \/ CallAgain \/ OutOfData \/ Reset
    \/ \E level \in Levels, fm \in FmSamples : Sample(level, fm)

Spec == Init /\ [][Next]_vars

-----------------------------------------------------------------------------
(* Properties.                                                              *)

\* The samples the detector has looked at since the first one of the package;
\* the one a package ends with counts for it.
Now == IF ret = "out" THEN pos + len ELSE pos + counter
Measured == IF ret \in Packages THEN Now - offset ELSE Now - offset - 1

\* The samples in the first p.num pulses and gaps.
Span(p) == SumBelow(p.pulse, p.num) + SumBelow(p.gap, p.num)

\* No pulse or gap is stored or read outside the arrays: the slot in use exists,
\* and the FSK detector that rewinds to the last gap has one.
IndexSafe ==
    ookState # "IDLE" =>
        /\ pulses.num \in Slots
        /\ fsk.num \in Slots
        /\ fpdm = "OLD" /\ fsk.state = "FH" => fsk.num > 0

\* No sample of a package is lost or counted twice, over any buffers, spurious
\* gaps and forced ends: its pulses and gaps span exactly the samples since its
\* first, and start_ago and end_ago say when that was.
SpanExact ==
    /\ ookState # "IDLE" =>
        Measured = Span(pulses) + pulseLength
                   + IF ookState = "PULSE" THEN 0 ELSE pulses.pulse[pulses.num]
    /\ ret = "PULSE_DATA_OOK" =>
        Span(pulses) = Measured /\ Measured = startAgo - endAgo

\* The rewinds of the classic FSK detector keep every sample too: an FSK package
\* of the first pulse, unless some of it was shifted out, spans what start_ago
\* and end_ago say.
FskSpanExact ==
    ret = "PULSE_DATA_FSK" /\ fpdm = "OLD" /\ pulses.num = 0 /\ fsk.offset = 0 =>
        Span(fsk) = Measured /\ Measured = startAgo - endAgo

\* While a package is being received start_ago is the distance from its first
\* sample to the end of the buffer, however often the data was aged.
AgeExact == ookState # "IDLE" => startAgo = pos + len - offset

\* A package is not held back for more than PD_MAX_GAP_MS of silence, and it is
\* decided within PD_MIN_PULSE_SAMPLES whether a gap is one.
GapBounded ==
    /\ ookState = "GAP" => pulseLength <= MaxGap
    /\ ookState = "GAP_START" => pulseLength < PD_MIN_PULSE_SAMPLES

\* No OOK pulse shorter than PD_MIN_PULSE_SAMPLES is stored, but as a slot of
\* width 0, and a package fills one slot at least.
RealPulses ==
    /\ ret = "PULSE_DATA_OOK" => pulses.num > 0
    /\ \A i \in Slots :
         pulses.pulse[i] = 0 \/ pulses.pulse[i] >= PD_MIN_PULSE_SAMPLES

=============================================================================
