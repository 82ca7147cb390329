--------------------------- MODULE PulseDetectFsk ---------------------------
(***************************************************************************)
(* The FSK pulse detectors of src/rtl433/src/pulse_detect_fsk.c, as        *)
(* functions from one state and one FM sample to the next state. The state *)
(* f holds the fields of pulse_detect_fsk_t and of the pulse_data_t it     *)
(* fills that decide where a pulse or gap is stored and how long it is.    *)
(*                                                                         *)
(* The frequency estimates are abstracted: a sample is "up" (towards F1),  *)
(* "down" (towards F2) or "flat" (neither), whatever the estimators say.   *)
(***************************************************************************)
EXTENDS Integers

CONSTANTS PD_MAX_PULSES,         \* slots of pulse[] and gap[]
          PD_MIN_PULSE_SAMPLES,  \* shorter pulses and gaps are spurious
          SkipSamples,           \* skip_samples after pulse_detect_fsk_init()
          FmSamples              \* the FM samples the signal is made of

ASSUME FskAssumption ==
    /\ PD_MAX_PULSES \in Nat /\ PD_MAX_PULSES >= 2
    /\ PD_MIN_PULSE_SAMPLES \in Nat \ {0}
    /\ SkipSamples \in Nat
    /\ FmSamples \subseteq {"up", "flat", "down"}

Slots == 0..PD_MAX_PULSES - 1
Zeros == [i \in Slots |-> 0]
FskStates == {"INIT", "FH", "FL"}

\* offset is what has been added to that of the package.
Detectors == [state : FskStates, length : Nat, skip : Nat, num : Nat,
              pulse : [Slots -> Nat], gap : [Slots -> Nat],
              offset : Nat]

\* pulse_detect_fsk_init() and pulse_data_clear().
FskInit == [state |-> "INIT", length |-> 0, skip |-> SkipSamples, num |-> 0,
            pulse |-> Zeros, gap |-> Zeros, offset |-> 0]

-----------------------------------------------------------------------------
(* Storing a pulse or a gap.                                                *)

StorePulse(f) == [f EXCEPT !.pulse[f.num] = f.length, !.length = 0]

StoreGap(f) == [f EXCEPT !.gap[f.num] = f.length, !.num = @ + 1, !.length = 0]

Offs == PD_MAX_PULSES \div 2

\* memmove: the upper half replaces the lower, and stays where it was too.
Moved(a) == [i \in Slots |-> IF i + Offs \in Slots THEN a[i + Offs] ELSE a[i]]

\* pulse_data_shift()
Shift(f) ==
    [f EXCEPT !.pulse = Moved(@), !.gap = Moved(@), !.num = @ - Offs,
              !.offset = @ + Offs]

\* "When pulse buffer is full": the room is made at once.
NeedsRoomLate(f) == f.num > PD_MAX_PULSES  \* mutant
NeedsRoom(f) == f.num >= PD_MAX_PULSES
MakeRoom(f) == IF NeedsRoom(f) THEN Shift(f) ELSE f

-----------------------------------------------------------------------------
(* pulse_detect_fsk_classic()                                               *)

TooShort(f) == f.length < PD_MIN_PULSE_SAMPLES

\* The first frequency jump tells whether the package began with a gap.
FromInit(f, fm) ==
    CASE TooShort(f) \/ fm = "flat" -> f
      [] ~TooShort(f) /\ fm = "up" ->
            [f EXCEPT !.state = "FH", !.pulse[0] = 0, !.gap[0] = f.length,
                      !.num = @ + 1, !.length = 0]
      [] ~TooShort(f) /\ fm = "down" ->
            [f EXCEPT !.state = "FL", !.pulse[0] = f.length, !.length = 0]

RewindLosing(f) ==  \* mutant
    [f EXCEPT !.num = @ - 1,
              !.state = IF f.num - 1 = 0 /\ f.pulse[0] = 0 THEN "INIT" ELSE "FL"]

\* A short pulse is joined to the gap before it, a short gap to the pulse.
RewindGap(f) ==
    [f EXCEPT !.length = @ + f.gap[f.num - 1], !.num = @ - 1,
              !.state = IF f.num - 1 = 0 /\ f.pulse[0] = 0 THEN "INIT" ELSE "FL"]

FromHigh(f, fm) ==
    CASE fm # "down" -> f
      [] fm = "down" /\ ~TooShort(f) -> [StorePulse(f) EXCEPT !.state = "FL"]
      [] fm = "down" /\ TooShort(f) -> RewindGap(f)

RewindPulse(f) ==
    [f EXCEPT !.length = @ + f.pulse[f.num],
              !.state = IF f.num = 0 THEN "INIT" ELSE "FH"]

FromLow(f, fm) ==
    CASE fm # "up" -> f
      [] fm = "up" /\ ~TooShort(f) ->
            [MakeRoom(StoreGap(f)) EXCEPT !.state = "FH"]
      [] fm = "up" /\ TooShort(f) -> RewindPulse(f)

Classic(f, fm) ==
    LET g == [f EXCEPT !.length = @ + 1]
    IN  CASE f.state = "INIT" -> FromInit(g, fm)
          [] f.state = "FH" -> FromHigh(g, fm)
          [] f.state = "FL" -> FromLow(g, fm)

\* pulse_detect_fsk_wrap_up(): the last pulse, or gap, of the package.
WrapUp(f) ==
    IF f.num >= PD_MAX_PULSES THEN f
    ELSE IF f.state = "FH"
         THEN [f EXCEPT !.length = @ + 1, !.pulse[f.num] = f.length + 1,
                        !.gap[f.num] = 0, !.num = @ + 1]
         ELSE [f EXCEPT !.length = @ + 1, !.gap[f.num] = f.length + 1,
                        !.num = @ + 1]

-----------------------------------------------------------------------------
(* pulse_detect_fsk_minmax(): no minimum length, no rewind, no wrap up. The *)
(* first sample it looks at is the largest and the smallest so far, hence   *)
(* the middle too, and the first state is always FL.                        *)

Tracked(f, fm) ==
    CASE f.state = "INIT" -> [f EXCEPT !.state = "FL"]
      [] f.state = "FH" /\ fm = "down" -> [StorePulse(f) EXCEPT !.state = "FL"]
      [] f.state = "FL" /\ fm = "up" ->
            [MakeRoom(StoreGap(f)) EXCEPT !.state = "FH"]
      [] OTHER -> f

MinMax(f, fm) ==
    IF f.skip > 0 THEN [f EXCEPT !.skip = @ - 1]
    ELSE Tracked([f EXCEPT !.length = @ + 1], fm)

=============================================================================
