----------------------------- MODULE PulseSlicer -----------------------------
(***************************************************************************)
(* The slicers of src/rtl433/src/pulse_slicer.c as functions: what the     *)
(* code does with one pulse (or symbol, or character of a test code) is a  *)
(* sequence of calls on the bit buffer.                                    *)
(*                                                                         *)
(* A device d gives the modulation and its timings in samples: kind,       *)
(* short, long, reset, gap, sync, tol (0 where the device has none) and    *)
(* slow (a width rounds to 0 at this sample rate). A train tr is the       *)
(* sequence of [p |-> pulse, g |-> gap] of the package.                    *)
(*                                                                         *)
(* Reciprocals of widths, float in the code, are fractions: n bits in w    *)
(* samples.                                                                *)
(***************************************************************************)
EXTENDS Integers, Sequences

CONSTANTS OsvPreamble,  \* pulses of the Oregon Scientific v1 preamble: 12
          RzPreamble,   \* bits of a preamble that tunes the bit width, RZ: 4
          NrzPreamble,  \* the same for NRZ: 12
          RzMeasured,   \* bits anywhere, to be exceeded, RZ: 8
          NrzMeasured   \* the same for NRZ: 20

ASSUME SlicerAssumption ==
    /\ OsvPreamble \in Nat
    /\ RzPreamble \in Nat \ {0} /\ NrzPreamble \in Nat \ {0}
    /\ RzMeasured \in Nat /\ NrzMeasured \in Nat

SymbolKinds == {"DMC", "PIWM_RAW", "PIWM_DC"}
ClearingKinds == {"PCM", "PPM", "PWM", "MC"}
Kinds == SymbolKinds \cup ClearingKinds \cup {"NRZS", "OSV1"}

\* A pulse with the gap behind it, and a token of a test code.
Pulses == [p : Nat, g : Nat]
CodeTokens ==
    [op : {"bits"}, bits : [1..4 -> {0, 1}]] \cup [op : {"/"}]
        \cup [op : {"{"}, width : Nat]

\* A device of the widths its slicer needs: no decoder declares a width that is
\* divided by as 0, and one that rounds to 0 makes the device slow.
Timed(d) ==
    /\ d.slow \in BOOLEAN /\ d.short \in Nat /\ d.long \in Nat /\ d.reset \in Nat
    /\ d.gap \in Nat /\ d.sync \in Nat /\ d.tol \in Nat
    /\ d.kind \in {"PCM", "PIWM_RAW", "NRZS"} /\ ~d.slow => d.short > 0
    /\ d.kind = "PCM" /\ ~d.slow => d.long > 0

\* The calls. "endData" and "endRows" deliver what has been accumulated, "end"
\* delivers in any case; v = 1 when the buffer is cleared after that.
Do(op, v) == [op |-> op, v |-> v]
Bit(v) == Do("bit", v)
Row == Do("row", 0)
RowIfData == Do("rowIfData", 0)
Repeat(k, call) == [i \in 1..k |-> call]
When(cond, calls) == IF cond THEN calls ELSE <<>>

Dist(a, b) == IF a > b THEN a - b ELSE b - a
Near(d, x, w) == Dist(x, w) < d.tol

GapLimit(d) == IF d.gap > 0 THEN d.gap ELSE d.reset

Forever == 1000000  \* INT_MAX
Between(x, b) == x > b[1] /\ x < b[2]

\* One slice: the calls, the next index and the next memory.
To(ops, n, t) == [ops |-> ops, n |-> n, t |-> t]

-----------------------------------------------------------------------------
(* pulse_slicer_pcm()                                                       *)

PcmTolerance(d) == IF d.tol > 0 THEN d.tol ELSE d.long \div 4

Corrupt(d, x) == d.short # d.long /\ Dist(x.p, d.short) > PcmTolerance(d)

\* A width in samples: n bits take s in pulses alone, l with the gaps (for NRZ,
\* where a gap is a bit, both are the same).
Width(n, s, l) == [n |-> n, s |-> s, l |-> l]
Plus(v, w) == Width(v.n + w.n, v.s + w.s, v.l + w.l)

\* The bits in a time x when n take w, rounded.
BitsIn(x, n, w) == (2 * (x * n) + w) \div (2 * w)

NRZ(d) == d.short = d.long
MinPreamble(d) == IF NRZ(d) THEN NrzPreamble ELSE RzPreamble
MinMeasured(d) == IF NRZ(d) THEN NrzMeasured ELSE RzMeasured

\* The width in force: the longest preamble so far, else the device's. (No
\* pulse is 0 samples wide; the code would divide by it.)
InForce(d, best) ==
    IF best.n > 0 /\ best.s > 0 THEN best ELSE Width(1, d.short, d.long)

InTolerance(d, x, w) == Dist(x, w) <= PcmTolerance(d)

\* A pulse and a gap of one bit each (NRZ) or together (RZ).
Toggle(d, x, w) ==
    IF NRZ(d) THEN BitsIn(x.p, w.n, w.s) = 1 /\ BitsIn(x.g, w.n, w.l) = 1
    ELSE InTolerance(d, x.p, d.short) /\ InTolerance(d, x.p + x.g, d.long)

ToggleCountedOnce(d, x) ==  \* mutant
    IF NRZ(d) THEN Width(1, x.p + x.g, x.p + x.g) ELSE Width(1, x.p, x.p + x.g)
ToggleWidth(d, x) ==
    IF NRZ(d) THEN Width(2, x.p + x.g, x.p + x.g) ELSE Width(1, x.p, x.p + x.g)

\* A run of toggles that ends: "min_count = count".
Longer(d, best, run) ==
    IF run.n >= (IF best.n = 0 THEN MinPreamble(d) ELSE best.n) THEN run ELSE best

\* A width of k bits if x is within the tolerance of it.
Seen(d, x, k) ==
    IF InTolerance(d, x, k * d.short) THEN Width(k, x, x) ELSE Width(0, 0, 0)

\* What one pulse and its gap add to the bits "within tolerance anywhere".
SeenIn(d, x) ==
    IF NRZ(d)
    THEN Plus(Plus(Seen(d, x.p, 1), Seen(d, x.p, 2)),
              Plus(Seen(d, x.g, 1), Seen(d, x.g, 2)))
    ELSE IF Toggle(d, x, Width(1, d.short, d.long)) THEN ToggleWidth(d, x)
    ELSE Width(0, 0, 0)

\* The longest preamble so far, the run of toggles the loop is in, and the bits
\* seen anywhere: before the first pulse, and from one pulse to the next.
Unmeasured == [best |-> Width(0, 0, 0), run |-> Width(0, 0, 0), any |-> Width(0, 0, 0)]

Behind(d, x, q) ==
    LET on == Toggle(d, x, InForce(d, q.best))
    IN  [best |-> IF on THEN q.best ELSE Longer(d, q.best, q.run),
         run |-> IF on THEN Plus(q.run, ToggleWidth(d, x)) ELSE Width(0, 0, 0),
         any |-> Plus(q.any, SeenIn(d, x))]

Measure(d, tr) ==
    LET m[k \in 0..Len(tr)] ==
            IF k = 0 THEN Unmeasured ELSE Behind(d, tr[k], m[k - 1])
    IN  m[Len(tr)]

\* The bit width of the package: "if there is a run of bit-wide toggles
\* (preamble) tune the bit period", else tune it to the bits seen anywhere.
BitWidth(d, tr) ==
    LET q == Measure(d, tr)
        best == Longer(d, q.best, q.run)
    IN  InForce(d, IF best.n = 0 /\ q.any.n > MinMeasured(d) THEN q.any ELSE best)

PcmBits(d, x, w) ==
    LET lows == BitsIn(x.g + d.short - d.long, w.n, w.l)
        max == GapLimit(d) \div d.long
    IN  Repeat(BitsIn(x.p, w.n, w.s), Bit(1))
            \o Repeat(IF lows > max THEN max ELSE lows, Bit(0))

AtSilence(d, tr, n) == tr[n].g > d.reset  \* mutant
\* "No more pulses? (FSK)" or "Long silence (OOK)"
AtEnd(d, tr, n) == n = Len(tr) \/ tr[n].g > d.reset

Pcm(d, tr, n) ==
    To(PcmBits(d, tr[n], BitWidth(d, tr))
        \o (IF Corrupt(d, tr[n]) THEN <<Do("clear", 0)>>
            ELSE When(tr[n].g > GapLimit(d) /\ tr[n].g <= d.reset, <<Row>>))
        \o When(AtEnd(d, tr, n), <<Do("endData", 1)>>), n + 1, 0)

-----------------------------------------------------------------------------
(* pulse_slicer_ppm()                                                       *)

SyncBounds(d) ==
    IF d.tol > 0 /\ d.sync > 0 THEN <<d.sync - d.tol, d.sync + d.tol>>
    ELSE <<0, 0>>

PpmBounds(d) ==
    IF d.tol > 0
    THEN [zero |-> <<d.short - d.tol, d.short + d.tol>>,
          one |-> <<d.long - d.tol, d.long + d.tol>>]
    ELSE LET mid == (d.short + d.long) \div 2
         IN  [zero |-> <<0, mid + 1>>, one |-> <<mid, GapLimit(d)>>]

PpmCall(d, g) ==
    CASE Between(g, PpmBounds(d).zero) -> <<Bit(0)>>
      [] ~Between(g, PpmBounds(d).zero) /\ Between(g, PpmBounds(d).one) ->
            <<Bit(1)>>
      [] OTHER ->
            IF Between(g, SyncBounds(d)) THEN <<Do("sync", 0)>>
            ELSE When(g < d.reset, <<Row>>)

Ppm(d, tr, n) ==
    To(PpmCall(d, tr[n].g)
        \o When(n = Len(tr) \/ tr[n].g >= d.reset, <<Do("endData", 1)>>),
       n + 1, 0)

-----------------------------------------------------------------------------
(* pulse_slicer_pwm()                                                       *)

\* The ranges of a short, a middle and a long pulse, by who takes which.
Thirds(a, b, c) ==
    <<<<0, (a + b) \div 2 + 1>>, <<(a + b) \div 2, (b + c) \div 2 + 1>>,
      <<(b + c) \div 2, Forever>>>>

PwmBounds(d) ==
    CASE d.tol > 0 ->
            [one |-> <<d.short - d.tol, d.short + d.tol>>,
             zero |-> <<d.long - d.tol, d.long + d.tol>>,
             sync |-> SyncBounds(d)]
      [] d.tol <= 0 /\ d.sync <= 0 ->
            LET mid == (d.short + d.long) \div 2
            IN  [one |-> <<0, mid + 1>>, zero |-> <<mid, Forever>>,
                 sync |-> <<0, 0>>]
      [] d.tol <= 0 /\ d.sync > 0 /\ d.sync < d.short ->
            LET b == Thirds(d.sync, d.short, d.long)
            IN  [sync |-> b[1], one |-> b[2], zero |-> b[3]]
      [] d.tol <= 0 /\ d.sync > 0 /\ d.sync >= d.short /\ d.sync < d.long ->
            LET b == Thirds(d.short, d.sync, d.long)
            IN  [one |-> b[1], sync |-> b[2], zero |-> b[3]]
      [] OTHER ->
            LET b == Thirds(d.short, d.long, d.sync)
            IN  [one |-> b[1], zero |-> b[2], sync |-> b[3]]

PwmCall(d, p) ==
    LET b == PwmBounds(d)
    IN  IF Between(p, b.one) THEN <<Bit(1)>>
        ELSE IF Between(p, b.zero) THEN <<Bit(0)>>
        ELSE IF Between(p, b.sync) THEN <<Do("sync", 0)>>
        ELSE When(p > b.one[1], <<Row>>)

Pwm(d, tr, n) ==
    To(PwmCall(d, tr[n].p)
        \o (IF AtEnd(d, tr, n) THEN <<Do("endRows", 1)>>
            ELSE When(d.gap > 0 /\ tr[n].g > d.gap, <<RowIfData>>)), n + 1, 0)

-----------------------------------------------------------------------------
(* pulse_slicer_manchester_zerobit(): t is time_since_last.                 *)

\* "more than short_width*1.5 samples ago"
DataEdge(d, t) == 2 * t > 3 * d.short

Invalid(d, x) ==
    d.tol > 0 /\ \E w \in {x.p, x.g} :
        w < d.short - d.tol \/ w > 2 * d.short + d.tol

\* The falling edge: the calls and time_since_last after it.
Falling(d, x, t) ==
    IF Invalid(d, x)
    THEN [ops |-> When(DataEdge(d, x.p) /\ x.p <= 2 * d.short + d.tol, <<Bit(1)>>)
                    \o <<Row, Bit(0)>>,
          t |-> 0]
    ELSE IF DataEdge(d, x.p + t) THEN [ops |-> <<Bit(1)>>, t |-> 0]
    ELSE [ops |-> <<>>, t |-> t + x.p]

Manchester(d, tr, n, t) ==
    LET f == Falling(d, tr[n], t)
    IN  IF AtEnd(d, tr, n)
        THEN To(f.ops \o <<Do("endRows", 1), Bit(0)>>, n + 1, 0)
        ELSE IF DataEdge(d, tr[n].g + f.t)
        THEN To(f.ops \o <<Bit(0)>>, n + 1, 0)
        ELSE To(f.ops, n + 1, f.t + tr[n].g)

-----------------------------------------------------------------------------
(* The slicers of symbols: pulse_slicer_dmc(), pulse_slicer_piwm_raw() and  *)
(* pulse_slicer_piwm_dc(). Symbol k is a pulse when k is odd.               *)

Symbols(tr) == 2 * Len(tr)

\* pulse_slicer_get_symbol()
Symbol(tr, k) ==
    IF k % 2 = 1 THEN tr[(k + 1) \div 2].p ELSE tr[k \div 2].g

LongSilence(d, s) == s >= d.reset - d.tol

\* The second half of a one: its calls, and whether it was used up.
SecondHalf(d, tr, k) ==
    LET s == IF k <= Symbols(tr) THEN Symbol(tr, k) ELSE 0
        odd == Dist(s, d.short) > d.tol
    IN  To(When(odd /\ ~LongSilence(d, s), <<RowIfData>>),
           IF odd /\ LongSilence(d, s) THEN k ELSE k + 1, 0)

Dmc(d, tr, k) ==
    LET s == Symbol(tr, k)
        h == SecondHalf(d, tr, k + 1)
    IN  IF Near(d, s, d.short) THEN To(<<Bit(1)>> \o h.ops, h.n, 0)
        ELSE IF Near(d, s, d.long) THEN To(<<Bit(0)>>, k + 1, 0)
        ELSE To(When(LongSilence(d, s), <<Do("endRows", 0)>>), k + 1, 0)

SymbolsEnd(d, tr, k) ==
    When(k = Symbols(tr) \/ Symbol(tr, k) > d.reset, <<Do("endRows", 0)>>)

\* The number of widths w in x, rounded.
Round(x, w) == (2 * x + w) \div (2 * w)

PiwmRaw(d, tr, k) ==
    LET s == Symbol(tr, k)
        w == Round(s, d.short)
    IN  To((IF s > d.long THEN <<Row>>
            ELSE IF Near(d, s, w * d.short) THEN Repeat(w, Bit(k % 2))
            ELSE When(s < d.reset, <<RowIfData>>)) \o SymbolsEnd(d, tr, k),
           k + 1, 0)

PiwmDc(d, tr, k) ==
    LET s == Symbol(tr, k)
    IN  To((IF Near(d, s, d.short) THEN <<Bit(1)>>
            ELSE IF Near(d, s, d.long) THEN <<Bit(0)>>
            ELSE When(s < d.reset, <<RowIfData>>)) \o SymbolsEnd(d, tr, k),
           k + 1, 0)

-----------------------------------------------------------------------------
(* pulse_slicer_nrzs()                                                      *)

Nrzs(d, tr, n) ==
    LET p == tr[n].p
    IN  To(When(p > d.short, Repeat(p \div d.short, Bit(1)) \o <<Bit(0)>>)
            \o When(p < d.short, <<Bit(0)>>)
            \o When(n = Len(tr) \/ tr[n].g >= d.reset, <<Do("end", 0)>>),
           n + 1, 0)

-----------------------------------------------------------------------------
(* pulse_slicer_osv1(): t is manbit.                                        *)

HalfMin(d) == d.short \div 2
HalfMax(d) == (d.short * 3) \div 2

IsClock(d, x) == x.p > HalfMin(d) /\ x.g > HalfMin(d)

\* The pulses up to the one that ends the preamble.
Preambles(d, tr) ==
    {n \in 1..Len(tr) :
        /\ \A i \in 1..n : IsClock(d, tr[i])
        /\ \A i \in 1..n - 1 : tr[i].g <= HalfMax(d)
        /\ tr[n].g > HalfMax(d)}

\* A preamble of the right length and a sync pulse; a slot behind the last one
\* is zero, so it is no sync pulse.
HasSync(d, tr) ==
    /\ OsvPreamble \in Preambles(d, tr)
    /\ OsvPreamble < Len(tr)
    /\ \A w \in {tr[OsvPreamble + 1].p, tr[OsvPreamble + 1].g} :
            w >= 2 * HalfMax(d)

OsvStart(d, tr) ==
    IF ~HasSync(d, tr) THEN To(<<>>, Len(tr) + 1, 0)
    ELSE LET x == tr[OsvPreamble + 1]
         IN  IF x.g > x.p THEN To(<<Bit(0)>>, OsvPreamble + 2, 1)
             ELSE To(<<>>, OsvPreamble + 2, 0)

\* "every other bit is discarded": of the halves hs, those that set manbit.
Clocked(t, hs) == IF t = 0 THEN <<hs[1]>> ELSE SubSeq(hs, 2, Len(hs))

Halves(d, w, v) == <<Bit(v)>> \o When(w > HalfMax(d), <<Bit(v)>>)

\* Some bit has been added by the time the message may end, so it is delivered
\* and the slicer returns.
Osv1(d, tr, n, t) ==
    LET hs == Halves(d, tr[n].p, 1)
        ls == Halves(d, tr[n].g, 0)
        u == (t + Len(hs)) % 2
    IN  IF AtEnd(d, tr, n)
        THEN To(Clocked(t, hs) \o <<Do("endRows", 0)>>, Len(tr) + 1, 0)
        ELSE To(Clocked(t, hs) \o Clocked(u, ls), n + 1, (u + Len(ls)) % 2)

-----------------------------------------------------------------------------
(* pulse_slicer_string() and bitbuffer_parse(): the code is a sequence of   *)
(* tokens, a hexadecimal digit "bits", a row separator "/" and a width      *)
(* "{n}"; t is the width to set at the end of the row, -1 if none.          *)

SetTo(t) == When(t >= 0, <<Do("width", t)>>)

Parse(code, n, t) ==
    LET token == code[n]
        ops == CASE token.op = "bits" -> [i \in 1..4 |-> Bit(token.bits[i])]
                 [] token.op = "/" -> SetTo(t) \o <<Row>>
                 [] token.op = "{" -> SetTo(t) \o <<Do("rowIfRows", 0)>>
        u == CASE token.op = "bits" -> t
               [] token.op = "/" -> -1
               [] token.op = "{" -> token.width
    IN  IF n = Len(code) THEN To(ops \o SetTo(u) \o <<Do("end", 0)>>, n + 1, -1)
        ELSE To(ops, n + 1, u)

-----------------------------------------------------------------------------
(* Any of them.                                                             *)

\* What precedes the loop. "sample rate too low for protocol": no loop.
Start(d, tr) ==
    IF d.slow THEN To(<<>>, Symbols(tr) + 1, 0)
    ELSE IF d.kind = "OSV1" THEN OsvStart(d, tr)
    ELSE To(When(d.kind = "MC", <<Bit(0)>>), 1, 0)

Limit(d, tr) == IF d.kind \in SymbolKinds THEN Symbols(tr) ELSE Len(tr)

Slice(d, tr, n, t) ==
    CASE d.kind = "PCM" -> Pcm(d, tr, n)
      [] d.kind = "PPM" -> Ppm(d, tr, n)
      [] d.kind = "PWM" -> Pwm(d, tr, n)
      [] d.kind = "MC" -> Manchester(d, tr, n, t)
      [] d.kind = "DMC" -> Dmc(d, tr, n)
      [] d.kind = "PIWM_RAW" -> PiwmRaw(d, tr, n)
      [] d.kind = "PIWM_DC" -> PiwmDc(d, tr, n)
      [] d.kind = "NRZS" -> Nrzs(d, tr, n)
      [] d.kind = "OSV1" -> Osv1(d, tr, n, t)

=============================================================================
