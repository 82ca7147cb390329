------------------------------ MODULE LineCodes -----------------------------
(***************************************************************************)
(* What a sender does: when a train of pulses tr carries the message m to  *)
(* a device d. It is said of the widths that are sent, each off by no more *)
(* than keeps it apart from the others, and not of how a slicer tells      *)
(* them. The message ends in silence.                                      *)
(*                                                                         *)
(* e says where in m the pulses and gaps are.                              *)
(***************************************************************************)
EXTENDS PulseSlicer

\* Symbol k of the train: a pulse when k is odd, a gap when it is even.
LastGap(tr) == tr[Len(tr)].g
Inside(tr) == 1..Symbols(tr) - 1

-----------------------------------------------------------------------------
(* PPM, PWM and PIWM_DC: a gap, a pulse or either, of one of two lengths,   *)
(* is a bit.                                                                *)

LengthKinds == {"PPM", "PWM", "PIWM_DC"}

\* The width that carries bit k, and the width that means v.
Carrier(d, tr, k) ==
    CASE d.kind = "PPM" -> tr[k].g
      [] d.kind = "PWM" -> tr[k].p
      [] d.kind = "PIWM_DC" -> Symbol(tr, k)

Meant(d, v) == IF (v = 1) = (d.kind = "PPM") THEN d.long ELSE d.short

Meanings(d) ==
    {d.short, d.long} \cup (IF d.sync > 0 THEN {d.sync} ELSE {})

\* w is sent for the width x: within the tolerance, or if there is none nearer
\* to x than to any other width that means something.
SentFor(d, w, x) ==
    IF d.tol > 0 THEN Dist(w, x) < d.tol
    ELSE /\ w \in 1..Forever - 1
         /\ \A y \in Meanings(d) \ {x} : 2 * Dist(w, x) < Dist(x, y)

\* The widths are apart from each other and from the silence.
Distinct(d) ==
    /\ d.short < d.long /\ d.short + 2 * d.tol <= d.long
    /\ d.long + d.tol <= d.reset /\ d.sync + d.tol <= d.reset
    /\ d.tol = 0 => d.sync \notin {d.short, d.long}

InLengths(d, m, tr) ==
    /\ d.kind \in LengthKinds /\ Distinct(d)
    /\ d.kind = "PIWM_DC" => d.tol > 0
    /\ Len(tr) > 0
    /\ Len(m) = CASE d.kind = "PPM" -> Len(tr) - 1
                  [] d.kind = "PWM" -> Len(tr)
                  [] d.kind = "PIWM_DC" -> Symbols(tr) - 1
    /\ \A k \in 1..Len(m) : SentFor(d, Carrier(d, tr, k), Meant(d, m[k]))
    /\ d.kind # "PIWM_DC" =>
        \A n \in 1..Len(tr) - 1 : tr[n].g < d.reset /\ tr[n].g < GapLimit(d)
    /\ d.kind # "PWM" => LastGap(tr) >= d.reset /\ LastGap(tr) >= GapLimit(d)

-----------------------------------------------------------------------------
(* PCM, PIWM_RAW and Manchester: the pulses and gaps are the runs of ones   *)
(* and zeros.                                                               *)

\* Symbol k sends s[e[k] + 1..e[k + 1]], the last one what is left of s.
Runs(s, tr, e) ==
    /\ Len(tr) > 0
    /\ e \in [1..Symbols(tr) -> 0..Len(s)]
    /\ \A k \in Inside(tr) :
        e[k] <= e[k + 1] /\ \A i \in e[k] + 1..e[k + 1] : s[i] = k % 2
    /\ \A i \in e[Symbols(tr)] + 1..Len(s) : s[i] = 0

\* The units that symbol k stands for.
Units(e, k) == e[k + 1] - e[k]

\* w is nearer to k units u than to any other number of them.
InUnits(w, k, u) == 2 * Dist(w, k * u) < u

\* w is k units u, and no more than jit off: by so little that it is k units for
\* a receiver whose unit is off by as much, twice.
Steady(w, k, u, jit) == Dist(w, k * u) <= jit /\ 4 * (k + 1) * jit < u

\* No symbol is more than jit off. Only what is one bit (NRZ: or two) is within
\* the tolerance of it. NRZ, or RZ: there the gap begins inside the bit.
OffBy(d, m, tr, e, jit) ==
    /\ PcmTolerance(d) + 2 * jit < d.short /\ PcmTolerance(d) + 2 * jit < d.long
    /\ \A n \in 1..Len(tr) : Steady(tr[n].p, Units(e, 2 * n - 1), d.short, jit)
    /\ \A n \in 1..Len(tr) - 1 :
        Steady(tr[n].g + d.short, Units(e, 2 * n) + 1, d.long, jit)
    /\ 4 * (Len(m) - e[Symbols(tr)] + 1) * jit < d.long

InLevels(d, m, tr, e) ==
    /\ d.kind = "PCM" /\ Runs(m, tr, e) /\ e[1] = 0
    /\ \E jit \in 0..d.short : OffBy(d, m, tr, e, jit)
    /\ ~NRZ(d) =>
        \A n \in 1..Len(tr) :
            Units(e, 2 * n - 1) = 1 /\ Dist(tr[n].p, d.short) <= PcmTolerance(d)
    /\ \A n \in 1..Len(tr) - 1 :
        /\ Units(e, 2 * n) * d.long <= GapLimit(d)
        /\ tr[n].g <= d.reset /\ tr[n].g <= GapLimit(d)
    /\ LET k == Len(m) - e[Symbols(tr)]
       IN  LastGap(tr) >= (k + 1) * d.long /\ k * d.long <= GapLimit(d)
    /\ LastGap(tr) > d.reset /\ LastGap(tr) >= 3 * d.long

\* Every bit is sent, the last in a pulse.
InSymbols(d, m, tr, e) ==
    /\ d.kind = "PIWM_RAW" /\ Runs(m, tr, e) /\ e[1] = 0
    /\ e[Symbols(tr)] = Len(m)
    /\ \A k \in Inside(tr) :
        /\ InUnits(Symbol(tr, k), Units(e, k), d.short)
        /\ Dist(Symbol(tr, k), Units(e, k) * d.short) < d.tol
        /\ Symbol(tr, k) <= d.long /\ Symbol(tr, k) <= d.reset
    /\ LastGap(tr) > d.long

\* A 0 is a gap and a pulse, a 1 a pulse and a gap.
HalfBits(m) ==
    [i \in 1..2 * Len(m) |->
        IF i % 2 = 1 THEN m[(i + 1) \div 2] ELSE 1 - m[i \div 2]]

\* One half or two: two single ones are longer than one and a half.
InHalf(d, w, k) ==
    IF k = 1 THEN 3 * d.short < 4 * w /\ 2 * w <= 3 * d.short
    ELSE 3 * d.short < 2 * w

\* The message begins with a 0, whose gap is not heard.
InHalves(d, m, tr, e) ==
    /\ d.kind = "MC" /\ d.tol = 0
    /\ Len(m) > 0 /\ m[1] = 0
    /\ Runs(HalfBits(m), tr, e) /\ e[1] = 1
    /\ \A k \in Inside(tr) :
        Units(e, k) \in {1, 2} /\ InHalf(d, Symbol(tr, k), Units(e, k))
    /\ \A n \in 1..Len(tr) - 1 : tr[n].g <= d.reset

-----------------------------------------------------------------------------
(* NRZS and DMC.                                                            *)

\* A pulse is a run of ones and the 0 behind it, a short one that 0 alone.
InGroups(d, m, tr, e) ==
    /\ d.kind = "NRZS" /\ Len(tr) > 0
    /\ e \in [1..Len(tr) + 1 -> 0..Len(m)]
    /\ e[1] = 0 /\ e[Len(tr) + 1] = Len(m)
    /\ \A n \in 1..Len(tr) :
        LET k == Units(e, n) - 1
        IN  /\ k >= 0
            /\ \A i \in e[n] + 1..e[n + 1] : m[i] = IF i < e[n + 1] THEN 1 ELSE 0
            /\ k * d.short <= tr[n].p /\ tr[n].p < (k + 1) * d.short
            /\ k > 0 => tr[n].p > d.short
    /\ \A n \in 1..Len(tr) - 1 : tr[n].g < d.reset

\* A 1 is two short symbols, the second of the last one maybe the silence, and
\* a 0 is a long one; e[i] is the first symbol of bit i.
InPairs(d, m, tr, e) ==
    /\ d.kind = "DMC" /\ Len(tr) > 0 /\ Len(m) > 0
    /\ d.short + 2 * d.tol <= d.long /\ d.long + 2 * d.tol <= d.reset
    /\ e \in [1..Len(m) + 1 -> 1..Symbols(tr)]
    /\ e[1] = 1 /\ e[Len(m) + 1] = Symbols(tr)
    /\ \A i \in 1..Len(m) :
        \/ Units(e, i) = 1 + m[i]
        \/ i = Len(m) /\ Units(e, i) = 1
    /\ \A i \in 1..Len(m) : \A k \in e[i]..e[i + 1] - 1 :
        Dist(Symbol(tr, k), IF m[i] = 1 THEN d.short ELSE d.long) < d.tol
    /\ LastGap(tr) >= d.reset

-----------------------------------------------------------------------------

SendsBy(d, m, tr, e) ==
    /\ m \in Seq({0, 1}) /\ Len(m) > 0 /\ ~d.slow
    /\ \/ InLengths(d, m, tr) \/ InLevels(d, m, tr, e)
       \/ InSymbols(d, m, tr, e) \/ InHalves(d, m, tr, e)
       \/ InGroups(d, m, tr, e) \/ InPairs(d, m, tr, e)

\* tr carries m to d.
Sends(d, m, tr) == \E e : SendsBy(d, m, tr, e)

=============================================================================
