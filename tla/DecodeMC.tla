------------------------------ MODULE DecodeMC -------------------------------
(***************************************************************************)
(* Devices and packages for TLC: every short train of pulses for each      *)
(* modulation, the pulses that send every short message in its line code,  *)
(* test codes, and lists of devices with priorities.                       *)
(***************************************************************************)
EXTENDS Decode, LineCodes

Dev(nm, kind, short, long, reset, gap, sync, tol) ==
    [name |-> nm, kind |-> kind, short |-> short, long |-> long,
     reset |-> reset, gap |-> gap, sync |-> sync, tol |-> tol,
     prio |-> 0, fsk |-> FALSE, slow |-> FALSE]

\* One or more devices of each modulation, for each way its limits are set.
Sliced ==
    {Dev("nrz", "PCM", 2, 2, 11, 0, 0, 0), Dev("nrzGap", "PCM", 2, 2, 11, 7, 0, 0),
     Dev("rz", "PCM", 2, 4, 24, 0, 0, 0),
     Dev("nrzTuned", "PCM", 26, 26, 120, 0, 0, 0),
     Dev("rzTuned", "PCM", 26, 52, 250, 0, 0, 0),
     Dev("ppm", "PPM", 2, 4, 12, 0, 8, 1), Dev("ppm0", "PPM", 2, 4, 12, 0, 0, 0),
     Dev("pwm", "PWM", 2, 4, 12, 8, 7, 1), Dev("pwm0", "PWM", 2, 4, 12, 0, 0, 0),
     Dev("syncShort", "PWM", 4, 8, 12, 0, 2, 0),
     Dev("syncMiddle", "PWM", 2, 8, 12, 0, 4, 0),
     Dev("syncLong", "PWM", 2, 4, 12, 0, 8, 0),
     Dev("mc", "MC", 2, 0, 8, 0, 0, 0), Dev("mcTol", "MC", 2, 0, 8, 0, 0, 1),
     Dev("dmc", "DMC", 2, 4, 10, 0, 0, 1), Dev("raw", "PIWM_RAW", 2, 10, 11, 0, 0, 1),
     Dev("dc", "PIWM_DC", 2, 4, 10, 0, 0, 1), Dev("nrzs", "NRZS", 2, 0, 10, 0, 0, 0),
     Dev("osv1", "OSV1", 4, 0, 30, 0, 0, 0),
     [Dev("slow", "PWM", 0, 4, 12, 0, 0, 0) EXCEPT !.slow = TRUE]}

\* Those whose bit width, measured over a package, may differ from the nominal.
Tuned == {d \in Sliced : d.name \in {"nrzTuned", "rzTuned"}}

Listed(nm, prio, fsk) ==
    [Dev(nm, "PWM", 2, 4, 12, 0, 0, 0) EXCEPT !.prio = prio, !.fsk = fsk]

Prioritized ==
    {Listed("a", 0, FALSE), Listed("b", 1, FALSE), Listed("b", 2, FALSE),
     Listed("c", 2, TRUE), Listed("d", UINT_MAX, FALSE)}

MCProtocols == Sliced \cup Prioritized

AllFrom(l, S) == \A i \in 0..l.len - 1 : l.elems[i] \in S

MCOfferedTo(l) ==
    IF l.len = 0 THEN MCProtocols
    ELSE IF AllFrom(l, Prioritized) THEN Prioritized ELSE {}

-----------------------------------------------------------------------------
(* Trains of pulses.                                                        *)

X(p, g) == [p |-> p, g |-> g]

\* Pulses and gaps on either side of the limits of a device.
Widths(d) ==
    CASE d \in Tuned -> {20, 30, 60}
      [] d.kind = "PPM" -> {2}
      [] d.kind \in {"PWM", "NRZS"} -> {1, 2, 4, 8}
      [] d.kind \in SymbolKinds -> {1, 2, 4}
      [] OTHER -> {2, 4, 8}

Gaps(d) ==
    CASE d \in Tuned -> {20, 30, 80, 400}
      [] d.kind = "PPM" -> {1, 2, 4, 8, 9, 12, 25}
      [] d.kind \in {"PWM", "NRZS"} -> {2, 9, 25}
      [] OTHER -> {2, 4, 9, 25}

Trains(d) ==
    UNION {[1..k -> {X(p, g) : p \in Widths(d), g \in Gaps(d)}] : k \in 1..2}

\* Preambles of the Oregon Scientific v1 protocol and what may follow.
OsvTrains ==
    {<<X(4, 4), X(4, g)>> \o t : g \in {4, 8},
        t \in {<< >>} \cup {<<x>> : x \in {X(12, 12), X(12, 16), X(4, 4)}}
              \cup {<<X(12, 16), x, y>> : x \in {X(4, 4), X(8, 40), X(8, 8)},
                                          y \in {X(4, 40), X(8, 4)}}}

-----------------------------------------------------------------------------
(* Line codes: the pulses of a message.                                     *)

Silence == 40

RECURSIVE RunLength(_, _), Flat(_)

\* The length of the run that begins at place i.
RunLength(s, i) ==
    IF i < Len(s) /\ s[i + 1] = s[i] THEN 1 + RunLength(s, i + 1) ELSE 1

Flat(ss) == IF ss = << >> THEN << >> ELSE Head(ss) \o Flat(Tail(ss))

RECURSIVE Symbolic(_, _), Paired(_)

\* The lengths of the runs of levels.
Symbolic(s, u) ==
    IF s = << >> THEN << >>
    ELSE LET k == RunLength(s, 1)
         IN  <<k * u>> \o Symbolic(SubSeq(s, k + 1, Len(s)), u)

\* Symbols that alternate between pulse and gap, then silence.
Paired(ss) ==
    IF ss = << >> THEN << >>
    ELSE IF Len(ss) <= 2 THEN <<X(ss[1], Silence)>>
    ELSE <<X(ss[1], ss[2])>> \o Paired(SubSeq(ss, 3, Len(ss)))

Levels(s, u) == Paired(Symbolic(s, u))

Each(m, zero, one) ==
    Flat([i \in 1..Len(m) |-> IF m[i] = 1 THEN one ELSE zero])

RECURSIVE Grouped(_)

\* Differential by length: a pulse for each run of ones and the 0 behind it.
Grouped(m) ==
    IF m = << >> THEN << >>
    ELSE LET k == IF m[1] = 0 THEN 0 ELSE RunLength(m, 1)
         IN  <<X(2 * k + 1, 3)>> \o Grouped(SubSeq(m, k + 2, Len(m)))

LastSilent(tr) == [tr EXCEPT ![Len(tr)].g = Silence]

\* By a sender whose every pulse and gap is a sample too long.
Stretched(tr) ==
    [i \in 1..Len(tr) |->
        X(tr[i].p + 1, IF i = Len(tr) THEN 10 * Silence ELSE tr[i].g + 1)]

\* The pulses that send m to d.
Sent(d, m) ==
    CASE d.name = "nrz" -> Levels(m, 2)
      [] d.name = "rz" -> Levels(Each(m, <<0, 0>>, <<1, 0>>), 2)
      [] d.name = "nrzTuned" -> Stretched(Levels(m, 26))
      [] d.name = "rzTuned" -> Stretched(Levels(Each(m, <<0, 0>>, <<1, 0>>), 26))
      [] d.name \in {"ppm", "ppm0"} -> Each(m, <<X(2, 2)>>, <<X(2, 4)>>) \o <<X(2, Silence)>>
      [] d.name \in {"pwm", "pwm0"} -> LastSilent(Each(m, <<X(4, 3)>>, <<X(2, 3)>>))
      [] d.kind = "MC" -> Levels(Tail(Each(m, <<0, 1>>, <<1, 0>>)), d.short)
      [] d.kind = "DMC" -> Paired(Each(m, <<4>>, <<2, 2>>))
      [] d.kind = "PIWM_DC" -> Paired(Each(m, <<4>>, <<2>>))
      [] d.kind = "PIWM_RAW" -> Levels(m, 2)
      [] d.kind = "NRZS" -> LastSilent(Grouped(m))
      [] d.kind = "OSV1" ->
            LET h == Each(m, <<0, 1>>, <<1, 0>>)
            IN  <<X(4, 4), X(4, 8)>>
                \o Levels((IF m[1] = 0 THEN <<1, 1, 1, 0, 0, 0, 0>> \o Tail(h)
                           ELSE <<1, 1, 1, 0, 0, 0>> \o h), 4)

EvenSymbols(m) == Len(Each(m, <<4>>, <<2, 2>>)) % 2 = 0

\* The messages the code can carry up to its end: it begins with a pulse, and
\* its last symbol is not a gap, which the silence swallows. With a tolerance
\* the silence makes the last pulse invalid too, and a Manchester 1 after a 1 is
\* lost.
Carried(d, m) ==
    CASE d.name \in {"nrz", "rz", "nrzTuned", "rzTuned"} -> m[1] = 1
      [] d.kind = "PIWM_RAW" -> m[1] = 1 /\ m[Len(m)] = 1
      [] d.kind = "MC" ->
            /\ m[1] = 0 /\ Len(m) > 1
            /\ d.tol > 0 => SubSeq(m, Len(m) - 1, Len(m)) # <<1, 1>>
      [] d.kind = "DMC" -> ~(EvenSymbols(m) /\ m[Len(m)] = 0)
      [] d.kind = "PIWM_DC" -> Len(m) % 2 = 1
      [] d.kind = "NRZS" -> m[Len(m)] = 0
      [] d.name \in {"ppm", "ppm0", "pwm", "pwm0", "osv1"} -> TRUE
      [] OTHER -> FALSE

\* Short ones, and one with a preamble.
MessagesTo(d) ==
    {m \in UNION {[1..k -> {0, 1}] : k \in 1..5}
            \cup (IF d \in Tuned THEN {<<1, 0, 1, 0, 1, 0, 1, 1>>} ELSE {}) : Carried(d, m)}

RECURSIVE SumTo(_, _)

SumTo(s, k) == IF k = 0 THEN 0 ELSE SumTo(s, k - 1) + s[k]

\* Where the symbols of m are.
Edges(d, m) ==
    LET runs(s) == Symbolic(s, 1)
        ends(v) == SelectSeq([i \in 1..Len(m) |-> IF m[i] = v THEN i ELSE 0],
                             LAMBDA i : i > 0)
        edges(start, s) ==
            [k \in 1..Symbols(Sent(d, m)) |-> start + SumTo(runs(s), k - 1)]
    IN  CASE d.name \in {"rz", "rzTuned"} ->
                [k \in 1..Symbols(Sent(d, m)) |->
                    IF k % 2 = 1 THEN ends(1)[(k + 1) \div 2] - 1 ELSE ends(1)[k \div 2]]
          [] d.name \in {"nrz", "nrzTuned"} \/ d.kind = "PIWM_RAW" -> edges(0, m)
          [] d.kind = "MC" -> edges(1, Tail(HalfBits(m)))
          [] d.kind = "NRZS" -> <<0>> \o ends(0)
          [] d.kind = "DMC" ->
                [i \in 1..Len(m) + 1 |->
                    IF i > Len(m) THEN Symbols(Sent(d, m)) ELSE i + SumTo(m, i - 1)]
          [] OTHER -> << >>

\* The pulses of Sent() are what LineCodes says of a sender, but for Manchester
\* with a tolerance and the Oregon Scientific v1 protocol, which it does not
\* describe.
ASSUME SentIsSent ==
    \A d \in Sliced : \A m \in MessagesTo(d) :
        d.name \notin {"mcTol", "osv1"} => SendsBy(d, m, Sent(d, m), Edges(d, m))

Package(type, tr, m) == [type |-> type, tr |-> tr, msg |-> m]

-----------------------------------------------------------------------------
(* Test codes.                                                              *)

Tokens == {[op |-> "bits", bits |-> <<1, 0, 1, 1>>], [op |-> "/"],
           [op |-> "{", width |-> 3], [op |-> "{", width |-> 9],
           [op |-> "{", width |-> 20]}

TestCodes == UNION {[1..k -> Tokens] : k \in 1..4}

MCPackagesOf(l) ==
    IF l.len = 0 THEN {}
    ELSE IF AllFrom(l, Prioritized)
    THEN {Package("ook", <<X(2, 20)>>, << >>), Package("fsk", <<X(2, 20)>>, << >>),
          Package("code", <<[op |-> "/"]>>, << >>)}
    ELSE LET d == l.elems[0]
         IN  {Package("ook", tr, << >>) :
                tr \in IF d.kind = "OSV1" THEN OsvTrains ELSE Trains(d)}
             \cup {Package("ook", Sent(d, m), m) : m \in MessagesTo(d)}
             \cup (IF d.name = "pwm"
                   THEN {Package("code", c, << >>) : c \in TestCodes} ELSE {})

=============================================================================
