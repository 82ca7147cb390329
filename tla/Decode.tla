------------------------------- MODULE Decode --------------------------------
(***************************************************************************)
(* From a package of pulses to the decoders: the device list that          *)
(* register_protocol() fills, run_ook_demods() and run_fsk_demods() of     *)
(* src/rtl433/src/r_api.c over it, and the slicer of each device, which    *)
(* fills a bit buffer and hands it to the decoder. A test code             *)
(* (rtl_433 -y) takes the place of a package.                              *)
(*                                                                         *)
(* One step is one call on the bit buffer, one turn of a loop or one       *)
(* delivery. A decoder is any function: it returns a count of messages and *)
(* may recode the buffer it was given.                                     *)
(***************************************************************************)
EXTENDS PulseSlicer, BitBuffer, ListData, PartialSums, FiniteSets

CONSTANTS Protocols,       \* the devices
          OfferedTo(_),    \* those registered with, or removed from, a list
          PackagesOf(_),   \* the packages tried on a list of devices
          Recodings,       \* what a decoder may do with the buffer
          UINT_MAX,        \* no priority
          MaxDevices       \* bound: devices on the list

ASSUME DecodeAssumption ==
    /\ UINT_MAX \in Nat \ {0} /\ MaxDevices \in Nat
    /\ Recodings \subseteq Codes
    /\ \A d \in Protocols :
        /\ d.kind \in Kinds /\ d.prio \in 0..UINT_MAX
        /\ d.fsk \in BOOLEAN /\ Timed(d)
        /\ NULL # d /\ Junk # d

VARIABLES
    phase,    \* where the program stands
    devs,     \* cfg->demod->r_devs
    name,     \* the protocol being unregistered
    pkg,      \* the package, or test code
    priority, \* priority and next_priority
    nextPriority,
    it,       \* index of iter
    events,   \* p_events
    n, mem,   \* index and memory of the slicer
    todo,     \* its calls of this turn that are still to be made
    pend,     \* history: bits added since a delivery
    first,    \* history: the first row of the device's first delivery
    ran, won  \* history: devices that ran, that produced an event

buffer == <<bits, refused>>
slicer == <<n, mem, todo, pend, first>>
dispatch == <<priority, nextPriority, it, events, ran, won>>
vars == <<phase, devs, name, pkg, dispatch, slicer, buffer>>

\* A package of pulses, or a test code.
IsPackage(k) ==
    \/ k.type \in {"ook", "fsk"} /\ k.tr \in Seq(Pulses)
    \/ k.type = "code" /\ k.tr \in Seq(CodeTokens)

None == [type |-> "none", tr |-> << >>, msg |-> << >>]

Init ==
    /\ phase = "config"
    /\ devs = EmptyList
    /\ name = "none"
    /\ pkg = None
    /\ priority = 0 /\ nextPriority = UINT_MAX
    /\ it = 0 /\ events = 0
    /\ n = 1 /\ mem = 0 /\ todo = << >>
    /\ pend = 0 /\ first = << >>
    /\ ran = {} /\ won = {}
    /\ BufferInit

-----------------------------------------------------------------------------
(* The device list.                                                         *)

\* register_protocol()
Register(d) ==
    /\ phase = "config" /\ devs.len < MaxDevices
    /\ devs' = Push(devs, d)
    /\ UNCHANGED <<phase, name, pkg, dispatch, slicer, buffer>>

\* unregister_protocol(): every device of that name.
Unregister(d) ==
    /\ phase = "config" /\ devs.len > 0
    /\ phase' = "unregister"
    /\ name' = d.name
    /\ it' = 0
    /\ UNCHANGED <<devs, pkg, priority, nextPriority, events, ran, won, slicer,
                   buffer>>

\* A match is removed and the index stays, "so we don't skip the next elem".
UnregisterTurn ==
    /\ phase = "unregister" /\ it < devs.len
    /\ IF devs.elems[it].name = name
       THEN devs' = Remove(devs, it) /\ UNCHANGED it
       ELSE it' = it + 1 /\ UNCHANGED devs
    /\ UNCHANGED <<phase, name, pkg, priority, nextPriority, events, ran, won,
                   slicer, buffer>>

UnregisterDone ==
    /\ phase = "unregister" /\ it >= devs.len
    /\ phase' = "config"
    /\ name' = "none"
    /\ it' = 0
    /\ UNCHANGED <<devs, pkg, priority, nextPriority, events, ran, won, slicer,
                   buffer>>

-----------------------------------------------------------------------------
(* run_ook_demods(), run_fsk_demods(), and the loop over a test code.       *)

Receive ==
    /\ phase = "config"
    /\ phase' = "pass"
    /\ pkg' \in {k \in PackagesOf(devs) : IsPackage(k)}
    /\ UNCHANGED <<devs, name, dispatch, slicer, buffer>>

\* "iter && *iter"
Device == IF devs.size = 0 THEN NULL ELSE devs.elems[it]

Demods(d) == pkg.type = "code" \/ d.fsk = (pkg.type = "fsk")

Chosen(d) == Demods(d) /\ (pkg.type = "code" \/ d.prio = priority)

NextLowest(d) ==  \* mutant
    IF d.prio > priority THEN d.prio ELSE nextPriority
\* "Find next smallest priority"
NextSmallest(d) ==
    IF d.prio > priority /\ d.prio < nextPriority THEN d.prio
    ELSE nextPriority

SkipDevice ==
    /\ phase = "pass" /\ Device # NULL /\ ~Chosen(Device)
    /\ nextPriority' = NextSmallest(Device)
    /\ it' = it + 1
    /\ UNCHANGED <<phase, devs, name, pkg, priority, events, ran, won, slicer,
                   buffer>>

CodeStart(d) == IF pkg.type = "code" THEN To(<< >>, 1, -1) ELSE Start(d, pkg.tr)

RunDevice ==
    /\ phase = "pass" /\ Device # NULL /\ Chosen(Device)
    /\ phase' = "slice"
    /\ LET s == CodeStart(Device)
       IN  todo' = s.ops /\ n' = s.n /\ mem' = s.t
    /\ pend' = 0 /\ first' = << >>
    /\ UNCHANGED <<devs, name, pkg, dispatch, buffer>>

GoOnDespite == nextPriority < UINT_MAX  \* mutant
\* "stop if an event is produced"
GoOn == pkg.type # "code" /\ events = 0 /\ nextPriority < UINT_MAX

NextPass ==
    /\ phase = "pass" /\ Device = NULL /\ GoOn
    /\ priority' = nextPriority
    /\ nextPriority' = UINT_MAX
    /\ it' = 0
    /\ UNCHANGED <<phase, devs, name, pkg, events, ran, won, slicer, buffer>>

Finish ==
    /\ phase = "pass" /\ Device = NULL /\ ~GoOn
    /\ phase' = "done"
    /\ UNCHANGED <<devs, name, pkg, dispatch, slicer, buffer>>

-----------------------------------------------------------------------------
(* A slicer.                                                                *)

Turns == IF pkg.type = "code" THEN Len(pkg.tr) ELSE Limit(Device, pkg.tr)

Turn ==
    /\ phase = "slice" /\ todo = << >> /\ n <= Turns
    /\ LET s == IF pkg.type = "code" THEN Parse(pkg.tr, n, mem)
                ELSE Slice(Device, pkg.tr, n, mem)
       IN  todo' = s.ops /\ n' = s.n /\ mem' = s.t
    /\ UNCHANGED <<phase, devs, name, pkg, dispatch, pend, first, buffer>>

DeviceDone ==
    /\ phase = "slice" /\ todo = << >> /\ n > Turns
    /\ phase' = "pass"
    /\ it' = it + 1
    /\ ran' = ran \cup {it}
    /\ CallClear
    /\ UNCHANGED <<devs, name, pkg, priority, nextPriority, events, won, slicer>>

Calling(op) == phase = "slice" /\ todo # << >> /\ Head(todo).op = op

\* The call is made and the slicer goes on.
Called ==
    /\ todo' = Tail(todo)
    /\ UNCHANGED <<phase, devs, name, pkg, dispatch, n, mem, first>>

AddsBit(v) ==
    /\ Calling("bit") /\ Head(todo).v = v
    /\ CallAddBit(v)
    /\ pend' = pend + 1
    /\ Called

HasData == bits.rows > 0 /\ LastWidth(bits) > 0

RowDue ==
    \/ Calling("row")
    \/ Calling("rowIfData") /\ HasData
    \/ Calling("rowIfRows") /\ bits.rows > 0

AddsRow == RowDue /\ CallAddRow /\ Called /\ UNCHANGED pend

SkipsRow ==
    /\ \/ Calling("rowIfData") /\ ~HasData
       \/ Calling("rowIfRows") /\ bits.rows = 0
    /\ Called /\ UNCHANGED <<buffer, pend>>

AddsSync == Calling("sync") /\ CallAddSync /\ Called /\ UNCHANGED pend

MaxRowBits == BITBUF_ROWS * RowBits

\* "if (width > BITBUF_MAX_ROW_BITS)"
SetsWidth(w) ==
    /\ Calling("width")
    /\ w = IF Head(todo).v > MaxRowBits THEN MaxRowBits ELSE Head(todo).v
    /\ CallSetWidth(w)
    /\ Called /\ UNCHANGED pend

Clears == Calling("clear") /\ CallClear /\ Called /\ pend' = 0

-----------------------------------------------------------------------------
(* Deliveries.                                                              *)

Ends == {"endData", "endRows", "end"}

\* "Only if data has been accumulated"
Accumulated == bits.width[0] > 0 \/ bits.rows > 1

Delivers ==
    \/ Calling("endData") /\ Accumulated
    \/ Calling("endRows") /\ bits.rows > 0
    \/ Calling("end")

NeverClear(op) == Tail(todo)  \* mutant
\* What the slicer does once the decoder is back.
AfterEnd(op) == When(op.v = 1, <<Do("clear", 0)>>) \o Tail(todo)

\* account_event(): the decoder runs, and what it found is counted.
Deliver(found, code) ==
    /\ Delivers
    /\ IF code = "none" THEN UNCHANGED buffer ELSE CallRecode(code)
    /\ events' = IF found THEN events + 1 ELSE events
    /\ won' = IF found THEN won \cup {it} ELSE won
    /\ first' = IF first = << >> THEN Content(bits, 0) ELSE first
    /\ pend' = 0
    /\ todo' = AfterEnd(Head(todo))
    /\ UNCHANGED <<phase, devs, name, pkg, priority, nextPriority, it, ran, n,
                   mem>>

NothingToDeliver ==
    /\ \E op \in Ends : Calling(op)
    /\ ~Delivers
    /\ Called /\ UNCHANGED <<buffer, pend>>

-----------------------------------------------------------------------------

Next ==
    \/ \E d \in OfferedTo(devs) \cap Protocols : Register(d) \/ Unregister(d)
    \/ UnregisterTurn \/ UnregisterDone
    \/ Receive
    \/ SkipDevice \/ RunDevice \/ NextPass \/ Finish
    \/ Turn \/ DeviceDone
    \/ \E v \in {0, 1} : AddsBit(v)
    \/ \E w \in 0..MaxRowBits : SetsWidth(w)
    \/ AddsRow \/ SkipsRow \/ AddsSync \/ Clears
    \/ \E found \in BOOLEAN, code \in Recodings \cup {"none"} :
            Deliver(found, code)
    \/ NothingToDeliver

Spec == Init /\ [][Next]_vars

-----------------------------------------------------------------------------
(* Properties.                                                              *)

Phases == {"config", "unregister", "pass", "slice", "done"}

TypeOK ==
    /\ phase \in Phases
    /\ pkg.type \in {"none", "ook", "fsk", "code"}
    /\ priority \in 0..UINT_MAX - 1 /\ nextPriority \in 0..UINT_MAX
    /\ it \in 0..devs.len
    /\ events \in Nat /\ n \in Nat \ {0} /\ mem \in Int /\ pend \in Nat
    /\ ran \subseteq 0..devs.len /\ won \subseteq 0..devs.len
    /\ bits \in Buffers /\ refused \in BOOLEAN

\* The list is terminated inside its array and holds the registered devices
\* (list_push() at every size, list_remove() from any place).
DevicesListed == ListOk(devs)

Index == 0..devs.len - 1
Wanted == {i \in Index : Demods(devs.elems[i])}
PrioOf(i) == devs.elems[i].prio

\* A decoder of some priority runs once, and only when every decoder of a lower
\* one that takes such packages has run and found nothing (run_ook_demods():
\* "Eliminate false positives by letting ... go earlier").
LowerFirst ==
    phase = "slice" /\ pkg.type # "code" =>
        /\ it \notin ran
        /\ \A i \in Wanted :
            PrioOf(i) < PrioOf(it) => i \in ran /\ i \notin won

\* A decoder is passed over only for an event of a decoder of lower priority:
\* one event does not keep those of the same priority from running.
NonePassedOver ==
    phase = "done" /\ pkg.type # "code" =>
        \A i \in Wanted \ ran :
            \/ PrioOf(i) >= UINT_MAX
            \/ \E w \in won : PrioOf(w) < PrioOf(i)

SumWidths == SumBelow(bits.width, bits.rows)

\* A slicer that clears its buffer after a delivery never delivers a bit of one
\* message again with the next (PCM, PPM, PWM, Manchester).
DeliveredOnce ==
    phase = "slice" /\ Delivers /\ pkg.type # "code" =>
        (Device.kind \in ClearingKinds => SumWidths <= pend)

\* When a package ends, whatever ended it, the bits sliced from it have been
\* delivered (Manchester has prepared the 0 of the next message). Not said of
\* DMC, which has no "No more pulses?", of an Oregon Scientific v1 sync pulse
\* with nothing behind it, and of a buffer that had no room for a row.
NothingLost ==
    phase = "slice" /\ todo = << >> /\ n > Turns =>
        \/ pend = 0 \/ refused
        \/ pkg.type # "code" /\ Device.kind = "DMC"
        \/ /\ pkg.type # "code" /\ Device.kind = "OSV1"
           /\ Len(pkg.tr) = OsvPreamble + 1
        \/ pkg.type # "code" /\ Device.kind = "MC" /\ pend = 1

IsPrefix0(m, row) ==
    /\ Len(row) >= Len(m)
    /\ \A i \in 1..Len(row) : row[i] = IF i <= Len(m) THEN m[i] ELSE 0

\* Slicing undoes the line code: the pulses that send a message in the
\* modulation of the device are delivered as that message, in the first row
\* (NRZ and RZ codes add the zeros of the silence).
RoundTrip ==
    phase = "slice" /\ todo = << >> /\ n > Turns /\ pkg.msg # << >> =>
        IF Device.kind = "PCM" THEN IsPrefix0(pkg.msg, first)
        ELSE first = pkg.msg

=============================================================================
