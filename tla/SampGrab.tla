------------------------------- MODULE SampGrab -------------------------------
(***************************************************************************)
(* The sample grabber of src/rtl433/src/samp_grab.c: a ring of the bytes   *)
(* received last, and the computation of the part of it to be written.     *)
(* A byte of the input is its number; a cell that malloc() left as it was  *)
(* is -1.                                                                  *)
(***************************************************************************)
EXTENDS Integers

CONSTANTS RingSize,     \* sg_size
          BLOCK_SIZE    \* files are a whole number of blocks

ASSUME GrabAssumption == RingSize \in Nat \ {0} /\ BLOCK_SIZE \in Nat \ {0}

Ring == 0..RingSize - 1
NewGrab == [buf |-> [i \in Ring |-> -1], index |-> 0, len |-> 0]

-----------------------------------------------------------------------------
(* samp_grab_push()                                                         *)

\* sg_len, set before the bytes are copied.
Counted(g, len) ==
    [g EXCEPT !.len = IF @ + len > RingSize THEN RingSize ELSE @ + len]

WholeChunk(g, len) == len  \* mutant
Chunk(g, len) == IF g.index + len > RingSize THEN RingSize - g.index ELSE len

\* One turn of the loop: m bytes, the first one of number b.
Stored(g, m, b) ==
    [g EXCEPT !.buf = [i \in Ring |->
                        IF i >= g.index /\ i < g.index + m THEN b + (i - g.index)
                        ELSE g.buf[i]],
              !.index = IF @ + m >= RingSize THEN 0 ELSE @ + m]

-----------------------------------------------------------------------------
(* samp_grab_write()                                                        *)

\* The bytes rounded up, always by one byte at least.
Rounded(bytes) == bytes + (BLOCK_SIZE - (bytes % BLOCK_SIZE))

Bounded(g, bytes) == IF Rounded(bytes) > g.len THEN g.len ELSE Rounded(bytes)

\* "relative end in bytes from current sg_index down", made absolute.
EndPos(g, bytes) ==
    IF g.index >= bytes THEN g.index - bytes ELSE RingSize - bytes + g.index

StartPosCut(end, size) == IF end >= size THEN end - size ELSE 0  \* mutant
StartPos(end, size) == IF end >= size THEN end - size ELSE RingSize - size + end

\* The two parts of the ring that make up the file: size bytes, with end bytes
\* behind them.
File(g, size, end) ==
    LET start == StartPos(EndPos(g, end), size)
        wlen == IF start + size > RingSize THEN RingSize - start ELSE size
    IN  [start |-> start, wlen |-> wlen, wrest |-> size - wlen]

\* What is written of them.
Written(g, f) ==
    [j \in 0..f.wlen + f.wrest - 1 |->
        IF j < f.wlen THEN g.buf[f.start + j] ELSE g.buf[j - f.wlen]]

-----------------------------------------------------------------------------

\* The cell k bytes back.
Back(g, k) ==
    IF g.index >= k THEN g.index - k ELSE RingSize + g.index - k

\* Of an input of n bytes, the ring holds the last ones, newest behind.
HoldsLast(g, n) ==
    \A k \in 1..RingSize : k <= n => g.buf[Back(g, k)] = n - k

=============================================================================
