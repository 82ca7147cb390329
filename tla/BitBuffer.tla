------------------------------ MODULE BitBuffer ------------------------------
(***************************************************************************)
(* The bit buffer of src/rtl433/src/bitbuffer.c: BITBUF_ROWS rows in one   *)
(* array, where a row that is longer than its columns goes on in the rows  *)
(* after it. Row r begins at cell r * RowBits of the array bb.             *)
(*                                                                         *)
(* Left out: syncs_before_row, which no other field depends on.            *)
(***************************************************************************)
EXTENDS Integers

CONSTANTS BITBUF_ROWS,   \* 50
          RowBits,       \* BITBUF_COLS * 8
          ByteBits,      \* 8
          UINT16_MAX     \* the most bits a row counts

ASSUME BufferAssumption ==
    /\ BITBUF_ROWS \in Nat \ {0}
    /\ RowBits \in Nat \ {0}
    /\ ByteBits \in Nat \ {0}
    /\ RowBits % ByteBits = 0
    /\ UINT16_MAX \in Nat /\ BITBUF_ROWS * RowBits <= UINT16_MAX

VARIABLES bits,     \* the bit buffer
          refused   \* history: it had no room for a row since it was cleared

Rows == 0..BITBUF_ROWS - 1
Cells == 0..BITBUF_ROWS * RowBits - 1

Buffers == [rows : 0..BITBUF_ROWS, free : 0..BITBUF_ROWS,
            width : [Rows -> Nat], bit : [Cells -> {0, 1}]]

\* bitbuffer_clear()
Clear == [rows |-> 0, free |-> 0,
          width |-> [r \in Rows |-> 0], bit |-> [c \in Cells |-> 0]]

Last(b) == b.rows - 1
Cell(r, i) == r * RowBits + i
LastWidth(b) == b.width[Last(b)]

\* "Add first row automatically"
Started(b) == IF b.rows = 0 THEN [b EXCEPT !.rows = 1, !.free = 1] ELSE b

-----------------------------------------------------------------------------
(* bitbuffer_add_bit()                                                      *)

\* The bit is the first one in the columns of another row.
SpillsLate(b) == LastWidth(b) > RowBits /\ LastWidth(b) % RowBits = 0  \* mutant
Spills(b) == LastWidth(b) > 0 /\ LastWidth(b) % RowBits = 0

AlwaysRoomFor(b) == LastWidth(b) = UINT16_MAX  \* mutant
NoRoomFor(b) ==
    \/ LastWidth(b) = UINT16_MAX
    \/ Spills(b) /\ b.free >= BITBUF_ROWS

\* The bit is or'ed into its byte.
Put(b, v) ==
    [b EXCEPT !.width[Last(b)] = @ + 1,
              !.bit[Cell(Last(b), LastWidth(b))] = IF v = 1 THEN 1 ELSE @,
              !.free = IF Spills(b) THEN @ + 1 ELSE @]

AddBit(b, v) ==
    LET s == Started(b) IN IF NoRoomFor(s) THEN s ELSE Put(s, v)

-----------------------------------------------------------------------------
(* bitbuffer_add_row(), bitbuffer_add_sync(), bitbuffer_set_width()         *)

RowOverSpill(b) ==  \* mutant
    IF b.rows < BITBUF_ROWS
    THEN [b EXCEPT !.rows = @ + 1, !.free = b.rows + 1]
    ELSE [b EXCEPT !.width[Last(b)] = 0]

\* "Clear last row to handle overflow somewhat gracefully": its width.
NewRow(b) ==
    IF b.free < BITBUF_ROWS
    THEN [b EXCEPT !.rows = b.free + 1, !.free = @ + 1]
    ELSE [b EXCEPT !.width[Last(b)] = 0]

AddRow(b) == NewRow(Started(b))
RowRefused(b) == Started(b).free >= BITBUF_ROWS

AddSync(b) ==
    IF LastWidth(Started(b)) > 0 THEN AddRow(b) ELSE Started(b)
SyncRefused(b) == LastWidth(Started(b)) > 0 /\ RowRefused(b)

WholeBytes(w) == ((w + ByteBits - 1) \div ByteBits) * ByteBits

TruncatedBytes(b, w) ==  \* mutant
    [c \in Cells |->
        IF /\ c >= Cell(Last(b), WholeBytes(w))
           /\ c < Cell(Last(b), WholeBytes(LastWidth(b)))
        THEN 0 ELSE b.bit[c]]

\* What is cut off is zeroed, up to the end of the last byte in use.
Truncated(b, w) ==
    [c \in Cells |->
        IF /\ c >= Cell(Last(b), w)
           /\ c < Cell(Last(b), WholeBytes(LastWidth(b)))
        THEN 0 ELSE b.bit[c]]

Capped(b, w) ==
    LET room == (BITBUF_ROWS - b.rows + 1) * RowBits
    IN  IF w > room THEN room ELSE w

Resized(b, w) ==
    [b EXCEPT !.width[Last(b)] = w,
              !.bit = IF LastWidth(b) > w THEN Truncated(b, w) ELSE @,
              !.free = b.rows + (IF w = 0 THEN 0 ELSE (w - 1) \div RowBits)]

SetWidth(b, w) ==
    LET s == Started(b) IN Resized(s, Capped(s, w))

-----------------------------------------------------------------------------
(* bitbuffer_invert(), bitbuffer_nrzs_decode(), bitbuffer_nrzm_decode(): a  *)
(* decoder recodes the rows of the buffer it is given.                      *)

Codes == {"invert", "nrzs", "nrzm"}

\* The bits before and at a cell, the one before the first being 0.
Pair(b, r, c) ==
    b.bit[c] + (IF c = Cell(r, 0) THEN 0 ELSE b.bit[c - 1])

Recoded(b, code, r, c) ==
    CASE code = "invert" -> 1 - b.bit[c]
      [] code = "nrzs" -> (Pair(b, r, c) + 1) % 2
      [] code = "nrzm" -> Pair(b, r, c) % 2

Within(b, r, c) == c >= Cell(r, 0) /\ c < Cell(r, b.width[r])

\* The bits of the last byte of a row that it does not use.
Unused(b, r, c) ==
    c >= Cell(r, b.width[r]) /\ c < Cell(r, WholeBytes(b.width[r]))

Recode(b, code) ==
    [b EXCEPT !.bit = [c \in Cells |->
        IF \E r \in 0..Last(b) : Within(b, r, c)
        THEN Recoded(b, code, CHOOSE r \in 0..Last(b) : Within(b, r, c), c)
        ELSE IF code # "invert" /\ \E r \in 0..Last(b) : Unused(b, r, c)
             THEN 0 ELSE b.bit[c]]]

-----------------------------------------------------------------------------
(* A buffer under any calls.                                                *)

BufferInit == bits = Clear /\ refused = FALSE

CallClear == bits' = Clear /\ refused' = FALSE

CallAddBit(v) == bits' = AddBit(bits, v) /\ UNCHANGED refused

CallAddRow ==
    /\ bits' = AddRow(bits)
    /\ refused' = (refused \/ RowRefused(bits))

CallAddSync ==
    /\ bits' = AddSync(bits)
    /\ refused' = (refused \/ SyncRefused(bits))

CallSetWidth(w) == bits' = SetWidth(bits, w) /\ UNCHANGED refused

CallRecode(code) == bits' = Recode(bits, code) /\ UNCHANGED refused

BufferNext ==
    \/ CallClear
    \/ \E v \in {0, 1} : CallAddBit(v)
    \/ CallAddRow
    \/ CallAddSync
    \/ \E w \in 0..UINT16_MAX : CallSetWidth(w)
    \/ \E code \in Codes : CallRecode(code)

\* What the code that fills a buffer may do with it.
BufferSpec == BufferInit /\ [][BufferNext]_<<bits, refused>>

-----------------------------------------------------------------------------
(* Properties.                                                              *)

\* The rows in use end before the rows after them begin, and the last one
\* before the first free row: no bit is read or written outside the array or
\* in another row (bitbuffer_add_bit() and bitbuffer_set_width() let a row
\* spill, bitbuffer_add_row() has to start after the spill).
Fits(b) ==
    /\ b.rows <= b.free
    /\ \A r \in Rows : r >= b.rows => b.width[r] = 0
    /\ \A r \in Rows, s \in Rows :
        r < s /\ s < b.rows /\ (b.width[s] > 0 \/ s = Last(b))
            => Cell(r, b.width[r]) <= Cell(s, 0)
    /\ b.rows > 0 => Cell(Last(b), LastWidth(b)) <= Cell(b.free, 0)

RowsFit == Fits(bits)

TailZero == \A c \in Cells :
    (\A r \in 0..Last(bits) : ~Within(bits, r, c)) => bits.bit[c] = 0

\* As long as no row was refused, what lies behind the end of a row is zero:
\* the bits that bitbuffer_add_bit() or's in, and the ones a wider
\* bitbuffer_set_width() uncovers, read as they were meant.
CleanTail == ~refused => TailZero

Content(b, r) == [i \in 1..b.width[r] |-> b.bit[Cell(r, i - 1)]]

\* No row but the last is ever changed by adding to the buffer or setting a
\* width: rows are only appended, until a decoder recodes or a slicer clears.
RowsKept ==
    [][ \/ bits' = Clear
        \/ \E code \in Codes : bits' = Recode(bits, code)
        \/ \A r \in 0..Last(bits) - 1 : Content(bits', r) = Content(bits, r)
      ]_bits

=============================================================================
