---------------------------- MODULE Decode_proofs ----------------------------
(***************************************************************************)
(* For any devices, packages, decoders and sizes. The bit buffer: its rows *)
(* never overlap, no bit is stored outside the array, what lies behind a   *)
(* row is zero, and rows are only appended. The dispatch: the device list  *)
(* stays terminated, and decoders run in the order of their priorities.    *)
(* The slicers: a bit is delivered once, none is left behind, and what is  *)
(* sent in a line code comes back as it was.                               *)
(***************************************************************************)
EXTENDS Decode, LineCodes, PartialSums_proofs, SequenceTheorems

-----------------------------------------------------------------------------
(* Multiples of the length of a row.                                        *)

\* A later row begins a whole row later.
LEMMA RowAfter ==
  ASSUME NEW a \in Nat, NEW b \in Nat, a < b
  PROVE  a * RowBits + RowBits <= b * RowBits
<1> DEFINE k == b - a - 1
<1>1. k \in Nat /\ b = a + 1 + k
  OBVIOUS
<1>2. k * RowBits \in Nat
  BY <1>1, BufferAssumption
<1>3. b * RowBits = a * RowBits + RowBits + k * RowBits
  BY <1>1, BufferAssumption
<1> QED BY <1>2, <1>3, BufferAssumption

\* A whole number of rows leaves no remainder.
LEMMA WholeRows ==
  ASSUME NEW k \in Nat
  PROVE  (k * RowBits) % RowBits = 0
  BY BufferAssumption

\* Division by the length of a row.
LEMMA DivRow ==
  ASSUME NEW w \in Nat
  PROVE  /\ w \div RowBits \in Nat
         /\ (w \div RowBits) * RowBits <= w
         /\ w < (w \div RowBits) * RowBits + RowBits
  BY BufferAssumption

-----------------------------------------------------------------------------
(* Each call keeps the rows apart.                                          *)

Good(b) == b \in Buffers /\ Fits(b)

\* The rows before the last one, which most calls leave alone.
LEMMA LastInRows ==
  ASSUME NEW b, Good(b), b.rows > 0
  PROVE  /\ Last(b) \in Rows /\ Last(b) \in Nat /\ b.rows = Last(b) + 1
         /\ LastWidth(b) \in Nat
         /\ b.free \in 1..BITBUF_ROWS /\ b.rows \in 1..BITBUF_ROWS
  BY BufferAssumption DEF Good, Fits, Buffers, Last, LastWidth, Rows

\* An empty buffer.
LEMMA ClearGood == Good(Clear)
  BY BufferAssumption DEF Good, Fits, Clear, Buffers, Rows, Cells, Last, LastWidth, Cell

\* The first row is begun.
LEMMA StartedGood ==
  ASSUME NEW b, Good(b)
  PROVE  Good(Started(b)) /\ Started(b).rows > 0
<1>1. CASE b.rows = 0
  <2> DEFINE s == [b EXCEPT !.rows = 1, !.free = 1]
  <2>1. s \in Buffers
    <3>1. 1 \in 0..BITBUF_ROWS
      BY BufferAssumption
    <3> QED BY <3>1 DEF Good, Buffers
  <2>2. s.rows = 1 /\ s.free = 1 /\ s.width = b.width
    BY DEF Good, Buffers
  <2>3. \A r \in Rows : s.width[r] = 0
    BY <1>1, <2>2 DEF Good, Fits, Buffers, Rows
  <2> HIDE DEF s
  <2>4. Fits(s)
    BY <2>2, <2>3, BufferAssumption DEF Fits, Last, LastWidth, Cell, Rows
  <2>5. Started(b) = s
    BY <1>1 DEF Started, s
  <2> QED BY <2>1, <2>2, <2>4, <2>5 DEF Good
<1>2. CASE b.rows # 0
  BY <1>2 DEF Started, Good, Buffers
<1> QED BY <1>1, <1>2

\* Where the next bit goes, and that there is room for it.
LEMMA NextCell ==
  ASSUME NEW b, Good(b), b.rows > 0, ~NoRoomFor(b)
  PROVE  LET w == LastWidth(b)
             free == IF Spills(b) THEN b.free + 1 ELSE b.free
         IN  /\ Cell(Last(b), w) \in Cells
             /\ free \in 1..BITBUF_ROWS
             /\ Cell(Last(b), w + 1) <= Cell(free, 0)
<1> DEFINE w == LastWidth(b)
           l == Last(b)
           free == IF Spills(b) THEN b.free + 1 ELSE b.free
<1>1. /\ l \in Nat /\ w \in Nat /\ b.free \in 1..BITBUF_ROWS
      /\ l < b.free
  BY LastInRows DEF Good, Fits
<1>2. l * RowBits + w <= b.free * RowBits
  <2>1. Cell(l, w) <= Cell(b.free, 0)
    BY DEF Good, Fits
  <2>2. b.free * RowBits \in Nat
    BY <1>1, BufferAssumption
  <2> HIDE DEF l, w
  <2> QED BY <2>1, <2>2 DEF Cell
<1>3. free \in 1..BITBUF_ROWS
  BY <1>1, BufferAssumption DEF NoRoomFor
<1>4. l * RowBits + w + 1 <= free * RowBits
  <2>1. CASE w = 0
    <3>1. l * RowBits + RowBits <= b.free * RowBits
      BY <1>1, RowAfter
    <3> QED BY <2>1, <3>1, <1>1, BufferAssumption DEF Spills
  <2>2. CASE w > 0 /\ w % RowBits = 0
    <3>1. free = b.free + 1
      BY <2>2 DEF Spills
    <3>2. b.free * RowBits + RowBits <= free * RowBits
      BY <3>1, <1>1, RowAfter
    <3> QED BY <3>2, <1>1, <1>2, BufferAssumption
  <2>3. CASE w % RowBits # 0
    <3>1. free = b.free
      BY <2>3 DEF Spills
    <3>2. ASSUME l * RowBits + w = b.free * RowBits PROVE FALSE
      <4> DEFINE k == b.free - l
      <4>1. k \in Nat /\ b.free = l + k
        BY <1>1
      <4>2. w = k * RowBits
        BY <3>2, <4>1, <1>1, BufferAssumption
      <4>3. (k * RowBits) % RowBits = 0
        BY <4>1, WholeRows
      <4> QED BY <4>2, <4>3, <2>3
    <3>3. l * RowBits \in Nat /\ b.free * RowBits \in Nat
      BY <1>1, BufferAssumption
    <3> QED BY <3>1, <3>2, <3>3, <1>1, <1>2
  <2> QED BY <2>1, <2>2, <2>3, <1>1, BufferAssumption
<1>5. free * RowBits <= BITBUF_ROWS * RowBits
  <2>1. CASE free = BITBUF_ROWS
    BY <2>1, BufferAssumption
  <2>2. CASE free < BITBUF_ROWS
    BY <2>2, <1>3, RowAfter, BufferAssumption
  <2> QED BY <2>1, <2>2, <1>3, BufferAssumption
<1>6. l * RowBits \in Nat /\ free * RowBits \in Nat /\ BITBUF_ROWS * RowBits \in Nat
  BY <1>1, <1>3, BufferAssumption
<1>7. l * RowBits + w \in Cells
  BY <1>1, <1>4, <1>5, <1>6 DEF Cells
<1> QED BY <1>1, <1>3, <1>4, <1>6, <1>7 DEF Cell

\* A change of the last row that ends where the free rows begin.
LEMMA LastRowGood ==
  ASSUME NEW b, Good(b), b.rows > 0,
         NEW w \in Nat, NEW bit \in [Cells -> {0, 1}], NEW free \in 1..BITBUF_ROWS,
         b.rows <= free, Cell(Last(b), w) <= Cell(free, 0)
  PROVE  Good([b EXCEPT !.width = [@ EXCEPT ![Last(b)] = w], !.bit = bit, !.free = free])
<1> DEFINE width == [b.width EXCEPT ![Last(b)] = w]
           c == [b EXCEPT !.width = width, !.bit = bit, !.free = free]
<1>1. /\ Last(b) \in Rows /\ Last(b) \in Nat /\ b.rows = Last(b) + 1
      /\ b.rows \in 1..BITBUF_ROWS
  BY LastInRows
<1>2. width \in [Rows -> Nat]
  BY <1>1 DEF Good, Buffers
<1>3. /\ width[Last(b)] = w
      /\ \A r \in Rows : r # Last(b) => width[r] = b.width[r]
  BY <1>1 DEF Good, Buffers
<1> HIDE DEF width
<1>4. c \in Buffers
  <2>1. free \in 0..BITBUF_ROWS
    BY BufferAssumption
  <2> QED BY <1>2, <2>1 DEF Good, Buffers
<1>5. c.rows = b.rows /\ c.free = free /\ c.width = width
  BY DEF Good, Buffers
<1> HIDE DEF c
<1>6. Last(c) = Last(b) /\ LastWidth(c) = w
  BY <1>5, <1>3 DEF Last, LastWidth
<1>7. \A r \in Rows : r >= c.rows => c.width[r] = 0
  BY <1>1, <1>3, <1>5 DEF Good, Fits, Rows
<1>8. ASSUME NEW r \in Rows, NEW s \in Rows, r < s, s < c.rows,
             c.width[s] > 0 \/ s = Last(c)
      PROVE  Cell(r, c.width[r]) <= Cell(s, 0)
  <2>1. r # Last(b)
    BY <1>1, <1>5, <1>8 DEF Rows
  <2>2. c.width[r] = b.width[r]
    BY <2>1, <1>3, <1>5
  <2>3. b.width[s] > 0 \/ s = Last(b)
    BY <1>3, <1>5, <1>6, <1>8
  <2> QED BY <2>2, <2>3, <1>5, <1>8 DEF Good, Fits
<1>9. Fits(c)
  BY <1>5, <1>6, <1>7, <1>8 DEF Fits
<1> QED BY <1>4, <1>9 DEF Good, c, width

\* A bit goes into the last row, or is refused.
LEMMA AddBitGood ==
  ASSUME NEW b, Good(b), NEW v \in {0, 1}
  PROVE  Good(AddBit(b, v))
<1> DEFINE s == Started(b)
           cell == Cell(Last(s), LastWidth(s))
           bit == [s.bit EXCEPT ![cell] = IF v = 1 THEN 1 ELSE @]
           free == IF Spills(s) THEN s.free + 1 ELSE s.free
<1>1. Good(s) /\ s.rows > 0
  BY StartedGood
<1>2. CASE NoRoomFor(s)
  BY <1>1, <1>2 DEF AddBit
<1>3. CASE ~NoRoomFor(s)
  <2>1. /\ cell \in Cells
        /\ free \in 1..BITBUF_ROWS
        /\ Cell(Last(s), LastWidth(s) + 1) <= Cell(free, 0)
    BY <1>1, <1>3, NextCell
  <2>2. bit \in [Cells -> {0, 1}]
    BY <1>1, <2>1 DEF Good, Buffers
  <2>3. LastWidth(s) + 1 \in Nat /\ s.rows <= free
    BY <1>1, LastInRows DEF Good, Fits
  <2>4. Put(s, v) = [s EXCEPT !.width = [@ EXCEPT ![Last(s)] = LastWidth(s) + 1],
                              !.bit = bit, !.free = free]
    BY DEF Put, LastWidth
  <2>5. AddBit(b, v) = Put(s, v)
    BY <1>3 DEF AddBit
  <2> HIDE DEF s, bit, free, cell
  <2>6. Good([s EXCEPT !.width = [@ EXCEPT ![Last(s)] = LastWidth(s) + 1],
                       !.bit = bit, !.free = free])
    BY <1>1, <2>1, <2>2, <2>3, LastRowGood
  <2> QED BY <2>4, <2>5, <2>6
<1> QED BY <1>2, <1>3

\* A row begins behind whatever the last one has spilled into.
LEMMA NewRowGood ==
  ASSUME NEW b, Good(b), b.rows > 0
  PROVE  Good(NewRow(b)) /\ NewRow(b).rows > 0
<1>1. /\ Last(b) \in Rows /\ Last(b) \in Nat /\ b.rows = Last(b) + 1
      /\ b.free \in 1..BITBUF_ROWS /\ b.rows \in 1..BITBUF_ROWS
      /\ b.rows <= b.free
  BY LastInRows DEF Good, Fits
<1>2. CASE b.free < BITBUF_ROWS
  <2> DEFINE c == [b EXCEPT !.rows = b.free + 1, !.free = b.free + 1]
  <2>1. b.free + 1 \in 1..BITBUF_ROWS
    BY <1>1, <1>2, BufferAssumption
  <2>2. c \in Buffers
    <3>1. b.free + 1 \in 0..BITBUF_ROWS
      BY <2>1
    <3> QED BY <3>1 DEF Good, Buffers
  <2>3. c.rows = b.free + 1 /\ c.free = b.free + 1 /\ c.width = b.width
    BY DEF Good, Buffers
  <2>4. NewRow(b) = c
    BY <1>2 DEF NewRow
  <2> HIDE DEF c
  <2>5. Last(c) = b.free /\ b.free \in Rows /\ LastWidth(c) = 0
    <3>1. Last(c) = b.free
      BY <1>1, <2>3, BufferAssumption DEF Last
    <3>2. b.free \in Rows /\ b.free >= b.rows
      BY <1>1, <1>2, BufferAssumption DEF Rows
    <3>3. b.width[b.free] = 0
      BY <3>2 DEF Good, Fits
    <3> QED BY <3>1, <3>2, <3>3, <2>3 DEF LastWidth
  <2>6. \A r \in Rows : r >= c.rows => c.width[r] = 0
    BY <1>1, <2>1, <2>3 DEF Good, Fits, Rows
  <2>7. ASSUME NEW r \in Rows, NEW q \in Rows, r < q, q < c.rows,
               c.width[q] > 0 \/ q = Last(c)
        PROVE  Cell(r, c.width[r]) <= Cell(q, 0)
    <3>1. r \in Nat /\ q \in Nat /\ b.width[r] \in Nat /\ b.width[q] \in Nat
      <4>1. r \in Nat /\ q \in Nat
        BY BufferAssumption DEF Rows
      <4> QED BY <4>1 DEF Good, Buffers
    <3>2. CASE q # b.free
      <4>1. b.width[q] > 0
        BY <2>3, <2>5, <2>7, <3>2
      <4>2. q < b.rows
        <5>1. ~(q >= b.rows)
          BY <4>1 DEF Good, Fits
        <5> QED BY <5>1, <3>1, <1>1, BufferAssumption
      <4> QED BY <4>1, <4>2, <2>3, <2>7 DEF Good, Fits
    <3>3. CASE q = b.free /\ r >= b.rows
      <4>1. b.width[r] = 0
        BY <3>3 DEF Good, Fits
      <4>2. r * RowBits + RowBits <= q * RowBits
        BY <3>1, <2>7, RowAfter
      <4>3. r * RowBits \in Nat /\ q * RowBits \in Nat
        BY <3>1, BufferAssumption
      <4> QED BY <4>1, <4>2, <4>3, <2>3, BufferAssumption DEF Cell
    <3>4. CASE q = b.free /\ r = Last(b)
      BY <3>4, <2>3 DEF Good, Fits, LastWidth
    <3>5. CASE q = b.free /\ r < Last(b)
      <4>1. Cell(r, b.width[r]) <= Cell(Last(b), 0)
        BY <3>5, <1>1 DEF Good, Fits
      <4>2. Last(b) * RowBits + RowBits <= q * RowBits
        BY <3>5, <3>1, <1>1, RowAfter
      <4>3. r * RowBits \in Nat /\ q * RowBits \in Nat /\ Last(b) * RowBits \in Nat
        BY <3>1, <1>1, BufferAssumption
      <4> QED BY <4>1, <4>2, <4>3, <3>1, <2>3, BufferAssumption DEF Cell
    <3> QED BY <3>1, <3>2, <3>3, <3>4, <3>5, <1>1
  <2>8. Cell(Last(c), LastWidth(c)) <= Cell(c.free, 0)
    <3>1. b.free * RowBits + RowBits <= (b.free + 1) * RowBits
      BY <1>1, RowAfter
    <3>2. b.free * RowBits \in Nat /\ (b.free + 1) * RowBits \in Nat
      BY <1>1, BufferAssumption
    <3> QED BY <3>1, <3>2, <2>3, <2>5, BufferAssumption DEF Cell
  <2>9. Fits(c)
    <3>1. c.rows <= c.free
      BY <2>1, <2>3, BufferAssumption
    <3> QED BY <3>1, <2>6, <2>7, <2>8 DEF Fits
  <2> QED BY <2>1, <2>2, <2>3, <2>4, <2>9 DEF Good
<1>3. CASE ~(b.free < BITBUF_ROWS)
  <2>1. NewRow(b) = [b EXCEPT !.width = [@ EXCEPT ![Last(b)] = 0],
                              !.bit = b.bit, !.free = b.free]
    BY <1>3 DEF NewRow, Good, Buffers
  <2>2. Cell(Last(b), 0) <= Cell(b.free, 0)
    <3>1. Last(b) * RowBits + RowBits <= b.free * RowBits
      BY <1>1, RowAfter
    <3>2. b.free * RowBits \in Nat /\ Last(b) * RowBits \in Nat
      BY <1>1, BufferAssumption
    <3> QED BY <3>1, <3>2, BufferAssumption DEF Cell
  <2>3. b.bit \in [Cells -> {0, 1}]
    BY DEF Good, Buffers
  <2>4. Good(NewRow(b))
    <3> DEFINE bit == b.bit
               free == b.free
    <3>1. /\ bit \in [Cells -> {0, 1}] /\ free \in 1..BITBUF_ROWS
          /\ b.rows <= free /\ Cell(Last(b), 0) <= Cell(free, 0)
      BY <1>1, <2>2, <2>3
    <3>2. NewRow(b) = [b EXCEPT !.width = [@ EXCEPT ![Last(b)] = 0],
                                !.bit = bit, !.free = free]
      BY <2>1
    <3> HIDE DEF bit, free
    <3>3. Good([b EXCEPT !.width = [@ EXCEPT ![Last(b)] = 0],
                         !.bit = bit, !.free = free])
      BY <3>1, LastRowGood
    <3> QED BY <3>2, <3>3
  <2>5. NewRow(b).rows = b.rows
    BY <1>3 DEF NewRow, Good, Buffers
  <2> QED BY <2>4, <2>5, <1>1
<1> QED BY <1>2, <1>3

\* A row, also as the second of two that are begun.
LEMMA AddRowGood ==
  ASSUME NEW b, Good(b)
  PROVE  Good(AddRow(b))
  BY StartedGood, NewRowGood DEF AddRow

\* A sync adds a row or begins one.
LEMMA AddSyncGood ==
  ASSUME NEW b, Good(b)
  PROVE  Good(AddSync(b))
  BY StartedGood, AddRowGood DEF AddSync

\* The rows a width needs are there, and are taken.
LEMMA WidthRoom ==
  ASSUME NEW b, Good(b), b.rows > 0, NEW v \in Nat
  PROVE  LET w == Capped(b, v)
             free == b.rows + (IF w = 0 THEN 0 ELSE (w - 1) \div RowBits)
         IN  /\ w \in Nat
             /\ free \in 1..BITBUF_ROWS
             /\ b.rows <= free
             /\ Cell(Last(b), w) <= Cell(free, 0)
<1> DEFINE l == Last(b)
           room == (BITBUF_ROWS - b.rows + 1) * RowBits
           w == Capped(b, v)
           q == IF w = 0 THEN 0 ELSE (w - 1) \div RowBits
<1>1. l \in Nat /\ b.rows = l + 1 /\ b.rows \in 1..BITBUF_ROWS
  BY LastInRows
<1>2. w \in Nat /\ room \in Nat /\ w <= room
  BY <1>1, BufferAssumption DEF Capped
<1>3. CASE w = 0
  <2>1. l * RowBits + RowBits <= b.rows * RowBits
    BY <1>1, RowAfter
  <2>2. l * RowBits \in Nat /\ b.rows * RowBits \in Nat
    BY <1>1, BufferAssumption
  <2> QED BY <1>1, <1>3, <2>1, <2>2, BufferAssumption DEF Cell
<1>4. CASE w > 0
  <2>1. /\ q \in Nat /\ q * RowBits <= w - 1
        /\ w - 1 < q * RowBits + RowBits
    BY <1>2, <1>4, DivRow
  <2>2. q < BITBUF_ROWS - b.rows + 1
    <3>1. ASSUME BITBUF_ROWS - b.rows + 1 <= q PROVE FALSE
      <4> DEFINE m == BITBUF_ROWS - b.rows + 1
      <4>1. m \in Nat /\ m <= q
        BY <1>1, <3>1, BufferAssumption
      <4>2. m * RowBits <= q * RowBits
        <5>1. CASE m = q
          BY <5>1, <1>1, <2>1, BufferAssumption
        <5>2. CASE m < q
          <6>1. m * RowBits + RowBits <= q * RowBits
            BY <4>1, <5>2, <2>1, RowAfter
          <6> QED BY <6>1, <4>1, <2>1, BufferAssumption
        <5> QED BY <4>1, <5>1, <5>2, <2>1
      <4>3. m * RowBits = room
        OBVIOUS
      <4> HIDE DEF m, room, q
      <4>4. q * RowBits \in Nat
        BY <2>1, BufferAssumption
      <4> QED BY <4>2, <4>3, <4>4, <2>1, <1>2, <1>4
    <3> HIDE DEF q
    <3> QED BY <3>1, <2>1, <1>1, BufferAssumption
  <2>3. l * RowBits + w <= (b.rows + q) * RowBits
    <3> HIDE DEF q, l, w
    <3>1. (b.rows + q) * RowBits = l * RowBits + q * RowBits + RowBits
      BY <1>1, <2>1, BufferAssumption
    <3>2. l * RowBits \in Nat /\ q * RowBits \in Nat
      BY <1>1, <2>1, BufferAssumption
    <3> QED BY <3>1, <3>2, <2>1, <1>2, BufferAssumption
  <2>4. Cell(l, w) <= Cell(b.rows + q, 0)
    <3> HIDE DEF q, l, w
    <3>1. (b.rows + q) * RowBits \in Nat
      BY <1>1, <2>1, BufferAssumption
    <3> QED BY <2>3, <3>1 DEF Cell
  <2>5. b.rows + q \in 1..BITBUF_ROWS /\ b.rows <= b.rows + q
    <3> HIDE DEF q
    <3> QED BY <1>1, <2>1, <2>2, BufferAssumption
  <2> QED BY <1>2, <2>4, <2>5
<1> QED BY <1>2, <1>3, <1>4

\* A width cuts the last row or lets it spill.
LEMMA SetWidthGood ==
  ASSUME NEW b, Good(b), NEW v \in Nat
  PROVE  Good(SetWidth(b, v))
<1> DEFINE s == Started(b)
           w == Capped(s, v)
           bit == IF LastWidth(s) > w THEN Truncated(s, w) ELSE s.bit
           free == s.rows + (IF w = 0 THEN 0 ELSE (w - 1) \div RowBits)
<1>1. Good(s) /\ s.rows > 0
  BY StartedGood
<1>2. /\ w \in Nat /\ free \in 1..BITBUF_ROWS /\ s.rows <= free
      /\ Cell(Last(s), w) <= Cell(free, 0)
  BY <1>1, WidthRoom
<1>3. bit \in [Cells -> {0, 1}]
  BY <1>1 DEF Good, Buffers, Truncated
<1>4. SetWidth(b, v) = [s EXCEPT !.width = [@ EXCEPT ![Last(s)] = w],
                                 !.bit = bit, !.free = free]
  BY DEF SetWidth, Resized
<1> HIDE DEF s, w, bit, free
<1>5. Good([s EXCEPT !.width = [@ EXCEPT ![Last(s)] = w],
                     !.bit = bit, !.free = free])
  BY <1>1, <1>2, <1>3, LastRowGood
<1> QED BY <1>4, <1>5

\* A decoder's recoding changes bits only.
LEMMA RecodeGood ==
  ASSUME NEW b, Good(b), NEW code \in Codes
  PROVE  Good(Recode(b, code))
<1> DEFINE bit == [c \in Cells |->
        IF \E r \in 0..Last(b) : Within(b, r, c)
        THEN Recoded(b, code, CHOOSE r \in 0..Last(b) : Within(b, r, c), c)
        ELSE IF code # "invert" /\ \E r \in 0..Last(b) : Unused(b, r, c)
             THEN 0 ELSE b.bit[c]]
<1>1. ASSUME NEW c \in Cells, NEW r \in 0..Last(b), Within(b, r, c)
      PROVE  Recoded(b, code, r, c) \in {0, 1}
  <2>1. b.bit[c] \in {0, 1}
    BY DEF Good, Buffers
  <2>2. c \in Nat /\ r \in Nat /\ Cell(r, 0) \in Nat /\ c >= Cell(r, 0)
    BY <1>1, BufferAssumption DEF Cells, Cell, Within
  <2>3. c # Cell(r, 0) => c - 1 \in Cells
    BY <2>2, BufferAssumption DEF Cells
  <2>4. Pair(b, r, c) \in Nat
    BY <2>1, <2>3 DEF Pair, Good, Buffers
  <2>5. Pair(b, r, c) % 2 \in {0, 1} /\ (Pair(b, r, c) + 1) % 2 \in {0, 1}
    BY <2>4
  <2> QED BY <2>1, <2>5 DEF Recoded, Codes
<1>2. bit \in [Cells -> {0, 1}]
  <2>1. ASSUME NEW c \in Cells PROVE bit[c] \in {0, 1}
    <3>1. CASE \E r \in 0..Last(b) : Within(b, r, c)
      BY <3>1, <1>1
    <3>2. CASE ~\E r \in 0..Last(b) : Within(b, r, c)
      BY <3>2 DEF Good, Buffers
    <3> QED BY <3>1, <3>2
  <2> QED BY <2>1
<1>3. Recode(b, code) = [b EXCEPT !.bit = bit]
  BY DEF Recode
<1> HIDE DEF bit
<1> DEFINE c == [b EXCEPT !.bit = bit]
<1>4. c \in Buffers
  BY <1>2 DEF Good, Buffers
<1>5. c.rows = b.rows /\ c.free = b.free /\ c.width = b.width
  BY DEF Good, Buffers
<1> HIDE DEF c
<1>6. Last(c) = Last(b) /\ LastWidth(c) = LastWidth(b)
  BY <1>5 DEF Last, LastWidth
<1>7. Fits(c)
  BY <1>5, <1>6 DEF Good, Fits
<1> QED BY <1>3, <1>4, <1>7 DEF Good, c

-----------------------------------------------------------------------------
(* The theorems.                                                            *)

BufferInv == Good(bits) /\ refused \in BOOLEAN

\* Whatever calls are made, in whatever order: the buffer keeps its type and
\* its rows do not overlap (all of bitbuffer.c that changes a buffer).
THEOREM BufferSafe == BufferSpec => []BufferInv
<1>1. BufferInit => BufferInv
  BY ClearGood DEF BufferInit, BufferInv
<1>2. BufferInv /\ [BufferNext]_<<bits, refused>> => BufferInv'
  <2> SUFFICES ASSUME BufferInv, [BufferNext]_<<bits, refused>>
               PROVE  BufferInv'
    OBVIOUS
  <2>1. CASE CallClear
    BY <2>1, ClearGood DEF CallClear, BufferInv
  <2>2. ASSUME NEW v \in {0, 1}, CallAddBit(v) PROVE BufferInv'
    BY <2>2, AddBitGood DEF CallAddBit, BufferInv
  <2>3. CASE CallAddRow
    <3>1. Good(bits')
      BY <2>3, AddRowGood DEF CallAddRow, BufferInv
    <3>2. refused' \in BOOLEAN
      BY <2>3 DEF CallAddRow, BufferInv, RowRefused
    <3> QED BY <3>1, <3>2 DEF BufferInv
  <2>4. CASE CallAddSync
    <3>1. Good(bits')
      BY <2>4, AddSyncGood DEF CallAddSync, BufferInv
    <3>2. refused' \in BOOLEAN
      BY <2>4 DEF CallAddSync, BufferInv, SyncRefused
    <3> QED BY <3>1, <3>2 DEF BufferInv
  <2>5. ASSUME NEW w \in 0..UINT16_MAX, CallSetWidth(w) PROVE BufferInv'
    BY <2>5, SetWidthGood DEF CallSetWidth, BufferInv
  <2>6. ASSUME NEW code \in Codes, CallRecode(code) PROVE BufferInv'
    BY <2>6, RecodeGood DEF CallRecode, BufferInv
  <2>7. CASE UNCHANGED <<bits, refused>>
    BY <2>7 DEF BufferInv
  <2> QED BY <2>1, <2>2, <2>3, <2>4, <2>5, <2>6, <2>7 DEF BufferNext
<1> QED BY <1>1, <1>2, PTL DEF BufferSpec

\* The bit that bitbuffer_add_bit() stores lies inside the array.
THEOREM BitInside ==
  BufferSpec => [](bits.rows > 0 /\ ~NoRoomFor(bits)
                     => Cell(Last(bits), LastWidth(bits)) \in Cells)
<1>1. BufferInv => (bits.rows > 0 /\ ~NoRoomFor(bits)
                      => Cell(Last(bits), LastWidth(bits)) \in Cells)
  BY NextCell DEF BufferInv
<1> QED BY <1>1, BufferSafe, PTL

-----------------------------------------------------------------------------
(* What lies behind the rows.                                               *)

\* Every cell outside the rows is zero.
ZeroOutside(b) == \A c \in Cells :
    (\A r \in 0..Last(b) : ~Within(b, r, c)) => b.bit[c] = 0

\* The cells and rows as numbers.
LEMMA CellFacts ==
  ASSUME NEW b, Good(b)
  PROVE  /\ \A c \in Cells : c \in Nat /\ b.bit[c] \in {0, 1}
         /\ b.rows \in Nat /\ Last(b) \in Int /\ Last(b) = b.rows - 1
         /\ \A r \in 0..Last(b) : r \in Rows /\ r \in Nat /\ b.width[r] \in Nat
                                  /\ Cell(r, 0) \in Nat
                                  /\ Cell(r, b.width[r]) = Cell(r, 0) + b.width[r]
<1>1. \A c \in Cells : c \in Nat /\ b.bit[c] \in {0, 1}
  BY BufferAssumption DEF Good, Buffers, Cells
<1>2. b.rows \in 0..BITBUF_ROWS /\ b.rows \in Nat /\ Last(b) = b.rows - 1
  BY BufferAssumption DEF Good, Buffers, Last
<1>3. ASSUME NEW r \in 0..Last(b)
      PROVE  /\ r \in Rows /\ r \in Nat /\ b.width[r] \in Nat /\ Cell(r, 0) \in Nat
             /\ Cell(r, b.width[r]) = Cell(r, 0) + b.width[r]
  <2>1. r \in Rows /\ r \in Nat
    BY <1>2, BufferAssumption DEF Rows
  <2>2. b.width[r] \in Nat
    BY <2>1 DEF Good, Buffers
  <2>3. r * RowBits \in Nat
    BY <2>1, BufferAssumption
  <2> QED BY <2>1, <2>2, <2>3 DEF Cell
<1> QED BY <1>1, <1>2, <1>3

\* A step that lets no row shrink and sets no cell outside them.
LEMMA GrowsZero ==
  ASSUME NEW b, NEW b2, ZeroOutside(b), Last(b) \in Int, Last(b2) \in Int,
         Last(b) <= Last(b2),
         \A r \in 0..Last(b), c \in Cells : Within(b, r, c) => Within(b2, r, c),
         \A c \in Cells : \/ b2.bit[c] = 0 \/ b2.bit[c] = b.bit[c]
                          \/ \E r \in 0..Last(b2) : Within(b2, r, c)
  PROVE  ZeroOutside(b2)
<1>1. \A r \in 0..Last(b) : r \in 0..Last(b2)
  OBVIOUS
<1> QED BY <1>1 DEF ZeroOutside

\* An empty buffer is zero everywhere.
LEMMA ClearZero == ZeroOutside(Clear)
  BY DEF ZeroOutside, Clear

\* Beginning a row sets no bit.
LEMMA StartedZero ==
  ASSUME NEW b, Good(b), ZeroOutside(b)
  PROVE  ZeroOutside(Started(b))
<1>1. CASE b.rows = 0
  <2> DEFINE s == [b EXCEPT !.rows = 1, !.free = 1]
  <2>1. s.rows = 1 /\ s.bit = b.bit /\ Started(b) = s
    BY <1>1 DEF Good, Buffers, Started
  <2>2. \A c \in Cells : b.bit[c] = 0
    BY <1>1 DEF ZeroOutside, Last
  <2> HIDE DEF s
  <2> QED BY <2>1, <2>2 DEF ZeroOutside
<1>2. CASE b.rows # 0
  BY <1>2 DEF Started
<1> QED BY <1>1, <1>2

\* A bit is set inside the row it makes longer.
LEMMA AddBitZero ==
  ASSUME NEW b, Good(b), ZeroOutside(b), NEW v \in {0, 1}
  PROVE  ZeroOutside(AddBit(b, v))
<1> DEFINE s == Started(b)
           w == LastWidth(s)
           cell == Cell(Last(s), w)
           width == [s.width EXCEPT ![Last(s)] = w + 1]
           bit == [s.bit EXCEPT ![cell] = IF v = 1 THEN 1 ELSE @]
           q == Put(s, v)
<1>1. Good(s) /\ s.rows > 0 /\ ZeroOutside(s)
  BY StartedGood, StartedZero
<1>2. CASE NoRoomFor(s)
  BY <1>1, <1>2 DEF AddBit
<1>3. CASE ~NoRoomFor(s)
  <2>1. AddBit(b, v) = q
    BY <1>3 DEF AddBit
  <2>2. cell \in Cells
    BY <1>1, <1>3, NextCell
  <2> HIDE DEF s
  <2>3. Last(s) \in Rows /\ Last(s) \in Nat /\ w \in Nat /\ w = s.width[Last(s)]
    BY <1>1, LastInRows DEF LastWidth
  <2>4. q.rows = s.rows /\ q.width = width /\ q.bit = bit
    BY <1>1 DEF Put, Good, Buffers, LastWidth
  <2>5. /\ width[Last(s)] = w + 1
        /\ \A r \in Rows : r # Last(s) => width[r] = s.width[r]
        /\ \A c \in Cells : c # cell => bit[c] = s.bit[c]
    BY <1>1, <2>2, <2>3 DEF Good, Buffers
  <2> HIDE DEF w, width, bit, q
  <2>6. Last(q) = Last(s)
    BY <2>4 DEF Last
  <2>7. \A r \in 0..Last(s) : r \in Rows /\ r \in Nat /\ s.width[r] \in Nat
                              /\ Cell(r, 0) \in Nat
                              /\ Cell(r, s.width[r]) = Cell(r, 0) + s.width[r]
    BY <1>1, CellFacts
  <2>8. Last(s) \in 0..Last(s) /\ \A c \in Cells : c \in Nat
    BY <2>3, <1>1, CellFacts
  <2>9. ASSUME NEW r \in 0..Last(s), NEW c \in Cells, Within(s, r, c)
        PROVE  Within(q, r, c)
    <3>1. CASE r # Last(s)
      BY <2>4, <2>5, <2>7, <2>9, <3>1 DEF Within
    <3>2. CASE r = Last(s)
      <4>1. Cell(r, w + 1) = Cell(r, 0) + w + 1
        BY <2>3, <2>7, BufferAssumption DEF Cell
      <4> QED BY <2>3, <2>4, <2>5, <2>7, <2>8, <2>9, <3>2, <4>1 DEF Within
    <3> QED BY <3>1, <3>2
  <2>10. Within(q, Last(s), cell)
    <3> DEFINE l == Last(s)
    <3>1. Cell(l, w + 1) = Cell(l, 0) + w + 1 /\ Cell(l, w) = Cell(l, 0) + w
          /\ Cell(l, 0) \in Nat
      BY <2>3, <2>7, <2>8, BufferAssumption DEF Cell
    <3>2. q.width[l] = w + 1
      BY <2>4, <2>5
    <3> QED BY <2>3, <3>1, <3>2 DEF Within
  <2>11. \A c \in Cells : \/ q.bit[c] = s.bit[c]
                          \/ \E r \in 0..Last(q) : Within(q, r, c)
    BY <2>4, <2>5, <2>6, <2>8, <2>10
  <2>12. ZeroOutside(q)
    BY <1>1, <2>3, <2>6, <2>9, <2>11, GrowsZero
  <2> QED BY <2>1, <2>12
<1> QED BY <1>2, <1>3

\* A row that was not refused uncovers nothing.
LEMMA AddRowZero ==
  ASSUME NEW b, Good(b), ZeroOutside(b), ~RowRefused(b)
  PROVE  ZeroOutside(AddRow(b))
<1> DEFINE s == Started(b)
           q == [s EXCEPT !.rows = s.free + 1, !.free = s.free + 1]
<1>1. Good(s) /\ s.rows > 0 /\ ZeroOutside(s)
  BY StartedGood, StartedZero
<1>2. s.free < BITBUF_ROWS /\ s.rows <= s.free /\ s.free \in Nat /\ s.rows \in Nat
  BY <1>1, BufferAssumption DEF RowRefused, Good, Fits, Buffers
<1>3. AddRow(b) = q
  BY <1>2 DEF AddRow, NewRow
<1> HIDE DEF s
<1>4. q.rows = s.free + 1 /\ q.width = s.width /\ q.bit = s.bit
  BY <1>1 DEF Good, Buffers
<1> HIDE DEF q
<1>5. Last(s) <= Last(q) /\ Last(s) \in Int /\ Last(q) \in Int
  BY <1>2, <1>4 DEF Last
<1>6. \A r, c : Within(s, r, c) => Within(q, r, c)
  BY <1>4 DEF Within
<1>7. ZeroOutside(q)
  BY <1>1, <1>4, <1>5, <1>6, GrowsZero
<1> QED BY <1>3, <1>7

\* Nor does a sync that was not refused.
LEMMA AddSyncZero ==
  ASSUME NEW b, Good(b), ZeroOutside(b), ~SyncRefused(b)
  PROVE  ZeroOutside(AddSync(b))
  BY StartedZero, AddRowZero DEF AddSync, SyncRefused

\* The last byte in use ends behind the last bit.
LEMMA BytesCover ==
  ASSUME NEW w \in Nat
  PROVE  WholeBytes(w) \in Nat /\ WholeBytes(w) >= w
<1> DEFINE m == w + ByteBits - 1
           k == m \div ByteBits
<1>1. m \in Nat /\ ByteBits \in Nat \ {0}
  BY BufferAssumption
<1>2. k \in Nat /\ m < k * ByteBits + ByteBits /\ k * ByteBits \in Nat
  <2> HIDE DEF m
  <2> QED BY <1>1
<1>3. w <= k * ByteBits
  <2> HIDE DEF k
  <2> QED BY <1>1, <1>2
<1> QED BY <1>2, <1>3 DEF WholeBytes

\* What a width cuts off is zeroed, what it uncovers was zero.
LEMMA SetWidthZero ==
  ASSUME NEW b, Good(b), ZeroOutside(b), NEW v \in Nat
  PROVE  ZeroOutside(SetWidth(b, v))
<1> DEFINE s == Started(b)
           w == Capped(s, v)
           o == LastWidth(s)
           width == [s.width EXCEPT ![Last(s)] = w]
           q == Resized(s, w)
<1>1. Good(s) /\ s.rows > 0 /\ ZeroOutside(s)
  BY StartedGood, StartedZero
<1>2. w \in Nat
  BY <1>1, WidthRoom
<1>3. SetWidth(b, v) = q
  BY DEF SetWidth
<1> HIDE DEF s, w
<1>4. Last(s) \in Rows /\ Last(s) \in Nat /\ o \in Nat /\ o = s.width[Last(s)]
  BY <1>1, LastInRows DEF LastWidth
<1>5. /\ q.rows = s.rows /\ q.width = width
      /\ q.bit = IF o > w THEN Truncated(s, w) ELSE s.bit
  BY <1>1 DEF Resized, Good, Buffers
<1>6. /\ width[Last(s)] = w
      /\ \A r \in Rows : r # Last(s) => width[r] = s.width[r]
  BY <1>1, <1>4 DEF Good, Buffers
<1> HIDE DEF o, width, q
<1>7. Last(q) = Last(s) /\ Last(s) \in 0..Last(s)
  BY <1>4, <1>5 DEF Last
<1>8. \A r \in 0..Last(s) : r \in Rows /\ r \in Nat /\ s.width[r] \in Nat
                            /\ Cell(r, 0) \in Nat
                            /\ Cell(r, s.width[r]) = Cell(r, 0) + s.width[r]
  BY <1>1, CellFacts
<1>9. \A c \in Cells : c \in Nat
  BY <1>1, CellFacts
<1>10. Cell(Last(s), w) = Cell(Last(s), 0) + w
  <2>1. Last(s) * RowBits \in Nat
    BY <1>4, BufferAssumption
  <2> QED BY <1>2, <2>1 DEF Cell
<1>11. CASE o > w
  <2>1. WholeBytes(o) \in Nat /\ WholeBytes(o) >= o
    BY <1>4, BytesCover
  <2>2. Cell(Last(s), WholeBytes(o)) = Cell(Last(s), 0) + WholeBytes(o)
    <3> DEFINE y == WholeBytes(o)
    <3>1. Last(s) * RowBits \in Nat /\ y \in Nat
      BY <1>4, <2>1, BufferAssumption
    <3> HIDE DEF y
    <3>2. Cell(Last(s), y) = Cell(Last(s), 0) + y
      BY <3>1 DEF Cell
    <3> QED BY <3>2 DEF y
  <2>3. ASSUME NEW c \in Cells, \A r \in 0..Last(s) : ~Within(q, r, c)
        PROVE  q.bit[c] = 0
    <3>1. q.bit[c] = IF /\ c >= Cell(Last(s), w)
                        /\ c < Cell(Last(s), WholeBytes(LastWidth(s)))
                     THEN 0 ELSE s.bit[c]
      BY <1>5, <1>11 DEF Truncated
    <3>2. LastWidth(s) = o
      BY DEF o
    <3>3. CASE c >= Cell(Last(s), w) /\ c < Cell(Last(s), WholeBytes(o))
      BY <3>1, <3>2, <3>3
    <3>4. CASE ~(c >= Cell(Last(s), w) /\ c < Cell(Last(s), WholeBytes(o)))
      <4>1. q.bit[c] = s.bit[c]
        BY <3>1, <3>2, <3>4
      <4>2. ASSUME NEW r \in 0..Last(s) PROVE ~Within(s, r, c)
        <5>1. CASE r # Last(s)
          BY <1>5, <1>6, <1>8, <2>3, <5>1 DEF Within
        <5>2. CASE r = Last(s)
          <6>1. ~(c >= Cell(r, 0) /\ c < Cell(r, w))
            BY <1>5, <1>6, <2>3, <5>2 DEF Within
          <6>2. Cell(r, 0) \in Nat /\ Cell(r, s.width[r]) = Cell(r, 0) + o
                /\ c \in Nat
            BY <1>4, <1>8, <1>9, <5>2
          <6> QED BY <6>1, <6>2, <1>2, <1>4, <1>10, <2>1, <2>2, <3>4, <5>2 DEF Within
        <5> QED BY <5>1, <5>2
      <4> QED BY <1>1, <4>1, <4>2 DEF ZeroOutside
    <3> QED BY <3>3, <3>4
  <2>4. ZeroOutside(q)
    BY <1>7, <2>3 DEF ZeroOutside
  <2> QED BY <1>3, <2>4
<1>12. CASE ~(o > w)
  <2>1. ASSUME NEW r \in 0..Last(s), NEW c \in Cells, Within(s, r, c)
        PROVE  Within(q, r, c)
    <3>1. CASE r # Last(s)
      BY <1>5, <1>6, <1>8, <2>1, <3>1 DEF Within
    <3>2. CASE r = Last(s)
      BY <1>2, <1>4, <1>5, <1>6, <1>8, <1>9, <1>10, <1>12, <2>1, <3>2 DEF Within
    <3> QED BY <3>1, <3>2
  <2>2. ZeroOutside(q)
    BY <1>1, <1>4, <1>5, <1>7, <1>12, <2>1, GrowsZero
  <2> QED BY <1>3, <2>2
<1> QED BY <1>11, <1>12

\* Recoding sets bits inside the rows only.
LEMMA RecodeZero ==
  ASSUME NEW b, Good(b), ZeroOutside(b), NEW code \in Codes
  PROVE  ZeroOutside(Recode(b, code))
<1> DEFINE q == Recode(b, code)
<1>1. q.rows = b.rows /\ q.width = b.width
  BY DEF Recode, Good, Buffers
<1>2. \A c \in Cells : (\A r \in 0..Last(b) : ~Within(b, r, c))
                          => q.bit[c] = 0 \/ q.bit[c] = b.bit[c]
  BY DEF Recode, Good, Buffers
<1> HIDE DEF q
<1>3. Last(q) = Last(b) /\ \A r, c : Within(q, r, c) <=> Within(b, r, c)
  BY <1>1 DEF Last, Within
<1> QED BY <1>2, <1>3 DEF ZeroOutside, q

CleanInv == BufferInv /\ CleanTail

\* A call on a buffer that is clean leaves it clean, or refuses a row.
LEMMA CleanStep ==
  ASSUME CleanInv, [BufferNext]_<<bits, refused>>
  PROVE  CleanTail'
<1>0. Good(bits) /\ (~refused => ZeroOutside(bits))
  BY DEF CleanInv, BufferInv, CleanTail, TailZero, ZeroOutside
<1> SUFFICES ~refused' => ZeroOutside(bits')
  BY DEF CleanTail, TailZero, ZeroOutside
<1>1. CASE CallClear
  BY <1>1, ClearZero DEF CallClear
<1>2. ASSUME NEW v \in {0, 1}, CallAddBit(v) PROVE ~refused' => ZeroOutside(bits')
  BY <1>0, <1>2, AddBitZero DEF CallAddBit
<1>3. CASE CallAddRow
  BY <1>0, <1>3, AddRowZero DEF CallAddRow
<1>4. CASE CallAddSync
  BY <1>0, <1>4, AddSyncZero DEF CallAddSync
<1>5. ASSUME NEW w \in 0..UINT16_MAX, CallSetWidth(w) PROVE ~refused' => ZeroOutside(bits')
  BY <1>0, <1>5, SetWidthZero DEF CallSetWidth
<1>6. ASSUME NEW code \in Codes, CallRecode(code) PROVE ~refused' => ZeroOutside(bits')
  BY <1>0, <1>6, RecodeZero DEF CallRecode
<1>7. CASE UNCHANGED <<bits, refused>>
  BY <1>0, <1>7
<1> QED BY <1>1, <1>2, <1>3, <1>4, <1>5, <1>6, <1>7 DEF BufferNext

\* As long as every row asked for was given, the cells behind the rows are
\* zero, whatever calls are made: a bit that is or'ed in, and one that a wider
\* width uncovers, is what it was meant to be.
THEOREM TailsClean == BufferSpec => []CleanTail
<1>1. BufferInit => CleanTail
  BY ClearZero DEF BufferInit, CleanTail, TailZero, ZeroOutside
<1>2. BufferInv /\ CleanTail /\ [BufferNext]_<<bits, refused>> => CleanTail'
  BY CleanStep DEF CleanInv
<1> QED BY <1>1, <1>2, BufferSafe, PTL DEF BufferSpec

-----------------------------------------------------------------------------
(* What is appended, and what is kept.                                      *)

\* The rows before the last one read the same in both buffers.
Kept(b, q) == \A r \in 0..Last(b) - 1 : Content(q, r) = Content(b, r)

\* A step that changes no width before the last row and no cell before it.
LEMMA KeptBefore ==
  ASSUME NEW b, Good(b), NEW q,
         \A r \in 0..Last(b) - 1 : q.width[r] = b.width[r],
         \A c \in Cells : c < Cell(Last(b), 0) => q.bit[c] = b.bit[c]
  PROVE  Kept(b, q)
<1> SUFFICES ASSUME NEW r \in 0..Last(b) - 1 PROVE Content(q, r) = Content(b, r)
  BY DEF Kept
<1>1. /\ Last(b) \in Int /\ r \in 0..Last(b) /\ r \in Rows /\ r \in Nat
      /\ b.width[r] \in Nat /\ r < Last(b) /\ Cell(r, 0) \in Nat
      /\ Cell(r, b.width[r]) = Cell(r, 0) + b.width[r]
  BY CellFacts
<1>2. Last(b) \in Rows /\ Last(b) < b.rows
  BY <1>1, LastInRows, CellFacts
<1>3. Cell(r, b.width[r]) <= Cell(Last(b), 0)
  BY <1>1, <1>2 DEF Good, Fits
<1>4. Last(b) < BITBUF_ROWS /\ Last(b) \in Nat
  BY <1>2, BufferAssumption DEF Rows
<1>5. Cell(Last(b), 0) <= BITBUF_ROWS * RowBits /\ Cell(Last(b), 0) \in Nat
  <2> DEFINE l == Last(b)
  <2>1. l * RowBits + RowBits <= BITBUF_ROWS * RowBits
    BY <1>4, RowAfter, BufferAssumption
  <2>2. l * RowBits \in Nat /\ BITBUF_ROWS * RowBits \in Nat
    BY <1>4, BufferAssumption
  <2> HIDE DEF l
  <2>3. Cell(l, 0) <= BITBUF_ROWS * RowBits /\ Cell(l, 0) \in Nat
    BY <2>1, <2>2, BufferAssumption DEF Cell
  <2> QED BY <2>3 DEF l
<1>6. ASSUME NEW i \in 1..b.width[r]
      PROVE  q.bit[Cell(r, i - 1)] = b.bit[Cell(r, i - 1)]
  <2> DEFINE c == Cell(r, i - 1)
  <2>1. c = Cell(r, 0) + (i - 1)
    BY <1>1, BufferAssumption DEF Cell
  <2>2. c \in Nat /\ c < Cell(Last(b), 0) /\ BITBUF_ROWS * RowBits \in Nat
    BY <1>1, <1>3, <1>5, <2>1, BufferAssumption
  <2>3. c \in Cells
    BY <1>5, <2>2 DEF Cells
  <2> QED BY <2>2, <2>3
<1> QED BY <1>6 DEF Content

\* With two rows there is nothing to begin.
LEMMA StartedKept ==
  ASSUME NEW b, Good(b)
  PROVE  Last(b) > 0 => Started(b) = b /\ b.rows > 0
  BY BufferAssumption DEF Started, Last, Good, Buffers

\* A bit changes the last row.
LEMMA AddBitKept ==
  ASSUME NEW b, Good(b), NEW v \in {0, 1}
  PROVE  Kept(b, AddBit(b, v))
<1>1. CASE Last(b) > 0 /\ ~NoRoomFor(b)
  <2> DEFINE cell == Cell(Last(b), LastWidth(b))
             q == Put(b, v)
  <2>1. AddBit(b, v) = q /\ b.rows > 0
    BY <1>1, StartedKept DEF AddBit
  <2>2. cell \in Cells /\ Last(b) \in Rows /\ Last(b) \in Nat /\ LastWidth(b) \in Nat
    BY <1>1, <2>1, NextCell, LastInRows
  <2>3. \A r \in Rows : r # Last(b) => q.width[r] = b.width[r]
    BY DEF Put, Good, Buffers
  <2>4. \A c \in Cells : c # cell => q.bit[c] = b.bit[c]
    BY DEF Put, Good, Buffers
  <2>5. cell = Cell(Last(b), 0) + LastWidth(b) /\ Cell(Last(b), 0) \in Nat
    <3> DEFINE w == LastWidth(b)
               l == Last(b)
    <3>1. l \in Nat /\ w \in Nat /\ l * RowBits \in Nat
      BY <2>2, BufferAssumption
    <3> HIDE DEF l, w
    <3>2. Cell(l, w) = Cell(l, 0) + w /\ Cell(l, 0) \in Nat
      BY <3>1 DEF Cell
    <3> QED BY <3>2 DEF l, w
  <2>6. \A c \in Cells : c < Cell(Last(b), 0) => c # cell
    BY <2>2, <2>5 DEF Cells
  <2>7. \A r \in 0..Last(b) - 1 : r \in Rows /\ r # Last(b)
    BY <2>2, BufferAssumption DEF Rows
  <2> HIDE DEF q, cell
  <2> QED BY <2>1, <2>3, <2>4, <2>6, <2>7, KeptBefore
<1>2. CASE Last(b) > 0 /\ NoRoomFor(b)
  BY <1>2, StartedKept DEF AddBit, Kept
<1>3. CASE ~(Last(b) > 0)
  BY <1>3, CellFacts DEF Kept
<1> QED BY <1>1, <1>2, <1>3

\* A row is put behind the others, or empties the last.
LEMMA AddRowKept ==
  ASSUME NEW b, Good(b)
  PROVE  Kept(b, AddRow(b))
<1>1. CASE Last(b) > 0
  <2> DEFINE q == AddRow(b)
  <2>1. q = NewRow(b) /\ b.rows > 0
    BY <1>1, StartedKept DEF AddRow
  <2>2. Last(b) \in Rows /\ Last(b) \in Nat
    BY <2>1, LastInRows
  <2>3. q.bit = b.bit /\ \A r \in Rows : r # Last(b) => q.width[r] = b.width[r]
    BY <2>1 DEF NewRow, Good, Buffers
  <2>4. \A r \in 0..Last(b) - 1 : r \in Rows /\ r # Last(b)
    BY <2>2, BufferAssumption DEF Rows
  <2> HIDE DEF q
  <2>5. Kept(b, q)
    BY <2>3, <2>4, KeptBefore
  <2> QED BY <2>5 DEF q
<1>2. CASE ~(Last(b) > 0)
  BY <1>2, CellFacts DEF Kept
<1> QED BY <1>1, <1>2

\* So is the row of a sync.
LEMMA AddSyncKept ==
  ASSUME NEW b, Good(b)
  PROVE  Kept(b, AddSync(b))
<1>1. CASE Last(b) > 0
  <2>1. AddSync(b) = AddRow(b) \/ AddSync(b) = b
    BY <1>1, StartedKept DEF AddSync
  <2> QED BY <2>1, AddRowKept DEF Kept
<1>2. CASE ~(Last(b) > 0)
  BY <1>2, CellFacts DEF Kept
<1> QED BY <1>1, <1>2

\* A width cuts or lengthens the last row.
LEMMA SetWidthKept ==
  ASSUME NEW b, Good(b), NEW v \in Nat
  PROVE  Kept(b, SetWidth(b, v))
<1>1. CASE Last(b) > 0
  <2> DEFINE w == Capped(b, v)
             q == Resized(b, w)
  <2>1. SetWidth(b, v) = q /\ b.rows > 0
    BY <1>1, StartedKept DEF SetWidth
  <2>2. Last(b) \in Rows /\ Last(b) \in Nat /\ w \in Nat
    BY <2>1, LastInRows, WidthRoom
  <2> HIDE DEF w
  <2>3. \A r \in Rows : r # Last(b) => q.width[r] = b.width[r]
    BY DEF Resized, Good, Buffers
  <2>4. \A c \in Cells : c < Cell(Last(b), w) => q.bit[c] = b.bit[c]
    <3>1. q.bit = IF LastWidth(b) > w THEN Truncated(b, w) ELSE b.bit
      BY DEF Resized, Good, Buffers
    <3> SUFFICES ASSUME NEW c \in Cells, c < Cell(Last(b), w)
                 PROVE  q.bit[c] = b.bit[c]
      OBVIOUS
    <3>2. c \in Nat /\ Cell(Last(b), w) \in Nat
      <4>1. Last(b) * RowBits \in Nat
        BY <2>2, BufferAssumption
      <4> QED BY <2>2, <4>1 DEF Cell, Cells
    <3>3. ~(c >= Cell(Last(b), w))
      BY <3>2
    <3> QED BY <3>1, <3>3 DEF Truncated
  <2>5. \A c \in Cells : c < Cell(Last(b), 0) => c < Cell(Last(b), w)
    <3>1. Last(b) * RowBits \in Nat
      BY <2>2, BufferAssumption
    <3>2. Cell(Last(b), 0) \in Nat /\ Cell(Last(b), w) = Cell(Last(b), 0) + w
      BY <2>2, <3>1 DEF Cell
    <3> QED BY <2>2, <3>2 DEF Cells
  <2>6. \A r \in 0..Last(b) - 1 : r \in Rows /\ r # Last(b)
    BY <2>2, BufferAssumption DEF Rows
  <2> HIDE DEF q
  <2> QED BY <2>1, <2>3, <2>4, <2>5, <2>6, KeptBefore
<1>2. CASE ~(Last(b) > 0)
  BY <1>2, CellFacts DEF Kept
<1> QED BY <1>1, <1>2

\* Adding bits, rows and syncs and setting a width changes the last row at
\* most: what was received before is kept until it is cleared or recoded.
THEOREM OnlyAppended == BufferSpec => RowsKept
<1>1. BufferInv /\ [BufferNext]_<<bits, refused>> =>
        [ \/ bits' = Clear
          \/ \E code \in Codes : bits' = Recode(bits, code)
          \/ \A r \in 0..Last(bits) - 1 : Content(bits', r) = Content(bits, r)
        ]_bits
  <2> SUFFICES ASSUME BufferInv, [BufferNext]_<<bits, refused>>
               PROVE  \/ bits' = Clear
                      \/ \E code \in Codes : bits' = Recode(bits, code)
                      \/ Kept(bits, bits')
                      \/ bits' = bits
    BY DEF Kept
  <2>0. Good(bits)
    BY DEF BufferInv
  <2>1. CASE CallClear
    BY <2>1 DEF CallClear
  <2>2. ASSUME NEW v \in {0, 1}, CallAddBit(v) PROVE Kept(bits, bits')
    BY <2>0, <2>2, AddBitKept DEF CallAddBit
  <2>3. CASE CallAddRow
    BY <2>0, <2>3, AddRowKept DEF CallAddRow
  <2>4. CASE CallAddSync
    BY <2>0, <2>4, AddSyncKept DEF CallAddSync
  <2>5. ASSUME NEW w \in 0..UINT16_MAX, CallSetWidth(w) PROVE Kept(bits, bits')
    BY <2>0, <2>5, SetWidthKept DEF CallSetWidth
  <2>6. ASSUME NEW code \in Codes, CallRecode(code)
        PROVE  \E code2 \in Codes : bits' = Recode(bits, code2)
    BY <2>6 DEF CallRecode
  <2>7. CASE UNCHANGED <<bits, refused>>
    BY <2>7
  <2> QED BY <2>1, <2>2, <2>3, <2>4, <2>5, <2>6, <2>7 DEF BufferNext
<1> QED BY <1>1, BufferSafe, PTL DEF BufferSpec, RowsKept

-----------------------------------------------------------------------------
(* The bit buffer: every step is a call on it, or leaves it alone.          *)

\* What the program does to its bit buffer is calls on a bit buffer.
THEOREM Fills == Spec => BufferSpec
<1>1. Init => BufferInit
  BY DEF Init
<1>2. [Next]_vars => [BufferNext]_<<bits, refused>>
  <2> SUFFICES ASSUME [Next]_vars
               PROVE  [BufferNext]_<<bits, refused>>
    OBVIOUS
  <2>1. CASE \/ \E d \in OfferedTo(devs) \cap Protocols : Register(d) \/ Unregister(d)
             \/ UnregisterTurn \/ UnregisterDone \/ Receive
             \/ SkipDevice \/ RunDevice \/ NextPass \/ Finish \/ Turn
    BY <2>1 DEF Register, Unregister, UnregisterTurn, UnregisterDone, Receive,
                SkipDevice, RunDevice, NextPass, Finish, Turn, buffer
  <2>2. CASE DeviceDone
    BY <2>2 DEF DeviceDone, BufferNext
  <2>3. CASE \E v \in {0, 1} : AddsBit(v)
    BY <2>3 DEF AddsBit, BufferNext
  <2>4. CASE \E w \in 0..MaxRowBits : SetsWidth(w)
    <3>1. MaxRowBits \in Nat /\ MaxRowBits <= UINT16_MAX
      BY BufferAssumption DEF MaxRowBits
    <3>2. \A w \in 0..MaxRowBits : w \in 0..UINT16_MAX
      BY <3>1, BufferAssumption
    <3> QED BY <2>4, <3>2 DEF SetsWidth, BufferNext
  <2>5. CASE AddsRow \/ SkipsRow
    BY <2>5 DEF AddsRow, SkipsRow, BufferNext, buffer
  <2>6. CASE AddsSync \/ Clears
    BY <2>6 DEF AddsSync, Clears, BufferNext
  <2>7. ASSUME NEW found \in BOOLEAN, NEW code \in Recodings \cup {"none"},
               Deliver(found, code)
        PROVE  [BufferNext]_<<bits, refused>>
    <3>1. CASE code = "none"
      BY <2>7, <3>1 DEF Deliver, buffer
    <3>2. CASE code # "none"
      <4>1. code \in Codes
        BY <3>2, DecodeAssumption
      <4> QED BY <2>7, <3>2, <4>1 DEF Deliver, BufferNext
    <3> QED BY <3>1, <3>2
  <2>8. CASE NothingToDeliver
    BY <2>8 DEF NothingToDeliver, buffer
  <2>9. CASE UNCHANGED vars
    BY <2>9 DEF vars, buffer
  <2> QED BY <2>1, <2>2, <2>3, <2>4, <2>5, <2>6, <2>7, <2>8, <2>9 DEF Next
<1> QED BY <1>1, <1>2, PTL DEF Spec, BufferSpec

\* No slicer, and no decoder that recodes its buffer, makes rows overlap.
THEOREM SlicedRowsFit == Spec => []RowsFit
<1>1. BufferInv => RowsFit
  BY DEF BufferInv, Good, RowsFit
<1> QED BY <1>1, Fills, BufferSafe, PTL

\* Nor leaves a bit behind the end of a row, as long as no row was refused.
THEOREM SlicedTailsClean == Spec => []CleanTail
  BY Fills, TailsClean, PTL

\* What was sliced into a row is not changed by what is sliced after it.
THEOREM SlicedRowsKept == Spec => RowsKept
  BY Fills, OnlyAppended, PTL

-----------------------------------------------------------------------------
(* The list.                                                                *)

ListType(l) ==
    /\ l = [elems |-> l.elems, len |-> l.len, size |-> l.size]
    /\ l.len \in Nat /\ l.size \in Nat
    /\ l.elems = [i \in 0..l.size - 1 |-> l.elems[i]]
    /\ l.size = 0 => l.len = 0

Holds(l, S) ==
    /\ ListType(l) /\ ListOk(l)
    /\ \A i \in 0..l.len - 1 : l.elems[i] \in S

\* The fields decide.
LEMMA HoldsFields ==
  ASSUME NEW S, NEW elems, NEW len \in Nat, NEW size \in Nat, len < size,
         elems = [i \in 0..size - 1 |-> elems[i]], elems[len] = NULL,
         \A i \in 0..len - 1 : elems[i] \in S /\ elems[i] \notin {NULL, Junk}
  PROVE  Holds([elems |-> elems, len |-> len, size |-> size], S)
<1> DEFINE q == [elems |-> elems, len |-> len, size |-> size]
<1>1. q.elems = elems /\ q.len = len /\ q.size = size
  OBVIOUS
<1>2. q = [elems |-> q.elems, len |-> q.len, size |-> q.size]
  OBVIOUS
<1> HIDE DEF q
<1>3. ListType(q)
  BY <1>1, <1>2 DEF ListType
<1>4. ListOk(q)
  BY <1>1 DEF ListOk
<1>5. Holds(q, S)
  BY <1>1, <1>3, <1>4 DEF Holds
<1> QED BY <1>5 DEF q

\* An empty list.
LEMMA EmptyHolds == ASSUME NEW S PROVE Holds(EmptyList, S)
  BY DEF EmptyList, Holds, ListType, ListOk

\* After growing, there is room for one more element and the NULL behind it.
LEMMA RoomHolds ==
  ASSUME NEW S, NEW l, Holds(l, S)
  PROVE  /\ Holds(Room(l), S)
         /\ Room(l).len = l.len
         /\ Room(l).len + 1 < Room(l).size
<1> DEFINE n1 == IF l.size < FirstSize THEN FirstSize ELSE l.size + l.size \div 2
           elems == [i \in 0..n1 - 1 |->
                        IF i = l.len THEN NULL
                        ELSE IF i < l.size THEN l.elems[i] ELSE Junk]
           r == [elems |-> elems, len |-> l.len, size |-> n1]
<1>1. l.len \in Nat /\ l.size \in Nat /\ (l.size > 0 => l.len < l.size)
      /\ (l.size = 0 => l.len = 0)
  BY DEF Holds, ListType, ListOk
<1>2. CASE l.len + 1 >= l.size
  <2>1. n1 \in Nat /\ n1 > l.size /\ l.len + 1 < n1
    BY <1>1, <1>2, ListAssumption
  <2> HIDE DEF n1
  <2>2. \A i \in 0..l.len - 1 : elems[i] = l.elems[i]
    BY <1>1, <2>1
  <2>3. elems[l.len] = NULL
    BY <1>1, <2>1
  <2>4. elems = [i \in 0..n1 - 1 |-> elems[i]]
    OBVIOUS
  <2> HIDE DEF elems
  <2>5. Holds(r, S)
    <3>1. \A i \in 0..l.len - 1 : elems[i] \in S /\ elems[i] \notin {NULL, Junk}
      BY <2>2 DEF Holds, ListOk
    <3>2. l.len < n1
      BY <1>1, <2>1
    <3> QED BY <1>1, <2>1, <2>3, <2>4, <3>1, <3>2, HoldsFields
  <2>6. Room(l) = r
    <3>1. l = [elems |-> l.elems, len |-> l.len, size |-> l.size]
      BY DEF Holds, ListType
    <3>2. Room(l) = EnsureSize(l, n1)
      BY <1>2 DEF Room, n1
    <3>3. ~(l.size >= n1)
      BY <1>1, <2>1
    <3> QED BY <3>1, <3>2, <3>3 DEF EnsureSize, elems
  <2> QED BY <2>1, <2>5, <2>6
<1>3. CASE ~(l.len + 1 >= l.size)
  BY <1>1, <1>3 DEF Room
<1> QED BY <1>2, <1>3

\* An element is put behind the others.
LEMMA PushHolds ==
  ASSUME NEW S, NULL \notin S, Junk \notin S, NEW l, Holds(l, S), NEW x \in S
  PROVE  Holds(Push(l, x), S) /\ Push(l, x).len = l.len + 1
<1> DEFINE r == Room(l)
           elems == [[r.elems EXCEPT ![r.len] = x] EXCEPT ![r.len + 1] = NULL]
           q == [elems |-> elems, len |-> r.len + 1, size |-> r.size]
<1>1. Holds(r, S) /\ r.len = l.len /\ r.len + 1 < r.size
  BY RoomHolds
<1> HIDE DEF r
<1>2. r.len \in Nat /\ r.size \in Nat
      /\ r = [elems |-> r.elems, len |-> r.len, size |-> r.size]
      /\ r.elems = [i \in 0..r.size - 1 |-> r.elems[i]]
  BY <1>1 DEF Holds, ListType
<1>3. r.len \in 0..r.size - 1 /\ r.len + 1 \in 0..r.size - 1
  BY <1>1, <1>2
<1>4. /\ elems[r.len + 1] = NULL
      /\ elems[r.len] = x
      /\ \A i \in 0..r.len - 1 : elems[i] = r.elems[i]
      /\ elems = [i \in 0..r.size - 1 |-> elems[i]]
  <2> DEFINE a == r.elems
             D == 0..r.size - 1
  <2>1. a = [i \in D |-> a[i]]
    BY <1>2
  <2>2. r.len \in D /\ r.len + 1 \in D /\ \A i \in 0..r.len - 1 : i \in D
    BY <1>2, <1>3
  <2>3. elems = [[a EXCEPT ![r.len] = x] EXCEPT ![r.len + 1] = NULL]
    OBVIOUS
  <2> HIDE DEF a, D, elems
  <2>4. elems = [i \in D |-> elems[i]]
    BY <2>1, <2>3
  <2>5. /\ elems[r.len + 1] = NULL
        /\ elems[r.len] = x
        /\ \A i \in 0..r.len - 1 : elems[i] = a[i]
    BY <2>1, <2>2, <2>3, <1>2
  <2> QED BY <2>4, <2>5 DEF a, D
<1>5. Push(l, x) = q
  <2>1. Push(l, x) = [r EXCEPT !.elems = elems, !.len = r.len + 1]
    BY DEF Push, r
  <2> HIDE DEF elems
  <2> QED BY <1>2, <2>1
<1> HIDE DEF elems
<1>6. \A i \in 0..r.len : elems[i] \in S
  <2>1. \A i \in 0..r.len - 1 : r.elems[i] \in S
    BY <1>1 DEF Holds
  <2>2. ASSUME NEW i \in 0..r.len PROVE elems[i] \in S
    <3>1. i = r.len \/ i \in 0..r.len - 1
      BY <1>2
    <3> QED BY <3>1, <1>4, <2>1
  <2> QED BY <2>2
<1>7. Holds(q, S)
  <2> DEFINE m == r.len + 1
  <2>1. \A i \in 0..m - 1 : elems[i] \in S /\ elems[i] \notin {NULL, Junk}
    BY <1>2, <1>6
  <2>2. m \in Nat /\ m < r.size /\ elems[m] = NULL
    BY <1>1, <1>2, <1>4
  <2> HIDE DEF m
  <2>3. Holds([elems |-> elems, len |-> m, size |-> r.size], S)
    BY <1>2, <1>4, <2>1, <2>2, HoldsFields
  <2> QED BY <2>3 DEF m
<1> QED BY <1>1, <1>5, <1>7

\* An element is taken out.
LEMMA RemoveHolds ==
  ASSUME NEW S, NULL \notin S, Junk \notin S, NEW l, Holds(l, S),
         NEW k \in Nat, k < l.len
  PROVE  Holds(Remove(l, k), S) /\ Remove(l, k).len = l.len - 1
<1> DEFINE elems == [i \in DOMAIN l.elems |->
                        IF i >= k /\ i < l.len THEN l.elems[i + 1] ELSE l.elems[i]]
           q == [elems |-> elems, len |-> l.len - 1, size |-> l.size]
<1>1. l.len \in Nat /\ l.size \in Nat /\ l.len < l.size
      /\ l = [elems |-> l.elems, len |-> l.len, size |-> l.size]
      /\ DOMAIN l.elems = 0..l.size - 1
  BY DEF Holds, ListType, ListOk
<1>2. elems = [i \in 0..l.size - 1 |-> elems[i]]
  BY <1>1
<1>3. elems[l.len - 1] = NULL
  BY <1>1 DEF Holds, ListOk
<1>4. ASSUME NEW i \in 0..l.len - 2 PROVE elems[i] \in S
  <2>1. i \in 0..l.len - 1 /\ i + 1 \in 0..l.len - 1 /\ i \in 0..l.size - 1
    BY <1>1
  <2>2. l.elems[i] \in S /\ l.elems[i + 1] \in S
    BY <2>1 DEF Holds
  <2> QED BY <2>1, <2>2, <1>1
<1>5. Remove(l, k) = q
  <2>1. ~(k >= l.len)
    BY <1>1
  <2> QED BY <1>1, <2>1 DEF Remove
<1> HIDE DEF elems
<1>6. Holds(q, S)
  <2>1. \A i \in 0..l.len - 1 - 1 : elems[i] \in S /\ elems[i] \notin {NULL, Junk}
    BY <1>1, <1>4
  <2>2. l.len - 1 \in Nat /\ l.len - 1 < l.size
    BY <1>1
  <2> QED BY <1>1, <1>2, <1>3, <2>1, <2>2, HoldsFields
<1> QED BY <1>5, <1>6

-----------------------------------------------------------------------------
(* The dispatch.                                                            *)

ListInv == Holds(devs, Protocols)

Running == {"pass", "slice", "done"}

\* Before a package comes the loops have not begun.
Fresh ==
    /\ priority = 0 /\ nextPriority = UINT_MAX
    /\ events = 0 /\ ran = {} /\ won = {}

\* What the loops know of the devices passed: the smallest priority above.
LoopInv ==
    /\ phase \in Phases /\ events \in Nat
    /\ it \in Nat /\ it <= devs.len
    /\ priority \in Nat /\ nextPriority \in Nat
    /\ priority < nextPriority /\ nextPriority <= UINT_MAX
    /\ phase \notin Running => Fresh
    /\ phase = "config" => it = 0
    /\ phase = "slice" => it < devs.len /\ Chosen(devs.elems[it])
    /\ phase = "done" => it = devs.len /\ ~GoOn
    /\ events = 0 <=> won = {}

\* Who has run: all of the priorities before, those of this one up to here.
OrderInv ==
    phase \in Running /\ pkg.type # "code" =>
        /\ \A i \in Wanted : PrioOf(i) < priority => i \in ran
        /\ \A i \in Wanted : PrioOf(i) = priority /\ i < it => i \in ran
        /\ \A i \in ran : i \in Index /\
                (PrioOf(i) < priority \/ (PrioOf(i) = priority /\ i < it))
        /\ \A i \in Index :
                i < it /\ PrioOf(i) > priority => nextPriority <= PrioOf(i)
        /\ \A w \in won : w \in Index /\ PrioOf(w) = priority

DispatchInv == ListInv /\ LoopInv /\ OrderInv

\* The end of the list is where its readers stop.
LEMMA AtEndOfList ==
  ASSUME ListInv, it \in Nat, it <= devs.len
  PROVE  /\ Device = NULL <=> it = devs.len
         /\ devs.len \in Nat
         /\ Device # NULL => it \in Index /\ Device = devs.elems[it]
<1>1. devs.len \in Nat /\ devs.size \in Nat /\ (devs.size = 0 => devs.len = 0)
      /\ (devs.size > 0 => devs.elems[devs.len] = NULL /\ devs.len < devs.size)
      /\ \A i \in 0..devs.len - 1 : devs.elems[i] # NULL
  BY DEF ListInv, Holds, ListType, ListOk
<1>2. CASE devs.size = 0
  BY <1>1, <1>2 DEF Device, Index
<1>3. CASE devs.size # 0
  <2>1. Device = devs.elems[it]
    BY <1>3 DEF Device
  <2>2. it = devs.len \/ it \in 0..devs.len - 1
    BY <1>1
  <2> QED BY <1>1, <1>3, <2>1, <2>2 DEF Index
<1> QED BY <1>2, <1>3

\* Priorities as numbers.
LEMMA PrioType ==
  ASSUME ListInv, NEW i \in Index
  PROVE  PrioOf(i) \in 0..UINT_MAX /\ PrioOf(i) \in Nat
<1>1. devs.elems[i] \in Protocols
  BY DEF ListInv, Holds, Index
<1> QED BY <1>1, DecodeAssumption DEF PrioOf

\* The invariant holds at the start.
LEMMA DispatchInit == Init => DispatchInv
<1> SUFFICES ASSUME Init PROVE DispatchInv
  OBVIOUS
<1>1. ListInv
  BY EmptyHolds DEF Init, ListInv
<1>2. LoopInv
  BY DecodeAssumption DEF Init, LoopInv, Phases, Running, Fresh, EmptyList
<1>3. OrderInv
  BY DEF Init, OrderInv, Running
<1> QED BY <1>1, <1>2, <1>3 DEF DispatchInv

\* A step of the slicer, or none, that leaves the loops where they are.
LEMMA LoopsKept ==
  ASSUME DispatchInv, UNCHANGED <<phase, devs, pkg, dispatch>>
  PROVE  DispatchInv'
  BY DEF DispatchInv, ListInv, LoopInv, OrderInv, dispatch, Fresh, Running, Chosen,
         Demods, GoOn, Wanted, Index, PrioOf

\* Registering and unregistering.
LEMMA ListSteps ==
  ASSUME DispatchInv,
         \/ \E d \in OfferedTo(devs) \cap Protocols : Register(d) \/ Unregister(d)
         \/ UnregisterTurn \/ UnregisterDone
  PROVE  DispatchInv'
<1>0. NULL \notin Protocols /\ Junk \notin Protocols
  BY DecodeAssumption
<1>a. devs.len \in Nat /\ it \in Nat /\ it <= devs.len
  BY DEF DispatchInv, LoopInv, ListInv, Holds, ListType
<1>1. ASSUME NEW d \in Protocols, Register(d) PROVE DispatchInv'
  <2>1. ListInv'
    BY <1>0, <1>1, PushHolds DEF Register, DispatchInv, ListInv
  <2>2. devs'.len = devs.len + 1
    BY <1>0, <1>1, PushHolds DEF Register, DispatchInv, ListInv
  <2>3. LoopInv' /\ OrderInv'
    BY <1>1, <1>a, <2>2 DEF Register, DispatchInv, LoopInv, OrderInv, Running, Fresh, dispatch
  <2> QED BY <2>1, <2>3 DEF DispatchInv
<1>2. ASSUME NEW d \in Protocols, Unregister(d) PROVE DispatchInv'
  <2>1. ListInv'
    BY <1>2 DEF Unregister, DispatchInv, ListInv
  <2>2. LoopInv' /\ OrderInv'
    BY <1>2 DEF Unregister, DispatchInv, LoopInv, OrderInv, Running, Fresh, Phases
  <2> QED BY <2>1, <2>2 DEF DispatchInv
<1>3. CASE UnregisterTurn
  <2>1. ListInv'
    <3>1. CASE devs' = Remove(devs, it)
      <4>1. it \in Nat /\ it < devs.len
        BY <1>3 DEF UnregisterTurn, DispatchInv, LoopInv
      <4> QED BY <1>0, <3>1, <4>1, RemoveHolds DEF DispatchInv, ListInv
    <3>2. CASE UNCHANGED devs
      BY <3>2 DEF DispatchInv, ListInv
    <3> QED BY <1>3, <3>1, <3>2 DEF UnregisterTurn
  <2>2. it' \in Nat /\ it' <= devs'.len
    <3>1. CASE devs.elems[it].name = name
      <4>1. devs'.len = devs.len - 1
        BY <1>0, <1>3, <1>a, <3>1, RemoveHolds DEF UnregisterTurn, DispatchInv, ListInv
      <4> QED BY <1>3, <1>a, <3>1, <4>1 DEF UnregisterTurn
    <3>2. CASE devs.elems[it].name # name
      BY <1>3, <1>a, <3>2 DEF UnregisterTurn
    <3> QED BY <3>1, <3>2
  <2>3. LoopInv' /\ OrderInv'
    BY <1>3, <2>2 DEF UnregisterTurn, DispatchInv, LoopInv, OrderInv, Running, Fresh
  <2> QED BY <2>1, <2>3 DEF DispatchInv
<1>4. CASE UnregisterDone
  <2>1. ListInv'
    BY <1>4 DEF UnregisterDone, DispatchInv, ListInv
  <2>2. LoopInv' /\ OrderInv'
    BY <1>4, <1>a DEF UnregisterDone, DispatchInv, LoopInv, OrderInv, Running, Fresh, Phases
  <2> QED BY <2>1, <2>2 DEF DispatchInv
<1> QED BY <1>1, <1>2, <1>3, <1>4

\* A package comes in.
LEMMA ReceiveStep ==
  ASSUME DispatchInv, Receive
  PROVE  DispatchInv'
<1>1. ListInv' /\ devs' = devs /\ phase = "config" /\ phase' = "pass"
      /\ UNCHANGED dispatch
  BY DEF Receive, DispatchInv, ListInv
<1>2. Fresh /\ it = 0 /\ devs.len \in Nat
  BY <1>1 DEF DispatchInv, LoopInv, Running, ListInv, Holds, ListType
<1>3. LoopInv'
  BY <1>1, <1>2 DEF DispatchInv, LoopInv, Running, Phases, dispatch, Fresh
<1>4. \A i \in Index' : PrioOf(i)' \in Nat
  BY <1>1, PrioType DEF DispatchInv, Index, PrioOf
<1>5. OrderInv'
  BY <1>1, <1>2, <1>4 DEF OrderInv, Fresh, dispatch, Wanted, Index
<1> QED BY <1>1, <1>3, <1>5 DEF DispatchInv

\* A device is not one for this package, or not yet.
LEMMA SkipStep ==
  ASSUME DispatchInv, SkipDevice
  PROVE  DispatchInv'
<1>1. /\ UNCHANGED <<phase, devs, pkg, priority, events, ran, won>>
      /\ phase = "pass" /\ it' = it + 1 /\ nextPriority' = NextSmallest(Device)
      /\ Device # NULL /\ ~Chosen(Device)
  BY DEF SkipDevice
<1>2. ListInv'
  BY <1>1 DEF DispatchInv, ListInv
<1>3. it \in Nat /\ it <= devs.len /\ devs.len \in Nat
  BY <1>1 DEF DispatchInv, LoopInv, Running, ListInv, Holds, ListType
<1>4. it \in Index /\ Device = devs.elems[it] /\ it < devs.len
  BY <1>1, <1>3, AtEndOfList DEF DispatchInv
<1>5. PrioOf(it) \in 0..UINT_MAX /\ \A i \in Index : PrioOf(i) \in Nat
  BY <1>4, PrioType DEF DispatchInv
<1>6. /\ priority < nextPriority' /\ nextPriority' <= UINT_MAX
      /\ nextPriority' \in Nat /\ nextPriority' <= nextPriority
      /\ PrioOf(it) > priority => nextPriority' <= PrioOf(it)
  BY <1>1, <1>4, <1>5, DecodeAssumption DEF NextSmallest, DispatchInv, LoopInv, PrioOf
<1>7. LoopInv'
  BY <1>1, <1>3, <1>4, <1>6 DEF DispatchInv, LoopInv, Running
<1>8. ASSUME pkg.type # "code" PROVE ~(it \in Wanted /\ PrioOf(it) = priority)
  BY <1>1, <1>4, <1>8 DEF Chosen, Wanted, PrioOf
<1>9. OrderInv'
  <2> SUFFICES ASSUME pkg.type # "code" PROVE OrderInv'
    BY <1>1 DEF OrderInv
  <2>1. Wanted' = Wanted /\ Index' = Index /\ \A i : PrioOf(i)' = PrioOf(i)
    BY <1>1 DEF Wanted, Index, PrioOf, Demods
  <2>2. \A i \in Index : i \in Nat
    BY <1>3 DEF Index
  <2>3. \A i \in Wanted : i \in Index
    BY DEF Wanted
  <2>4. \A i \in Index : i < it + 1 <=> i < it \/ i = it
    BY <1>3, <2>2
  <2>5. \A i \in Wanted : PrioOf(i) = priority /\ i < it + 1 => i \in ran
    BY <1>1, <1>8, <2>3, <2>4 DEF DispatchInv, OrderInv, Running
  <2>6. \A i \in Index : i < it + 1 /\ PrioOf(i) > priority => nextPriority' <= PrioOf(i)
    BY <1>1, <1>5, <1>6, <2>4 DEF DispatchInv, OrderInv, LoopInv, Running
  <2>7. \A i \in ran : i \in Index /\
            (PrioOf(i) < priority \/ (PrioOf(i) = priority /\ i < it + 1))
    BY <1>1, <2>4 DEF DispatchInv, OrderInv, Running
  <2> QED BY <1>1, <2>1, <2>5, <2>6, <2>7 DEF DispatchInv, OrderInv, Running
<1> QED BY <1>2, <1>7, <1>9 DEF DispatchInv

\* A device begins to run.
LEMMA RunStep ==
  ASSUME DispatchInv, RunDevice
  PROVE  DispatchInv'
<1>1. /\ UNCHANGED <<devs, pkg, dispatch>> /\ phase = "pass" /\ phase' = "slice"
      /\ Device # NULL /\ Chosen(Device)
  BY DEF RunDevice
<1>2. ListInv'
  BY <1>1 DEF DispatchInv, ListInv
<1>3. it < devs.len /\ Chosen(devs.elems[it])
  <2>1. it \in Nat /\ it <= devs.len /\ devs.len \in Nat
    BY <1>1 DEF DispatchInv, LoopInv, Running, ListInv, Holds, ListType
  <2> QED BY <1>1, <2>1, AtEndOfList DEF DispatchInv
<1>4. LoopInv'
  BY <1>1, <1>3 DEF DispatchInv, LoopInv, Running, Phases, dispatch, Chosen, Demods, Fresh
<1>5. OrderInv'
  BY <1>1 DEF DispatchInv, OrderInv, Running, dispatch, Wanted, Index, PrioOf, Demods
<1> QED BY <1>2, <1>4, <1>5 DEF DispatchInv

\* All of the priorities up to this one have run and found nothing, and the
\* next smallest one is the next above.
LEMMA PassStep ==
  ASSUME DispatchInv, NextPass
  PROVE  DispatchInv'
<1>1. /\ UNCHANGED <<phase, devs, pkg, events, ran, won>> /\ phase = "pass"
      /\ priority' = nextPriority /\ nextPriority' = UINT_MAX /\ it' = 0
      /\ Device = NULL /\ pkg.type # "code" /\ events = 0 /\ nextPriority < UINT_MAX
  BY DEF NextPass, GoOn
<1>2. ListInv'
  BY <1>1 DEF DispatchInv, ListInv
<1>3. it = devs.len /\ devs.len \in Nat
  <2>1. it \in Nat /\ it <= devs.len
    BY <1>1 DEF DispatchInv, LoopInv, Running
  <2> QED BY <1>1, <2>1, AtEndOfList DEF DispatchInv
<1>4. won = {} /\ priority \in Nat /\ nextPriority \in Nat /\ priority < nextPriority
  BY <1>1 DEF DispatchInv, LoopInv
<1>5. LoopInv'
  BY <1>1, <1>3, <1>4, DecodeAssumption DEF DispatchInv, LoopInv, Running
<1>6. \A i \in Index : PrioOf(i) \in Nat /\ PrioOf(i) <= UINT_MAX /\ i \in Nat /\ i < it
  <2>1. \A i \in Index : i \in Nat /\ i < it
    BY <1>3 DEF Index
  <2>2. \A i \in Index : PrioOf(i) \in 0..UINT_MAX /\ PrioOf(i) \in Nat
    BY PrioType DEF DispatchInv
  <2> QED BY <2>1, <2>2, DecodeAssumption
<1>7. OrderInv'
  <2>1. Wanted' = Wanted /\ Index' = Index /\ \A i : PrioOf(i)' = PrioOf(i)
    BY <1>1 DEF Wanted, Index, PrioOf, Demods
  <2>2. OrderInv
    BY DEF DispatchInv
  <2>3. \A i \in Wanted : i \in Index
    BY DEF Wanted
  <2>4. \A i \in Wanted : PrioOf(i) < nextPriority => i \in ran
    <3> SUFFICES ASSUME NEW i \in Wanted, PrioOf(i) < nextPriority PROVE i \in ran
      OBVIOUS
    <3>1. i \in Index /\ PrioOf(i) \in Nat /\ i < it
      BY <1>6, <2>3
    <3>2. ~(PrioOf(i) > priority)
      BY <1>1, <1>4, <2>2, <3>1 DEF OrderInv, Running
    <3>3. PrioOf(i) < priority \/ PrioOf(i) = priority
      BY <1>4, <3>1, <3>2
    <3> QED BY <1>1, <2>2, <3>1, <3>3 DEF OrderInv, Running
  <2>5. \A i \in ran : i \in Index /\ PrioOf(i) < nextPriority
    <3>1. \A i \in ran : i \in Index /\ (PrioOf(i) < priority \/ PrioOf(i) = priority)
      BY <1>1, <2>2 DEF OrderInv, Running
    <3> QED BY <3>1, <1>4, <1>6
  <2>6. \A i \in Wanted : ~(i < 0)
    BY <1>6, <2>3
  <2>7. \A i \in Index : ~(i < 0)
    BY <1>6
  <2> QED BY <1>1, <1>4, <2>1, <2>4, <2>5, <2>6, <2>7 DEF OrderInv, Running
<1> QED BY <1>2, <1>5, <1>7 DEF DispatchInv

\* The loops end.
LEMMA FinishStep ==
  ASSUME DispatchInv, Finish
  PROVE  DispatchInv'
<1>1. /\ UNCHANGED <<devs, pkg, dispatch>> /\ phase = "pass" /\ phase' = "done"
      /\ Device = NULL /\ ~GoOn
  BY DEF Finish
<1>2. ListInv'
  BY <1>1 DEF DispatchInv, ListInv
<1>3. it = devs.len
  <2>1. it \in Nat /\ it <= devs.len
    BY <1>1 DEF DispatchInv, LoopInv, Running
  <2> QED BY <1>1, <2>1, AtEndOfList DEF DispatchInv
<1>4. LoopInv'
  BY <1>1, <1>3 DEF DispatchInv, LoopInv, Running, Phases, dispatch, GoOn, Fresh
<1>5. OrderInv'
  BY <1>1 DEF DispatchInv, OrderInv, Running, dispatch, Wanted, Index, PrioOf, Demods
<1> QED BY <1>2, <1>4, <1>5 DEF DispatchInv

\* A decoder is called, and may produce an event.
LEMMA DeliverStep ==
  ASSUME DispatchInv, NEW found \in BOOLEAN, NEW code, Deliver(found, code)
  PROVE  DispatchInv'
<1>1. /\ UNCHANGED <<phase, devs, pkg, priority, nextPriority, it, ran>>
      /\ events' = (IF found THEN events + 1 ELSE events)
      /\ won' = (IF found THEN won \cup {it} ELSE won)
      /\ phase = "slice"
  BY DEF Deliver, Delivers, Calling
<1>2. ListInv'
  BY <1>1 DEF DispatchInv, ListInv
<1>3. /\ it \in Nat /\ it < devs.len /\ Chosen(devs.elems[it])
      /\ events \in Nat /\ devs.len \in Nat
  BY <1>1 DEF DispatchInv, LoopInv, ListInv, Holds, ListType
<1>4. events' \in Nat /\ (events' = 0 <=> won' = {})
  <2>1. CASE found
    BY <1>1, <1>3, <2>1
  <2>2. CASE ~found
    BY <1>1, <2>2 DEF DispatchInv, LoopInv
  <2> QED BY <2>1, <2>2
<1>5. LoopInv'
  BY <1>1, <1>3, <1>4 DEF DispatchInv, LoopInv, Running, Chosen, Demods
<1>6. ASSUME pkg.type # "code" PROVE \A w \in won' : w \in Index /\ PrioOf(w) = priority
  <2>1. it \in Index /\ PrioOf(it) = priority
    BY <1>3, <1>6 DEF Chosen, Index, PrioOf
  <2>2. \A w \in won : w \in Index /\ PrioOf(w) = priority
    BY <1>1, <1>6 DEF DispatchInv, OrderInv, Running
  <2> QED BY <1>1, <2>1, <2>2
<1>7. OrderInv'
  <2>1. Wanted' = Wanted /\ Index' = Index /\ \A i : PrioOf(i)' = PrioOf(i)
    BY <1>1 DEF Wanted, Index, PrioOf, Demods
  <2> QED BY <1>1, <1>6, <2>1 DEF DispatchInv, OrderInv, Running
<1> QED BY <1>2, <1>5, <1>7 DEF DispatchInv

\* A device has run.
LEMMA DoneStep ==
  ASSUME DispatchInv, DeviceDone
  PROVE  DispatchInv'
<1>1. /\ UNCHANGED <<devs, pkg, priority, nextPriority, events, won>>
      /\ phase = "slice" /\ phase' = "pass" /\ it' = it + 1 /\ ran' = ran \cup {it}
  BY DEF DeviceDone
<1>2. ListInv'
  BY <1>1 DEF DispatchInv, ListInv
<1>3. /\ it \in Nat /\ it < devs.len /\ Chosen(devs.elems[it]) /\ devs.len \in Nat
  BY <1>1 DEF DispatchInv, LoopInv, ListInv, Holds, ListType
<1>4. LoopInv'
  BY <1>1, <1>3 DEF DispatchInv, LoopInv, Running, Phases
<1>5. OrderInv'
  <2> SUFFICES ASSUME pkg.type # "code" PROVE OrderInv'
    BY <1>1 DEF OrderInv
  <2>1. Wanted' = Wanted /\ Index' = Index /\ \A i : PrioOf(i)' = PrioOf(i)
    BY <1>1 DEF Wanted, Index, PrioOf, Demods
  <2>2. it \in Index /\ PrioOf(it) = priority
    BY <1>3 DEF Chosen, Index, PrioOf
  <2>3. \A i \in Index : i \in Nat /\ (i < it + 1 <=> i < it \/ i = it)
    BY <1>3 DEF Index
  <2>4. \A i \in Wanted : i \in Index
    BY DEF Wanted
  <2>5. OrderInv /\ priority \in Nat
    BY DEF DispatchInv, LoopInv
  <2>6. \A i \in Wanted : PrioOf(i) = priority /\ i < it + 1 => i \in ran \cup {it}
    BY <1>1, <2>3, <2>4, <2>5 DEF OrderInv, Running
  <2>7. \A i \in ran \cup {it} : i \in Index /\
            (PrioOf(i) < priority \/ (PrioOf(i) = priority /\ i < it + 1))
    BY <1>1, <2>2, <2>3, <2>5 DEF OrderInv, Running
  <2>8. \A i \in Index : i < it + 1 /\ PrioOf(i) > priority => nextPriority <= PrioOf(i)
    BY <1>1, <2>2, <2>3, <2>5 DEF OrderInv, Running
  <2> QED BY <1>1, <2>1, <2>5, <2>6, <2>7, <2>8 DEF OrderInv, Running
<1> QED BY <1>2, <1>4, <1>5 DEF DispatchInv

\* Every step keeps the invariant.
LEMMA DispatchNext ==
  ASSUME DispatchInv, [Next]_vars
  PROVE  DispatchInv'
<1>1. CASE \E d \in OfferedTo(devs) \cap Protocols : Register(d) \/ Unregister(d)
  BY <1>1, ListSteps
<1>2. CASE UnregisterTurn \/ UnregisterDone
  BY <1>2, ListSteps
<1>3. CASE Receive \/ SkipDevice \/ RunDevice \/ NextPass \/ Finish \/ DeviceDone
  BY <1>3, ReceiveStep, SkipStep, RunStep, PassStep, FinishStep, DoneStep
<1>4. ASSUME NEW found \in BOOLEAN, NEW code \in Recodings \cup {"none"},
             Deliver(found, code)
      PROVE  DispatchInv'
  BY <1>4, DeliverStep
<1>5. CASE \/ Turn \/ (\E v \in {0, 1} : AddsBit(v)) \/ AddsRow \/ SkipsRow
           \/ AddsSync \/ (\E w \in 0..MaxRowBits : SetsWidth(w)) \/ Clears
           \/ NothingToDeliver
  BY <1>5, LoopsKept DEF Turn, AddsBit, AddsRow, SkipsRow, AddsSync, SetsWidth,
                         Clears, NothingToDeliver, Called
<1>6. CASE UNCHANGED vars
  BY <1>6, LoopsKept DEF vars
<1> QED BY <1>1, <1>2, <1>3, <1>4, <1>5, <1>6 DEF Next

\* The loops and the list are as described at any time.
THEOREM DispatchSafe == Spec => []DispatchInv
  BY DispatchInit, DispatchNext, PTL DEF Spec

\* The list of devices is terminated inside its array at any time.
THEOREM ListTerminated == Spec => []DevicesListed
<1>1. DispatchInv => DevicesListed
  BY DEF DispatchInv, ListInv, Holds, DevicesListed
<1> QED BY <1>1, DispatchSafe, PTL

\* A decoder runs once, after all of lower priority and only if they found
\* nothing.
THEOREM InOrder == Spec => []LowerFirst
<1>1. DispatchInv => LowerFirst
  <2> SUFFICES ASSUME DispatchInv, phase = "slice", pkg.type # "code"
               PROVE  /\ it \notin ran
                      /\ \A i \in Wanted :
                            PrioOf(i) < PrioOf(it) => i \in ran /\ i \notin won
    BY DEF LowerFirst
  <2>1. /\ OrderInv /\ it \in Nat /\ it < devs.len /\ priority \in Nat
        /\ devs.len \in Nat /\ Chosen(devs.elems[it])
    BY DEF DispatchInv, LoopInv, ListInv, Holds, ListType
  <2>2. it \in Index /\ PrioOf(it) = priority
    BY <2>1 DEF Chosen, Index, PrioOf
  <2>3. it \notin ran
    BY <2>1, <2>2 DEF OrderInv, Running
  <2>4. ASSUME NEW i \in Wanted, PrioOf(i) < PrioOf(it) PROVE i \in ran /\ i \notin won
    BY <2>1, <2>2, <2>4 DEF OrderInv, Running
  <2> QED BY <2>3, <2>4
<1> QED BY <1>1, DispatchSafe, PTL

\* When the dispatch ends, whoever has not run had to give way to an event.
THEOREM AllHeard == Spec => []NonePassedOver
<1>1. DispatchInv => NonePassedOver
  <2> SUFFICES ASSUME DispatchInv, phase = "done", pkg.type # "code",
                      NEW i \in Wanted \ ran
               PROVE  \/ PrioOf(i) >= UINT_MAX
                      \/ \E w \in won : PrioOf(w) < PrioOf(i)
    BY DEF NonePassedOver
  <2>1. /\ OrderInv /\ it = devs.len /\ devs.len \in Nat /\ priority \in Nat
        /\ nextPriority \in Nat /\ nextPriority <= UINT_MAX /\ ~GoOn
        /\ (events = 0 <=> won = {})
    BY DEF DispatchInv, LoopInv, ListInv, Holds, ListType
  <2>2. i \in Index /\ i \in Nat /\ i < it /\ PrioOf(i) \in Nat
    <3>1. i \in Index
      BY DEF Wanted
    <3> QED BY <3>1, <2>1, PrioType DEF DispatchInv, Index
  <2>3. PrioOf(i) > priority
    <3>1. ~(PrioOf(i) < priority) /\ PrioOf(i) # priority
      BY <2>1, <2>2 DEF OrderInv, Running
    <3> QED BY <3>1, <2>1, <2>2
  <2>4. CASE events # 0
    <3>1. PICK w \in won : TRUE
      BY <2>1, <2>4
    <3>2. PrioOf(w) = priority
      BY <2>1 DEF OrderInv, Running
    <3> QED BY <3>1, <3>2, <2>3, <2>1, <2>2
  <2>5. CASE events = 0
    <3>1. ~(nextPriority < UINT_MAX)
      BY <2>1, <2>5 DEF GoOn
    <3>2. nextPriority <= PrioOf(i)
      BY <2>1, <2>2, <2>3 DEF OrderInv, Running
    <3> QED BY <3>1, <3>2, <2>1, <2>2, DecodeAssumption
  <2> QED BY <2>4, <2>5
<1> QED BY <1>1, DispatchSafe, PTL

-----------------------------------------------------------------------------
(* The calls of a slicer.                                                   *)

OpNames == {"bit", "row", "rowIfData", "rowIfRows", "sync", "width", "clear"} \cup Ends

Calls == [op : OpNames, v : Int]

\* A test code ends with a delivery whatever is there; no slicer sets a width,
\* and those that clear do so after each delivery.
CodeCalls == {c \in Calls : c.op \notin {"endData", "endRows"}}
SlicerCalls(kind) ==
    {c \in Calls : c.op # "width" /\ (kind \in ClearingKinds /\ c.op \in Ends => c.v = 1)}

\* The last call but k is a delivery.
Closed(ops, k) == Len(ops) > k /\ ops[Len(ops) - k].op \in Ends

\* The calls of the slicers are such calls.
LEMMA CallTypes ==
  ASSUME NEW kind
  PROVE  LET C == SlicerCalls(kind)
         IN  /\ \A v \in Int : Bit(v) \in C
             /\ Row \in C /\ RowIfData \in C /\ Do("sync", 0) \in C
             /\ Do("clear", 0) \in C
             /\ Do("endData", 1) \in C /\ Do("endRows", 1) \in C
             /\ kind \notin ClearingKinds => Do("endRows", 0) \in C /\ Do("end", 0) \in C
  BY DEF SlicerCalls, Calls, OpNames, Ends, Bit, Row, RowIfData, Do

\* Sequences of one and two calls, and of none or some.
LEMMA FewCalls ==
  ASSUME NEW C, NEW a \in C, NEW b \in C
  PROVE  /\ << >> \in Seq(C)
         /\ <<a>> \in Seq(C) /\ Len(<<a>>) = 1 /\ <<a>>[1] = a
         /\ <<a, b>> \in Seq(C) /\ Len(<<a, b>>) = 2
         /\ <<a, b>>[1] = a /\ <<a, b>>[2] = b
  OBVIOUS

\* Calls that may be made.
LEMMA WhenSeq ==
  ASSUME NEW C, NEW cond, NEW s \in Seq(C)
  PROVE  When(cond, s) \in Seq(C)
  BY EmptySeq DEF When

\* A call made any number of times.
LEMMA RepeatSeq ==
  ASSUME NEW C, NEW c \in C, NEW k \in Int
  PROVE  Repeat(k, c) \in Seq(C)
<1>1. CASE k >= 0
  <2>1. k \in Nat /\ [i \in 1..k |-> c] \in [1..k -> C]
    BY <1>1
  <2> QED BY <2>1, SeqDef DEF Repeat
<1>2. CASE k < 0
  <2>1. 1..k = 1..0
    BY <1>2
  <2>2. [i \in 1..0 |-> c] \in [1..0 -> C]
    OBVIOUS
  <2> QED BY <2>1, <2>2, SeqDef DEF Repeat
<1> QED BY <1>1, <1>2

\* Calls that end with a delivery, or with one and a call after it.
LEMMA ClosedBy ==
  ASSUME NEW C, NEW s \in Seq(C), NEW e \in C, NEW f \in C, e.op \in Ends
  PROVE  Closed(s \o <<e>>, 0) /\ Closed(s \o <<e, f>>, 1)
<1>1. /\ Len(s \o <<e>>) = Len(s) + 1 /\ (s \o <<e>>)[Len(s) + 1] = e
      /\ Len(s \o <<e, f>>) = Len(s) + 2 /\ (s \o <<e, f>>)[Len(s) + 1] = e
      /\ Len(s) \in Nat
  BY FewCalls, ConcatProperties, LenProperties
<1> QED BY <1>1 DEF Closed

\* One slice of a device: its calls, and how they end behind the last pulse.
SliceType(s, kind) ==
    s.ops \in Seq(SlicerCalls(kind)) /\ s.n \in Nat \ {0} /\ s.t \in Int

Margin(kind) == IF kind = "MC" THEN 1 ELSE 0

SliceOk(s, kind, limit) ==
    SliceType(s, kind) /\ (s.n > limit => Closed(s.ops, Margin(kind)))

\* Calls, and a delivery behind them when the package ends.
LEMMA EndsSlice ==
  ASSUME NEW kind, kind # "MC", NEW ops \in Seq(SlicerCalls(kind)),
         NEW e \in SlicerCalls(kind), e.op \in Ends,
         NEW k \in Nat \ {0}, NEW limit \in Nat, NEW end \in BOOLEAN, k >= limit => end
  PROVE  SliceOk(To(ops \o When(end, <<e>>), k + 1, 0), kind, limit)
<1> DEFINE C == SlicerCalls(kind)
           q == ops \o When(end, <<e>>)
<1>1. When(end, <<e>>) \in Seq(C)
  BY FewCalls, WhenSeq
<1>2. q \in Seq(C)
  BY <1>1, ConcatProperties
<1>3. ASSUME k + 1 > limit PROVE Closed(q, 0)
  <2>1. When(end, <<e>>) = <<e>>
    BY <1>3 DEF When
  <2> QED BY <2>1, ClosedBy
<1> DEFINE s == To(q, k + 1, 0)
<1>4. s.ops = q /\ s.n = k + 1 /\ s.t = 0
  BY DEF To
<1> HIDE DEF q, s
<1>5. SliceOk(s, kind, limit)
  BY <1>2, <1>3, <1>4 DEF SliceOk, SliceType, Margin
<1> QED BY <1>5 DEF s, q

\* A pulse and its gap as numbers.
LEMMA PulseTypes ==
  ASSUME NEW tr \in Seq(Pulses), NEW k \in 1..Len(tr)
  PROVE  tr[k].p \in Nat /\ tr[k].g \in Nat /\ Len(tr) \in Nat
<1>1. tr[k] \in Pulses /\ Len(tr) \in Nat
  BY ElementOfSeq, LenProperties
<1> QED BY <1>1 DEF Pulses

\* The widths of a device as numbers.
LEMMA DeviceTypes ==
  ASSUME NEW d, Timed(d)
  PROVE  /\ d.short \in Nat /\ d.long \in Nat /\ d.reset \in Nat /\ d.gap \in Nat
         /\ d.sync \in Nat /\ d.tol \in Nat /\ GapLimit(d) \in Nat
  BY DEF Timed, GapLimit

\* The number of widths in a time.
LEMMA RoundType ==
  ASSUME NEW x \in Int, NEW w \in Nat \ {0}
  PROVE  Round(x, w) \in Int
<1>1. 2 * x + w \in Int /\ 2 * w \in Nat /\ 2 * w > 0
  OBVIOUS
<1> QED BY <1>1 DEF Round

-----------------------------------------------------------------------------
(* The bit width that pulse_slicer_pcm() measures over a package.           *)

\* m holds what has been measured behind the first 0 to c pulses.
IsMeasure(m, d, tr, c) ==
    m = [k \in 0..c |-> IF k = 0 THEN Unmeasured ELSE Behind(d, tr[k], m[k - 1])]

\* There are such functions, for any number of pulses.
LEMMA MeasuresExist ==
  ASSUME NEW d, NEW tr
  PROVE  \A c \in Nat : \E m : IsMeasure(m, d, tr, c)
<1> DEFINE S == {c \in Nat : \E m : IsMeasure(m, d, tr, c)}
           Next1(k, q) == Behind(d, tr[k], q)
<1>1. 0 \in S
  <2> DEFINE m == [k \in 0..0 |-> Unmeasured]
  <2>1. m = [k \in 0..0 |-> IF k = 0 THEN Unmeasured ELSE Next1(k, m[k - 1])]
    OBVIOUS
  <2> QED BY <2>1 DEF IsMeasure
<1>2. ASSUME NEW c \in S, c \in Nat PROVE c + 1 \in S
  <2>1. PICK m : m = [k \in 0..c |-> IF k = 0 THEN Unmeasured ELSE Next1(k, m[k - 1])]
    BY DEF IsMeasure
  <2> HIDE DEF Next1
  <2> DEFINE g == [k \in 0..c + 1 |-> IF k = c + 1 THEN Next1(c + 1, m[c]) ELSE m[k]]
             Body(k) == IF k = 0 THEN Unmeasured ELSE Next1(k, g[k - 1])
  <2>2. ASSUME NEW k \in 0..c + 1 PROVE g[k] = Body(k)
    <3>1. CASE k = 0
      BY <2>1, <3>1
    <3>2. CASE k # 0 /\ k # c + 1
      <4>1. k \in 0..c /\ k - 1 \in 0..c /\ k - 1 # c + 1 /\ k - 1 \in 0..c + 1
        BY <3>2
      <4>2. m[k] = Next1(k, m[k - 1])
        BY <2>1, <3>2, <4>1
      <4> QED BY <3>2, <4>1, <4>2
    <3>3. CASE k = c + 1
      BY <3>3
    <3> QED BY <3>1, <3>2, <3>3
  <2>3. g = [k \in 0..c + 1 |-> Body(k)]
    <3> DEFINE h == [k \in 0..c + 1 |-> Body(k)]
    <3>1. \A k \in 0..c + 1 : h[k] = Body(k)
      OBVIOUS
    <3>2. g = [k \in 0..c + 1 |-> g[k]]
      OBVIOUS
    <3> HIDE DEF g, Body
    <3> QED BY <2>2, <3>2
  <2> HIDE DEF g
  <2>4. IsMeasure(g, d, tr, c + 1)
    BY <2>3 DEF IsMeasure, Next1
  <2> QED BY <2>4
<1>3. \A c \in Nat : c \in S
  <2> HIDE DEF S
  <2> QED BY <1>1, <1>2, Induction
<1> QED BY <1>3

\* What holds of no pulse, and with the pulses before of each, holds of all.
LEMMA MeasuredIn ==
  ASSUME NEW d, NEW tr \in Seq(Pulses), NEW S, Unmeasured \in S,
         \A k \in 1..Len(tr) : \A q \in S : Behind(d, tr[k], q) \in S
  PROVE  Measure(d, tr) \in S
<1> DEFINE c == Len(tr)
           m == CHOOSE f : IsMeasure(f, d, tr, c)
           T == {k \in Nat : k <= c => m[k] \in S}
<1>1. c \in Nat
  BY LenProperties
<1>2. IsMeasure(m, d, tr, c)
  BY <1>1, MeasuresExist
<1>3. Measure(d, tr) = m[c]
  BY DEF Measure, IsMeasure
<1> HIDE DEF m, c
<1>4. 0 \in T
  BY <1>1, <1>2 DEF IsMeasure
<1>5. ASSUME NEW k \in T, k \in Nat PROVE k + 1 \in T
  <2> SUFFICES ASSUME k + 1 <= c PROVE m[k + 1] \in S
    OBVIOUS
  <2>1. k + 1 \in 0..c /\ k + 1 \in 1..c /\ k + 1 # 0 /\ k + 1 - 1 = k /\ m[k] \in S
    BY <1>1
  <2>2. m[k + 1] = Behind(d, tr[k + 1], m[k])
    <3> DEFINE Step(j) == Behind(d, tr[j], m[j - 1])
    <3>1. \A j \in 0..c : m[j] = IF j = 0 THEN Unmeasured ELSE Step(j)
      BY <1>2 DEF IsMeasure
    <3> HIDE DEF Step
    <3>2. m[k + 1] = Step(k + 1)
      BY <2>1, <3>1
    <3> QED BY <2>1, <3>2 DEF Step
  <2> QED BY <2>1, <2>2 DEF c
<1>6. \A k \in Nat : k \in T
  <2> HIDE DEF T
  <2> QED BY <1>4, <1>5, Induction
<1> QED BY <1>1, <1>3, <1>6

\* The bit width of a package is in any set that holds the widths it is added
\* up from, or it is the nominal one.
LEMMA WidthIn ==
  ASSUME NEW d, NEW tr \in Seq(Pulses), NEW W, Width(0, 0, 0) \in W,
         \A v \in W : \A w \in W : Plus(v, w) \in W,
         \A k \in 1..Len(tr) :
            /\ SeenIn(d, tr[k]) \in W
            /\ \A b \in W : Toggle(d, tr[k], InForce(d, b)) => ToggleWidth(d, tr[k]) \in W
  PROVE  \E b \in W : BitWidth(d, tr) = InForce(d, b)
<1> DEFINE S == [best : W, run : W, any : W]
           q == Measure(d, tr)
<1>1. Unmeasured \in S
  BY DEF Unmeasured
<1>2. \A b \in W : \A r \in W : Longer(d, b, r) \in W
  BY DEF Longer
<1>3. ASSUME NEW k \in 1..Len(tr), NEW r \in S PROVE Behind(d, tr[k], r) \in S
  <2> DEFINE x == tr[k]
             on == Toggle(d, x, InForce(d, r.best))
             B == IF on THEN r.best ELSE Longer(d, r.best, r.run)
             R == IF on THEN Plus(r.run, ToggleWidth(d, x)) ELSE Width(0, 0, 0)
             A == Plus(r.any, SeenIn(d, x))
  <2>1. r.best \in W /\ r.run \in W /\ r.any \in W
    OBVIOUS
  <2>2. B \in W
    BY <1>2, <2>1
  <2>3. R \in W
    BY <2>1
  <2>4. A \in W
    BY <2>1
  <2>5. Behind(d, x, r) = [best |-> B, run |-> R, any |-> A]
    BY DEF Behind
  <2> HIDE DEF B, R, A
  <2> QED BY <2>2, <2>3, <2>4, <2>5
<1>4. q \in S
  <2> HIDE DEF S
  <2> QED BY <1>1, <1>3, MeasuredIn
<1>5. q.best \in W /\ q.run \in W /\ q.any \in W
  BY <1>4
<1> DEFINE best == Longer(d, q.best, q.run)
           b == IF best.n = 0 /\ q.any.n > MinMeasured(d) THEN q.any ELSE best
<1>6. BitWidth(d, tr) = InForce(d, b)
  BY DEF BitWidth
<1> HIDE DEF q
<1>7. b \in W
  BY <1>2, <1>5
<1> QED BY <1>6, <1>7

\* Widths in samples: a pulse is no wider than with its gap.
Widths == {w \in [n : Nat, s : Nat, l : Nat] : w.s <= w.l}

\* A width has the parts it is made of.
LEMMA WidthType ==
  ASSUME NEW a \in Nat, NEW s \in Nat, NEW l \in Nat, s <= l
  PROVE  /\ Width(a, s, l) \in Widths
         /\ Width(a, s, l).n = a /\ Width(a, s, l).s = s /\ Width(a, s, l).l = l
  BY DEF Width, Widths

\* Widths add up part by part.
LEMMA PlusType ==
  ASSUME NEW v \in Widths, NEW w \in Widths
  PROVE  /\ Plus(v, w) \in Widths
         /\ Plus(v, w).n = v.n + w.n /\ Plus(v, w).s = v.s + w.s /\ Plus(v, w).l = v.l + w.l
<1>1. /\ v.n \in Nat /\ v.s \in Nat /\ v.l \in Nat /\ v.s <= v.l
      /\ w.n \in Nat /\ w.s \in Nat /\ w.l \in Nat /\ w.s <= w.l
  BY DEF Widths
<1>2. /\ v.n + w.n \in Nat /\ v.s + w.s \in Nat /\ v.l + w.l \in Nat
      /\ v.s + w.s <= v.l + w.l
  BY <1>1
<1> QED BY <1>2, WidthType DEF Plus

\* What a pulse or a gap alone adds to the bits seen anywhere is a width.
LEMMA SeenType ==
  ASSUME NEW d, NEW x \in Nat, NEW k \in Nat
  PROVE  Seen(d, x, k) \in Widths
  BY WidthType DEF Seen

\* What is added up from a pulse.
LEMMA PulseWidths ==
  ASSUME NEW d, NEW x \in Pulses
  PROVE  SeenIn(d, x) \in Widths /\ ToggleWidth(d, x) \in Widths
<1>1. x.p \in Nat /\ x.g \in Nat /\ x.p + x.g \in Nat /\ x.p <= x.p + x.g
  BY DEF Pulses
<1>2. ToggleWidth(d, x) \in Widths
  BY <1>1, WidthType DEF ToggleWidth
<1>3. /\ Seen(d, x.p, 1) \in Widths /\ Seen(d, x.p, 2) \in Widths
      /\ Seen(d, x.g, 1) \in Widths /\ Seen(d, x.g, 2) \in Widths
  BY <1>1, SeenType
<1>4. Width(0, 0, 0) \in Widths
  BY WidthType
<1> QED BY <1>2, <1>3, <1>4, PlusType DEF SeenIn

\* A width in force is no 0.
LEMMA InForceType ==
  ASSUME NEW d, d.short \in Nat \ {0}, d.long \in Nat \ {0}, NEW b \in Widths
  PROVE  LET w == InForce(d, b)
         IN  w.n \in Nat \ {0} /\ w.s \in Nat \ {0} /\ w.l \in Nat \ {0}
<1>1. b.n \in Nat /\ b.s \in Nat /\ b.l \in Nat /\ b.s <= b.l
  BY DEF Widths
<1>2. CASE b.n > 0 /\ b.s > 0
  BY <1>1, <1>2 DEF InForce
<1>3. CASE ~(b.n > 0 /\ b.s > 0)
  BY <1>3 DEF InForce, Width
<1> QED BY <1>2, <1>3

\* The width that slices a package is no 0, whatever the package.
LEMMA BitWidthType ==
  ASSUME NEW d, Timed(d), d.kind = "PCM", ~d.slow, NEW tr \in Seq(Pulses)
  PROVE  LET w == BitWidth(d, tr)
         IN  w.n \in Nat \ {0} /\ w.s \in Nat \ {0} /\ w.l \in Nat \ {0}
<1>1. \A k \in 1..Len(tr) :
            /\ SeenIn(d, tr[k]) \in Widths
            /\ \A b \in Widths : Toggle(d, tr[k], InForce(d, b)) => ToggleWidth(d, tr[k]) \in Widths
  <2>1. \A k \in 1..Len(tr) : tr[k] \in Pulses
    BY ElementOfSeq
  <2> QED BY <2>1, PulseWidths
<1>2. Width(0, 0, 0) \in Widths
  BY WidthType
<1>3. PICK b \in Widths : BitWidth(d, tr) = InForce(d, b)
  BY <1>1, <1>2, PlusType, WidthIn
<1>4. d.short \in Nat \ {0} /\ d.long \in Nat \ {0}
  BY DeviceTypes DEF Timed
<1> QED BY <1>3, <1>4, InForceType

\* The number of bits in a time.
LEMMA BitsInType ==
  ASSUME NEW x \in Int, NEW a \in Nat, NEW w \in Nat \ {0}
  PROVE  BitsIn(x, a, w) \in Int
<1> DEFINE y == x * a
<1>1. y \in Int
  OBVIOUS
<1> HIDE DEF y
<1>2. 2 * y + w \in Int /\ 2 * w \in Nat /\ 2 * w > 0
  BY <1>1
<1> QED BY <1>2 DEF BitsIn, y

-----------------------------------------------------------------------------
(* What one slice adds, slicer by slicer.                                   *)

\* pulse_slicer_pcm()
LEMMA PcmOk ==
  ASSUME NEW d, Timed(d), d.kind = "PCM", ~d.slow, NEW tr \in Seq(Pulses),
         NEW k \in 1..Len(tr)
  PROVE  SliceOk(Pcm(d, tr, k), "PCM", Len(tr))
<1> DEFINE C == SlicerCalls("PCM")
           x == tr[k]
           w == BitWidth(d, tr)
           highs == BitsIn(x.p, w.n, w.s)
           lows == BitsIn(x.g + d.short - d.long, w.n, w.l)
           max == GapLimit(d) \div d.long
           c == IF Corrupt(d, x) THEN <<Do("clear", 0)>>
                ELSE When(x.g > GapLimit(d) /\ x.g <= d.reset, <<Row>>)
<1>1. d.short \in Nat \ {0} /\ d.long \in Nat \ {0} /\ GapLimit(d) \in Nat
      /\ x.p \in Nat /\ x.g \in Nat
  BY DeviceTypes, PulseTypes DEF Timed
<1>2. highs \in Int /\ lows \in Int /\ max \in Int
  <2>1. x.p \in Int /\ x.g + d.short - d.long \in Int
    BY <1>1
  <2>2. highs \in Int /\ lows \in Int
    <3>1. w.n \in Nat /\ w.s \in Nat \ {0} /\ w.l \in Nat \ {0}
      BY BitWidthType
    <3> HIDE DEF x, w
    <3> QED BY <2>1, <3>1, BitsInType
  <2>3. max \in Int
    BY <1>1
  <2> QED BY <2>2, <2>3
<1>3. PcmBits(d, x, w) \in Seq(C)
  <2>1. Bit(0) \in C /\ Bit(1) \in C
    BY CallTypes
  <2>2. Repeat(highs, Bit(1)) \in Seq(C)
    <3> HIDE DEF highs
    <3> QED BY <1>2, <2>1, RepeatSeq
  <2>3. Repeat(IF lows > max THEN max ELSE lows, Bit(0)) \in Seq(C)
    <3> HIDE DEF lows, max
    <3> QED BY <1>2, <2>1, RepeatSeq
  <2>4. PcmBits(d, x, w) = Repeat(highs, Bit(1)) \o Repeat(IF lows > max THEN max ELSE lows, Bit(0))
    BY DEF PcmBits
  <2> HIDE DEF highs, lows, max
  <2> QED BY <2>2, <2>3, <2>4, ConcatProperties
<1>4. c \in Seq(C)
  <2>1. <<Do("clear", 0)>> \in Seq(C) /\ <<Row>> \in Seq(C)
    BY CallTypes, FewCalls
  <2> QED BY <2>1, WhenSeq
<1>5. PcmBits(d, x, w) \o c \in Seq(C)
  BY <1>3, <1>4, ConcatProperties
<1>6. k \in Nat \ {0} /\ Len(tr) \in Nat /\ (k >= Len(tr) => AtEnd(d, tr, k))
      /\ AtEnd(d, tr, k) \in BOOLEAN
  BY DEF AtEnd
<1>7. Do("endData", 1) \in C /\ Do("endData", 1).op \in Ends
  BY CallTypes DEF Do, Ends
<1> DEFINE ops == PcmBits(d, x, w) \o c
<1>8. Pcm(d, tr, k) = To(ops \o When(AtEnd(d, tr, k), <<Do("endData", 1)>>), k + 1, 0)
  BY DEF Pcm
<1> HIDE DEF ops
<1> QED BY <1>5, <1>6, <1>7, <1>8, EndsSlice DEF ops

\* pulse_slicer_ppm()
LEMMA PpmOk ==
  ASSUME NEW d, Timed(d), d.kind = "PPM", NEW tr \in Seq(Pulses), NEW k \in 1..Len(tr)
  PROVE  SliceOk(Ppm(d, tr, k), "PPM", Len(tr))
<1> DEFINE C == SlicerCalls("PPM")
           ops == PpmCall(d, tr[k].g)
           end == k = Len(tr) \/ tr[k].g >= d.reset
<1>1. Bit(0) \in C /\ Bit(1) \in C /\ Do("sync", 0) \in C /\ Row \in C
  BY CallTypes
<1>2. /\ <<Bit(0)>> \in Seq(C) /\ <<Bit(1)>> \in Seq(C) /\ <<Do("sync", 0)>> \in Seq(C)
      /\ <<Row>> \in Seq(C)
  BY <1>1, FewCalls
<1>3. ops \in Seq(C)
  BY <1>2, WhenSeq DEF PpmCall
<1>4. Do("endData", 1) \in C /\ Do("endData", 1).op \in Ends
  BY CallTypes DEF Do, Ends
<1>5. Ppm(d, tr, k) = To(ops \o When(end, <<Do("endData", 1)>>), k + 1, 0)
  BY DEF Ppm
<1>6. k \in Nat \ {0} /\ Len(tr) \in Nat /\ (k >= Len(tr) => end) /\ end \in BOOLEAN
  OBVIOUS
<1> HIDE DEF ops, end
<1> QED BY <1>3, <1>4, <1>5, <1>6, EndsSlice

\* pulse_slicer_pwm()
LEMMA PwmOk ==
  ASSUME NEW d, Timed(d), d.kind = "PWM", NEW tr \in Seq(Pulses), NEW k \in 1..Len(tr)
  PROVE  SliceOk(Pwm(d, tr, k), "PWM", Len(tr))
<1> DEFINE C == SlicerCalls("PWM")
           ops == PwmCall(d, tr[k].p)
           end == AtEnd(d, tr, k)
           gap == When(d.gap > 0 /\ tr[k].g > d.gap, <<RowIfData>>)
           s == Pwm(d, tr, k)
<1>1. /\ Bit(0) \in C /\ Bit(1) \in C /\ Do("sync", 0) \in C /\ Row \in C
      /\ RowIfData \in C
  BY CallTypes
<1>2. /\ <<Bit(0)>> \in Seq(C) /\ <<Bit(1)>> \in Seq(C) /\ <<Do("sync", 0)>> \in Seq(C)
      /\ <<Row>> \in Seq(C) /\ <<RowIfData>> \in Seq(C)
  BY <1>1, FewCalls
<1>3. ops \in Seq(C)
  BY <1>2, WhenSeq DEF PwmCall
<1>4. gap \in Seq(C)
  BY <1>2, WhenSeq
<1>5. Do("endRows", 1) \in C /\ Do("endRows", 1).op \in Ends
  BY CallTypes DEF Do, Ends
<1>6. k \in Nat \ {0} /\ Len(tr) \in Nat /\ (k >= Len(tr) => end) /\ end \in BOOLEAN
  BY DEF AtEnd
<1>7. CASE end
  <2>1. s = To(ops \o When(end, <<Do("endRows", 1)>>), k + 1, 0)
    BY <1>7 DEF Pwm, When
  <2> HIDE DEF ops, end, s
  <2> QED BY <1>3, <1>5, <1>6, <2>1, EndsSlice DEF s
<1>8. CASE ~end
  <2> DEFINE q == ops \o gap
  <2>1. s.ops = q /\ s.n = k + 1 /\ s.t = 0
    BY <1>8 DEF Pwm, To
  <2>2. q \in Seq(C)
    BY <1>3, <1>4, ConcatProperties
  <2>3. ~(k + 1 > Len(tr))
    BY <1>6, <1>8
  <2> HIDE DEF q, s
  <2> QED BY <1>6, <2>1, <2>2, <2>3 DEF SliceOk, SliceType, s
<1> QED BY <1>7, <1>8

\* pulse_slicer_manchester_zerobit()
LEMMA ManchesterOk ==
  ASSUME NEW d, Timed(d), d.kind = "MC", NEW tr \in Seq(Pulses), NEW k \in 1..Len(tr),
         NEW t \in Int
  PROVE  SliceOk(Manchester(d, tr, k, t), "MC", Len(tr))
<1> DEFINE C == SlicerCalls("MC")
           x == tr[k]
           f == Falling(d, x, t)
           end == AtEnd(d, tr, k)
           s == Manchester(d, tr, k, t)
<1>0. x.p \in Nat /\ x.g \in Nat /\ Len(tr) \in Nat /\ k \in Nat \ {0}
  BY PulseTypes
<1>1. Bit(0) \in C /\ Bit(1) \in C /\ Row \in C /\ Do("endRows", 1) \in C
  BY CallTypes
<1>2. /\ <<Bit(0)>> \in Seq(C) /\ <<Bit(1)>> \in Seq(C) /\ << >> \in Seq(C)
      /\ <<Row, Bit(0)>> \in Seq(C) /\ <<Do("endRows", 1), Bit(0)>> \in Seq(C)
  BY <1>1, FewCalls
<1>3. f.ops \in Seq(C) /\ f.t \in Int
  <2> HIDE DEF x
  <2> DEFINE w == When(DataEdge(d, x.p) /\ x.p <= 2 * d.short + d.tol, <<Bit(1)>>)
  <2>1. w \in Seq(C)
    BY <1>2, WhenSeq
  <2>2. CASE Invalid(d, x)
    <3>1. f = [ops |-> w \o <<Row, Bit(0)>>, t |-> 0]
      BY <2>2 DEF Falling
    <3> HIDE DEF w, f
    <3> QED BY <2>1, <3>1, <1>2, ConcatProperties
  <2>3. CASE ~Invalid(d, x) /\ DataEdge(d, x.p + t)
    BY <2>3, <1>2 DEF Falling
  <2>4. CASE ~Invalid(d, x) /\ ~DataEdge(d, x.p + t)
    BY <2>4, <1>0, <1>2 DEF Falling
  <2> QED BY <2>2, <2>3, <2>4
<1> HIDE DEF f
<1>4. CASE end
  <2> DEFINE q == f.ops \o <<Do("endRows", 1), Bit(0)>>
  <2>1. s.ops = q /\ s.n = k + 1 /\ s.t = 0
    BY <1>4 DEF Manchester, To, f
  <2>2. q \in Seq(C)
    BY <1>2, <1>3, ConcatProperties
  <2>3. Do("endRows", 1).op \in Ends
    BY DEF Do, Ends
  <2>4. Closed(q, 1)
    BY <1>1, <1>3, <2>3, ClosedBy
  <2> HIDE DEF q, s
  <2> QED BY <1>0, <2>1, <2>2, <2>4 DEF SliceOk, SliceType, Margin, s
<1>5. CASE ~end
  <2>1. ~(k + 1 > Len(tr))
    BY <1>0, <1>5 DEF AtEnd
  <2>2. CASE DataEdge(d, tr[k].g + f.t)
    <3> DEFINE q == f.ops \o <<Bit(0)>>
    <3>1. s.ops = q /\ s.n = k + 1 /\ s.t = 0
      BY <1>5, <2>2 DEF Manchester, To, f
    <3>2. q \in Seq(C)
      BY <1>2, <1>3, ConcatProperties
    <3> HIDE DEF q, s
    <3> QED BY <1>0, <2>1, <3>1, <3>2 DEF SliceOk, SliceType, s
  <2>3. CASE ~DataEdge(d, tr[k].g + f.t)
    <3>1. s.ops = f.ops /\ s.n = k + 1 /\ s.t = f.t + tr[k].g
      BY <1>5, <2>3 DEF Manchester, To, f
    <3> HIDE DEF s
    <3> QED BY <1>0, <1>3, <2>1, <3>1 DEF SliceOk, SliceType, s
  <2> QED BY <2>2, <2>3
<1> QED BY <1>4, <1>5

\* A symbol is a pulse or a gap.
LEMMA SymbolType ==
  ASSUME NEW tr \in Seq(Pulses), NEW k \in 1..Symbols(tr)
  PROVE  Symbol(tr, k) \in Nat /\ Symbols(tr) \in Nat
<1>1. Len(tr) \in Nat
  BY LenProperties
<1>2. CASE k % 2 = 1
  <2>1. (k + 1) \div 2 \in 1..Len(tr)
    BY <1>1, <1>2 DEF Symbols
  <2> QED BY <1>1, <1>2, <2>1, PulseTypes DEF Symbol, Symbols
<1>3. CASE k % 2 # 1
  <2>1. k \div 2 \in 1..Len(tr)
    BY <1>1, <1>3 DEF Symbols
  <2> QED BY <1>1, <1>3, <2>1, PulseTypes DEF Symbol, Symbols
<1> QED BY <1>2, <1>3

\* pulse_slicer_dmc(), which has no "No more pulses?"
LEMMA DmcType ==
  ASSUME NEW d, Timed(d), d.kind = "DMC", NEW tr \in Seq(Pulses),
         NEW k \in 1..Symbols(tr)
  PROVE  SliceType(Dmc(d, tr, k), "DMC")
<1> DEFINE C == SlicerCalls("DMC")
           h == SecondHalf(d, tr, k + 1)
           s == Dmc(d, tr, k)
           half == When(LongSilence(d, Symbol(tr, k)), <<Do("endRows", 0)>>)
<1>0. k \in Nat \ {0}
  BY LenProperties DEF Symbols
<1>1. Bit(0) \in C /\ Bit(1) \in C /\ RowIfData \in C /\ Do("endRows", 0) \in C
  BY CallTypes DEF ClearingKinds
<1>2. /\ <<Bit(0)>> \in Seq(C) /\ <<Bit(1)>> \in Seq(C) /\ <<RowIfData>> \in Seq(C)
      /\ <<Do("endRows", 0)>> \in Seq(C)
  BY <1>1, FewCalls
<1>3. h.ops \in Seq(C) /\ h.n \in Nat \ {0}
  <2>1. \A cond : When(cond, <<RowIfData>>) \in Seq(C)
    BY <1>2, WhenSeq
  <2>2. k + 1 \in Nat \ {0} /\ k + 1 + 1 \in Nat \ {0}
    BY <1>0
  <2> QED BY <2>1, <2>2 DEF SecondHalf, To
<1>4. half \in Seq(C)
  BY <1>2, WhenSeq
<1> HIDE DEF h, half
<1>5. \/ s = To(<<Bit(1)>> \o h.ops, h.n, 0) \/ s = To(<<Bit(0)>>, k + 1, 0)
      \/ s = To(half, k + 1, 0)
  BY DEF Dmc, h, half
<1>6. <<Bit(1)>> \o h.ops \in Seq(C)
  BY <1>2, <1>3, ConcatProperties
<1>7. k + 1 \in Nat \ {0}
  BY <1>0
<1> DEFINE q == <<Bit(1)>> \o h.ops
<1>8. \/ s = To(q, h.n, 0) \/ s = To(<<Bit(0)>>, k + 1, 0) \/ s = To(half, k + 1, 0)
  BY <1>5
<1>9. q \in Seq(C)
  BY <1>6
<1>10. \A ops \in Seq(C), m \in Nat \ {0} : SliceType(To(ops, m, 0), "DMC")
  BY DEF SliceType, To
<1> HIDE DEF q
<1> QED BY <1>2, <1>3, <1>4, <1>7, <1>8, <1>9, <1>10

\* The slicers of the other symbols end alike.
LEMMA SymbolsEndOk ==
  ASSUME NEW d, Timed(d), NEW kind \in {"PIWM_RAW", "PIWM_DC"}, NEW tr \in Seq(Pulses),
         NEW k \in 1..Symbols(tr), NEW ops \in Seq(SlicerCalls(kind))
  PROVE  SliceOk(To(ops \o SymbolsEnd(d, tr, k), k + 1, 0), kind, Symbols(tr))
<1> DEFINE end == k = Symbols(tr) \/ Symbol(tr, k) > d.reset
<1>1. k \in Nat \ {0} /\ Symbols(tr) \in Nat /\ (k >= Symbols(tr) => end) /\ end \in BOOLEAN
  BY SymbolType
<1>2. Do("endRows", 0) \in SlicerCalls(kind) /\ Do("endRows", 0).op \in Ends
  BY CallTypes DEF Do, Ends, ClearingKinds
<1>3. kind # "MC"
  OBVIOUS
<1>4. SymbolsEnd(d, tr, k) = When(end, <<Do("endRows", 0)>>)
  BY DEF SymbolsEnd
<1> HIDE DEF end
<1> QED BY <1>1, <1>2, <1>3, <1>4, EndsSlice

\* pulse_slicer_piwm_raw()
LEMMA PiwmRawOk ==
  ASSUME NEW d, Timed(d), d.kind = "PIWM_RAW", ~d.slow, NEW tr \in Seq(Pulses),
         NEW k \in 1..Symbols(tr)
  PROVE  SliceOk(PiwmRaw(d, tr, k), "PIWM_RAW", Symbols(tr))
<1> DEFINE C == SlicerCalls("PIWM_RAW")
           x == Symbol(tr, k)
           w == Round(x, d.short)
           ops == IF x > d.long THEN <<Row>>
                  ELSE IF Near(d, x, w * d.short) THEN Repeat(w, Bit(k % 2))
                  ELSE When(x < d.reset, <<RowIfData>>)
<1>1. w \in Int /\ k % 2 \in Int
  <2>1. x \in Int /\ d.short \in Nat \ {0}
    BY SymbolType DEF Timed
  <2>2. k \in Int
    BY SymbolType
  <2> HIDE DEF x
  <2> QED BY <2>1, <2>2, RoundType
<1>2. Bit(k % 2) \in C /\ Row \in C /\ RowIfData \in C
  BY <1>1, CallTypes
<1>3. <<Row>> \in Seq(C) /\ <<RowIfData>> \in Seq(C)
  BY <1>2, FewCalls
<1>4. Repeat(w, Bit(k % 2)) \in Seq(C)
  <2> HIDE DEF w
  <2> QED BY <1>1, <1>2, RepeatSeq
<1>5. ops \in Seq(C)
  BY <1>3, <1>4, WhenSeq
<1>6. PiwmRaw(d, tr, k) = To(ops \o SymbolsEnd(d, tr, k), k + 1, 0)
  BY DEF PiwmRaw
<1> HIDE DEF ops
<1> QED BY <1>5, <1>6, SymbolsEndOk

\* pulse_slicer_piwm_dc()
LEMMA PiwmDcOk ==
  ASSUME NEW d, Timed(d), d.kind = "PIWM_DC", NEW tr \in Seq(Pulses),
         NEW k \in 1..Symbols(tr)
  PROVE  SliceOk(PiwmDc(d, tr, k), "PIWM_DC", Symbols(tr))
<1> DEFINE C == SlicerCalls("PIWM_DC")
           x == Symbol(tr, k)
           ops == IF Near(d, x, d.short) THEN <<Bit(1)>>
                  ELSE IF Near(d, x, d.long) THEN <<Bit(0)>>
                  ELSE When(x < d.reset, <<RowIfData>>)
<1>1. Bit(0) \in C /\ Bit(1) \in C /\ RowIfData \in C
  BY CallTypes
<1>2. <<Bit(0)>> \in Seq(C) /\ <<Bit(1)>> \in Seq(C) /\ <<RowIfData>> \in Seq(C)
  BY <1>1, FewCalls
<1>3. ops \in Seq(C)
  BY <1>2, WhenSeq
<1>4. PiwmDc(d, tr, k) = To(ops \o SymbolsEnd(d, tr, k), k + 1, 0)
  BY DEF PiwmDc
<1> HIDE DEF ops
<1> QED BY <1>3, <1>4, SymbolsEndOk

\* pulse_slicer_nrzs()
LEMMA NrzsOk ==
  ASSUME NEW d, Timed(d), d.kind = "NRZS", ~d.slow, NEW tr \in Seq(Pulses),
         NEW k \in 1..Len(tr)
  PROVE  SliceOk(Nrzs(d, tr, k), "NRZS", Len(tr))
<1> DEFINE C == SlicerCalls("NRZS")
           p == tr[k].p
           ones == Repeat(p \div d.short, Bit(1))
           a == When(p > d.short, ones \o <<Bit(0)>>)
           b == When(p < d.short, <<Bit(0)>>)
           end == k = Len(tr) \/ tr[k].g >= d.reset
           ops == a \o b
<1>1. Bit(0) \in C /\ Bit(1) \in C
  BY CallTypes
<1>2. <<Bit(0)>> \in Seq(C)
  BY <1>1, FewCalls
<1>3. p \div d.short \in Int
  <2>1. p \in Nat /\ d.short \in Nat \ {0}
    BY PulseTypes DEF Timed
  <2> HIDE DEF p
  <2> QED BY <2>1
<1>4. ones \in Seq(C)
  BY <1>1, <1>3, RepeatSeq
<1>5. ones \o <<Bit(0)>> \in Seq(C)
  BY <1>2, <1>4, ConcatProperties
<1>6. a \in Seq(C) /\ b \in Seq(C)
  BY <1>2, <1>5, WhenSeq
<1>7. ops \in Seq(C)
  BY <1>6, ConcatProperties
<1>8. k \in Nat \ {0} /\ Len(tr) \in Nat /\ (k >= Len(tr) => end) /\ end \in BOOLEAN
  OBVIOUS
<1>9. Do("end", 0) \in C /\ Do("end", 0).op \in Ends
  BY CallTypes DEF Do, Ends, ClearingKinds
<1>10. Nrzs(d, tr, k) = To(ops \o When(end, <<Do("end", 0)>>), k + 1, 0)
  BY DEF Nrzs
<1> HIDE DEF ops, end
<1> QED BY <1>7, <1>8, <1>9, <1>10, EndsSlice

\* pulse_slicer_osv1()
LEMMA Osv1Ok ==
  ASSUME NEW d, Timed(d), d.kind = "OSV1", NEW tr \in Seq(Pulses), NEW k \in 1..Len(tr),
         NEW t \in Int
  PROVE  SliceOk(Osv1(d, tr, k, t), "OSV1", Len(tr))
<1> DEFINE C == SlicerCalls("OSV1")
           hs == Halves(d, tr[k].p, 1)
           ls == Halves(d, tr[k].g, 0)
           u == (t + Len(hs)) % 2
           s == Osv1(d, tr, k, t)
<1>1. Bit(0) \in C /\ Bit(1) \in C /\ Do("endRows", 0) \in C
      /\ Do("endRows", 0).op \in Ends
  BY CallTypes DEF Do, Ends, ClearingKinds
<1>2. ASSUME NEW w, NEW v \in {0, 1}
      PROVE  Halves(d, w, v) \in Seq(C) /\ Len(Halves(d, w, v)) \in Nat \ {0}
  <2> DEFINE a == <<Bit(v)>>
             b == When(w > HalfMax(d), <<Bit(v)>>)
  <2>1. Bit(v) \in C
    BY <1>1
  <2>2. a \in Seq(C) /\ Len(a) = 1 /\ b \in Seq(C) /\ Len(b) \in Nat
    BY <2>1, FewCalls, WhenSeq, LenProperties
  <2>3. Halves(d, w, v) = a \o b
    BY DEF Halves
  <2> HIDE DEF a, b
  <2>4. a \o b \in Seq(C) /\ Len(a \o b) = Len(a) + Len(b)
    BY <2>2, ConcatProperties
  <2> QED BY <2>2, <2>3, <2>4
<1>3. ASSUME NEW q \in Seq(C), Len(q) \in Nat \ {0}, NEW e \in Int
      PROVE  Clocked(e, q) \in Seq(C)
  <2>1. q[1] \in C /\ \A i \in 2..Len(q) : q[i] \in C
    BY <1>3, ElementOfSeq
  <2>2. <<q[1]>> \in Seq(C) /\ SubSeq(q, 2, Len(q)) \in Seq(C)
    BY <2>1, <1>3, SubSeqProperties
  <2> QED BY <2>2 DEF Clocked
<1>4. /\ hs \in Seq(C) /\ Len(hs) \in Nat \ {0}
      /\ ls \in Seq(C) /\ Len(ls) \in Nat \ {0}
  BY <1>2
<1> HIDE DEF hs, ls
<1>5. u \in Int /\ (u + Len(ls)) % 2 \in Int
  BY <1>4
<1> HIDE DEF u
<1>6. Clocked(t, hs) \in Seq(C) /\ Clocked(u, ls) \in Seq(C)
  BY <1>3, <1>4, <1>5
<1>7. k \in Nat \ {0} /\ Len(tr) \in Nat
  OBVIOUS
<1>8. CASE AtEnd(d, tr, k)
  <2> DEFINE q == Clocked(t, hs) \o <<Do("endRows", 0)>>
  <2>1. s.ops = q /\ s.n = Len(tr) + 1 /\ s.t = 0
    BY <1>8 DEF Osv1, To, hs
  <2>2. q \in Seq(C) /\ Closed(q, 0)
    <3>1. <<Do("endRows", 0)>> \in Seq(C)
      BY <1>1, FewCalls
    <3> QED BY <1>1, <1>6, <3>1, ConcatProperties, ClosedBy
  <2> HIDE DEF q, s
  <2> QED BY <1>7, <2>1, <2>2 DEF SliceOk, SliceType, Margin, s
<1>9. CASE ~AtEnd(d, tr, k)
  <2> DEFINE q == Clocked(t, hs) \o Clocked(u, ls)
  <2>1. s.ops = q /\ s.n = k + 1 /\ s.t = (u + Len(ls)) % 2
    BY <1>9 DEF Osv1, To, hs, ls, u
  <2>2. q \in Seq(C)
    BY <1>6, ConcatProperties
  <2>3. ~(k + 1 > Len(tr))
    BY <1>7, <1>9 DEF AtEnd
  <2> HIDE DEF q, s
  <2> QED BY <1>5, <1>7, <2>1, <2>2, <2>3 DEF SliceOk, SliceType, s
<1> QED BY <1>8, <1>9

\* Every slicer, at any of its pulses or symbols.
LEMMA SliceTypes ==
  ASSUME NEW d, Timed(d), d.kind \in Kinds, ~d.slow, NEW tr \in Seq(Pulses),
         NEW k \in 1..Limit(d, tr), NEW t \in Int
  PROVE  LET s == Slice(d, tr, k, t)
         IN  /\ SliceType(s, d.kind)
             /\ d.kind # "DMC" => SliceOk(s, d.kind, Limit(d, tr))
<1>1. \A s, kind, limit : SliceOk(s, kind, limit) => SliceType(s, kind)
  BY DEF SliceOk
<1>2. CASE d.kind \in SymbolKinds
  <2>1. Limit(d, tr) = Symbols(tr)
    BY <1>2 DEF Limit
  <2>2. CASE d.kind = "DMC"
    BY <2>1, <2>2, DmcType DEF Slice
  <2>3. CASE d.kind = "PIWM_RAW"
    BY <1>1, <2>1, <2>3, PiwmRawOk DEF Slice
  <2>4. CASE d.kind = "PIWM_DC"
    BY <1>1, <2>1, <2>4, PiwmDcOk DEF Slice
  <2> QED BY <1>2, <2>2, <2>3, <2>4 DEF SymbolKinds
<1>3. CASE d.kind \notin SymbolKinds
  <2>1. Limit(d, tr) = Len(tr) /\ k \in 1..Len(tr)
    BY <1>3 DEF Limit
  <2>2. CASE d.kind = "PCM"
    BY <1>1, <2>1, <2>2, PcmOk DEF Slice
  <2>3. CASE d.kind = "PPM"
    BY <1>1, <2>1, <2>3, PpmOk DEF Slice
  <2>4. CASE d.kind = "PWM"
    BY <1>1, <2>1, <2>4, PwmOk DEF Slice
  <2>5. CASE d.kind = "MC"
    BY <1>1, <2>1, <2>5, ManchesterOk DEF Slice
  <2>6. CASE d.kind = "NRZS"
    BY <1>1, <2>1, <2>6, NrzsOk DEF Slice
  <2>7. CASE d.kind = "OSV1"
    BY <1>1, <2>1, <2>7, Osv1Ok DEF Slice
  <2> QED BY <1>3, <2>2, <2>3, <2>4, <2>5, <2>6, <2>7 DEF Kinds, ClearingKinds
<1> QED BY <1>2, <1>3

\* What precedes the loop of a slicer. If there is no pulse to slice, nothing
\* has been added, but for the 0 that Manchester begins with.
LEMMA StartTypes ==
  ASSUME NEW d, Timed(d), d.kind \in Kinds, NEW tr \in Seq(Pulses)
  PROVE  LET s == Start(d, tr)
         IN  /\ SliceType(s, d.kind)
             /\ d.slow => s.n > Limit(d, tr)
             /\ s.n > Limit(d, tr)
                  /\ ~(d.kind = "OSV1" /\ Len(tr) = OsvPreamble + 1)
                => Len(s.ops) <= Margin(d.kind)
<1> DEFINE C == SlicerCalls(d.kind)
           s == Start(d, tr)
<1>1. Len(tr) \in Nat /\ Symbols(tr) \in Nat /\ Limit(d, tr) \in Nat
      /\ Limit(d, tr) <= Symbols(tr)
  BY LenProperties DEF Limit, Symbols
<1>2. Bit(0) \in C
  BY CallTypes
<1>3. << >> \in Seq(C) /\ <<Bit(0)>> \in Seq(C) /\ Len(<< >>) = 0 /\ Len(<<Bit(0)>>) = 1
  BY <1>2, FewCalls
<1>4. CASE d.slow
  <2>1. s.ops = << >> /\ s.n = Symbols(tr) + 1 /\ s.t = 0
    BY <1>4 DEF Start, To
  <2> HIDE DEF s
  <2> QED BY <1>1, <1>3, <2>1 DEF SliceType, Margin, s
<1>5. CASE ~d.slow /\ d.kind = "OSV1"
  <2>0. Limit(d, tr) = Len(tr)
    BY <1>5 DEF Limit, SymbolKinds
  <2>1. CASE ~HasSync(d, tr)
    <3>1. s.ops = << >> /\ s.n = Len(tr) + 1 /\ s.t = 0
      BY <1>5, <2>1 DEF Start, OsvStart, To
    <3> HIDE DEF s
    <3> QED BY <1>1, <1>3, <1>5, <2>0, <3>1 DEF SliceType, Margin, s
  <2>2. CASE HasSync(d, tr)
    <3>1. OsvPreamble < Len(tr) /\ OsvPreamble \in Nat
      BY <2>2, SlicerAssumption DEF HasSync
    <3>2. /\ s.ops = <<Bit(0)>> \/ s.ops = << >>
          /\ s.n = OsvPreamble + 2
          /\ s.t = 0 \/ s.t = 1
      BY <1>5, <2>2 DEF Start, OsvStart, To
    <3>3. s.n > Len(tr) => Len(tr) = OsvPreamble + 1
      BY <1>1, <3>1, <3>2
    <3>4. s.ops \in Seq(C)
      BY <1>3, <3>2
    <3>5. s.n \in Nat \ {0} /\ s.t \in Int
      BY <3>1, <3>2
    <3> HIDE DEF s
    <3> QED BY <1>5, <2>0, <3>3, <3>4, <3>5 DEF SliceType, s
  <2> QED BY <2>1, <2>2
<1>6. CASE ~d.slow /\ d.kind # "OSV1"
  <2>1. /\ s.ops = IF d.kind = "MC" THEN <<Bit(0)>> ELSE << >>
        /\ s.n = 1 /\ s.t = 0
    BY <1>6 DEF Start, To, When
  <2>2. s.ops \in Seq(C) /\ Len(s.ops) <= Margin(d.kind)
    <3>1. CASE d.kind = "MC"
      <4>1. s.ops = <<Bit(0)>>
        BY <2>1, <3>1
      <4> HIDE DEF s
      <4> QED BY <1>3, <3>1, <4>1 DEF Margin
    <3>2. CASE d.kind # "MC"
      <4>1. s.ops = << >>
        BY <2>1, <3>2
      <4> HIDE DEF s
      <4> QED BY <1>3, <3>2, <4>1 DEF Margin
    <3> QED BY <3>1, <3>2
  <2> HIDE DEF s
  <2> QED BY <1>6, <2>1, <2>2 DEF SliceType, s
<1> QED BY <1>4, <1>5, <1>6

\* A token of a test code.
LEMMA ParseTypes ==
  ASSUME NEW code \in Seq(CodeTokens), NEW k \in 1..Len(code), NEW t \in Int
  PROVE  LET s == Parse(code, k, t)
         IN  /\ s.ops \in Seq(CodeCalls) /\ s.n \in Nat \ {0} /\ s.t \in Int
             /\ s.n > Len(code) => Closed(s.ops, 0)
<1> DEFINE C == CodeCalls
           x == code[k]
           ops == CASE x.op = "bits" -> [i \in 1..4 |-> Bit(x.bits[i])]
                    [] x.op = "/" -> SetTo(t) \o <<Row>>
                    [] x.op = "{" -> SetTo(t) \o <<Do("rowIfRows", 0)>>
           u == CASE x.op = "bits" -> t
                  [] x.op = "/" -> -1
                  [] x.op = "{" -> x.width
           s == Parse(code, k, t)
<1>0. k \in Nat \ {0} /\ Len(code) \in Nat /\ k <= Len(code)
  <2>1. Len(code) \in Nat
    BY LenProperties
  <2> QED BY <2>1
<1>1. \/ x.op = "bits" /\ x.bits \in [1..4 -> {0, 1}]
      \/ x.op = "/"
      \/ x.op = "{" /\ x.width \in Nat
  <2>1. x \in CodeTokens
    BY ElementOfSeq
  <2> HIDE DEF x
  <2> QED BY <2>1 DEF CodeTokens
<1>2. /\ \A v \in Int : Bit(v) \in C /\ Do("width", v) \in C
      /\ Row \in C /\ Do("rowIfRows", 0) \in C /\ Do("end", 0) \in C
      /\ Do("end", 0).op \in Ends
  BY DEF CodeCalls, Calls, OpNames, Ends, Bit, Row, Do
<1>3. \A v \in Int : SetTo(v) \in Seq(C)
  BY <1>2, FewCalls, WhenSeq DEF SetTo
<1>4. <<Row>> \in Seq(C) /\ <<Do("rowIfRows", 0)>> \in Seq(C) /\ <<Do("end", 0)>> \in Seq(C)
  BY <1>2, FewCalls
<1>5. ops \in Seq(C) /\ u \in Int
  <2> HIDE DEF x
  <2>1. CASE x.op = "bits" /\ x.bits \in [1..4 -> {0, 1}]
    <3>1. ops = [i \in 1..4 |-> Bit(x.bits[i])] /\ u = t
      BY <2>1
    <3>2. [i \in 1..4 |-> Bit(x.bits[i])] \in [1..4 -> C]
      BY <1>2, <2>1
    <3>3. [i \in 1..4 |-> Bit(x.bits[i])] \in Seq(C)
      BY <3>2, SeqDef
    <3> QED BY <3>1, <3>3
  <2>2. CASE x.op = "/"
    <3>1. ops = SetTo(t) \o <<Row>> /\ u = -1
      BY <2>2
    <3>2. SetTo(t) \o <<Row>> \in Seq(C)
      BY <1>3, <1>4, ConcatProperties
    <3> HIDE DEF ops, u
    <3> QED BY <3>1, <3>2
  <2>3. CASE x.op = "{" /\ x.width \in Nat
    <3>1. ops = SetTo(t) \o <<Do("rowIfRows", 0)>> /\ u = x.width
      BY <2>3
    <3>2. SetTo(t) \o <<Do("rowIfRows", 0)>> \in Seq(C)
      BY <1>3, <1>4, ConcatProperties
    <3>3. x.width \in Int
      <4> DEFINE v == x.width
      <4>1. v \in Nat
        BY <2>3
      <4> HIDE DEF v
      <4>2. v \in Int
        BY <4>1
      <4> QED BY <4>2 DEF v
    <3> HIDE DEF ops, u
    <3> QED BY <3>1, <3>2, <3>3
  <2> QED BY <1>1, <2>1, <2>2, <2>3 DEF x
<1> HIDE DEF ops, u
<1>6. CASE k = Len(code)
  <2> DEFINE p == ops \o SetTo(u)
             q == p \o <<Do("end", 0)>>
  <2>1. s.ops = q /\ s.n = k + 1 /\ s.t = -1
    BY <1>6 DEF Parse, To, ops, u
  <2>2. p \in Seq(C)
    BY <1>3, <1>5, ConcatProperties
  <2> HIDE DEF p
  <2>3. q \in Seq(C) /\ Closed(q, 0)
    BY <1>2, <1>4, <2>2, ConcatProperties, ClosedBy
  <2> HIDE DEF q, s
  <2> QED BY <1>0, <2>1, <2>3 DEF s
<1>7. CASE k # Len(code)
  <2>1. s.ops = ops /\ s.n = k + 1 /\ s.t = u
    BY <1>7 DEF Parse, To, ops, u
  <2>2. ~(k + 1 > Len(code))
    BY <1>0, <1>7
  <2> HIDE DEF s
  <2> QED BY <1>0, <1>5, <2>1, <2>2 DEF s
<1> QED BY <1>6, <1>7

-----------------------------------------------------------------------------
(* How many bits a buffer holds.                                            *)

SumOf(b) == SumBelow(b.width, b.rows)

\* The widths as numbers.
LEMMA WidthTypes ==
  ASSUME NEW b, Good(b)
  PROVE  /\ b.rows \in Nat /\ b.rows <= BITBUF_ROWS /\ BITBUF_ROWS \in Nat
         /\ \A r \in Rows : b.width[r] \in Nat
         /\ \A r \in 0..b.rows - 1 : r \in Rows
         /\ SumOf(b) \in Nat
<1>1. b.rows \in Nat /\ b.rows <= BITBUF_ROWS /\ BITBUF_ROWS \in Nat
  BY BufferAssumption DEF Good, Buffers
<1>2. \A r \in Rows : b.width[r] \in Nat
  BY DEF Good, Buffers
<1>3. \A r \in 0..b.rows - 1 : r \in Rows
  BY <1>1 DEF Rows
<1>4. \A k \in 0..b.rows : SumBelow(b.width, k) \in Nat
  BY <1>1, <1>2, <1>3, SumType
<1>5. b.rows \in 0..b.rows
  BY <1>1
<1> QED BY <1>1, <1>2, <1>3, <1>4, <1>5 DEF SumOf

\* The sum does not see a row that is begun.
LEMMA StartedSum ==
  ASSUME NEW b, Good(b)
  PROVE  SumOf(Started(b)) = SumOf(b)
<1>1. CASE b.rows = 0
  <2> DEFINE s == [b EXCEPT !.rows = 1, !.free = 1]
             a == b.width
  <2>1. s.rows = 1 /\ s.width = a /\ Started(b) = s
    BY <1>1 DEF Good, Buffers, Started
  <2>2. a[0] = 0
    <3>1. 0 \in Rows
      BY BufferAssumption DEF Rows
    <3> QED BY <1>1, <3>1 DEF Good, Fits
  <2>3. SumBelow(a, 0) = 0 /\ SumBelow(a, 0 + 1) = SumBelow(a, 0) + a[0]
    BY SumOfNone, SumNext
  <2> HIDE DEF s, a
  <2>4. SumBelow(a, 1) = 0
    BY <2>2, <2>3
  <2>5. SumOf(b) = SumBelow(a, 0)
    BY <1>1 DEF SumOf, a
  <2>6. SumOf(s) = SumBelow(a, 1)
    BY <2>1 DEF SumOf
  <2> QED BY <2>1, <2>3, <2>4, <2>5, <2>6
<1>2. CASE b.rows # 0
  BY <1>2 DEF Started
<1> QED BY <1>1, <1>2

\* An empty buffer holds none.
LEMMA ClearSum == SumOf(Clear) = 0
<1>1. Clear.rows = 0
  BY DEF Clear
<1> QED BY <1>1, SumOfNone DEF SumOf

\* A change of the width of the last row.
LEMMA LastRowSum ==
  ASSUME NEW b, Good(b), b.rows > 0, NEW w \in Nat, NEW q, q.rows = b.rows,
         q.width = [b.width EXCEPT ![Last(b)] = w]
  PROVE  SumOf(q) = SumOf(b) + (w - LastWidth(b))
<1> DEFINE l == Last(b)
           a == b.width
           c == q.width
           m == b.rows
           d == w - a[l]
<1>1. m \in Nat /\ l \in 0..m - 1 /\ (\A r \in 0..m - 1 : r \in Rows /\ a[r] \in Nat)
  BY WidthTypes DEF Last
<1>2. c[l] = w /\ \A r \in Rows : r # l => c[r] = a[r]
  BY <1>1 DEF Good, Buffers
<1> HIDE DEF l, a, c, m
<1>3. /\ d \in Int /\ c[l] = a[l] + d
      /\ \A r \in 0..m - 1 : a[r] \in Int
      /\ \A r \in 0..m - 1 : r # l => c[r] = a[r]
  BY <1>1, <1>2
<1>4. d = w - LastWidth(b)
  BY DEF l, a, LastWidth
<1> HIDE DEF d
<1>5. SumBelow(c, m) = SumBelow(a, m) + d
  BY <1>1, <1>3, SumChanged
<1> QED BY <1>4, <1>5 DEF SumOf, c, m, a

\* A bit adds at most one.
LEMMA AddBitSum ==
  ASSUME NEW b, Good(b), NEW v \in {0, 1}
  PROVE  SumOf(AddBit(b, v)) <= SumOf(b) + 1
<1> DEFINE s == Started(b)
           w == LastWidth(s) + 1
           q == Put(s, v)
<1>1. Good(s) /\ s.rows > 0 /\ SumOf(s) = SumOf(b) /\ SumOf(b) \in Nat
  BY StartedGood, StartedSum, WidthTypes
<1>2. CASE NoRoomFor(s)
  BY <1>1, <1>2 DEF AddBit
<1>3. CASE ~NoRoomFor(s)
  <2>1. AddBit(b, v) = q
    BY <1>3 DEF AddBit
  <2> HIDE DEF s
  <2>2. q.rows = s.rows /\ q.width = [s.width EXCEPT ![Last(s)] = w]
    BY <1>1 DEF Put, Good, Buffers, LastWidth
  <2>3. LastWidth(s) \in Nat /\ w \in Nat
    BY <1>1, LastInRows
  <2> HIDE DEF q
  <2>4. SumOf(q) = SumOf(s) + (w - LastWidth(s))
    <3> HIDE DEF w
    <3> QED BY <1>1, <2>2, <2>3, LastRowSum
  <2> QED BY <1>1, <2>1, <2>3, <2>4
<1> QED BY <1>2, <1>3

\* A row adds none; one that is refused empties the last.
LEMMA AddRowSum ==
  ASSUME NEW b, Good(b)
  PROVE  SumOf(AddRow(b)) <= SumOf(b)
<1> DEFINE s == Started(b)
           q == NewRow(s)
<1>1. Good(s) /\ s.rows > 0 /\ SumOf(s) = SumOf(b) /\ SumOf(b) \in Nat
  BY StartedGood, StartedSum, WidthTypes
<1>2. AddRow(b) = q
  BY DEF AddRow
<1> HIDE DEF s
<1>3. CASE s.free < BITBUF_ROWS
  <2> DEFINE a == s.width
             m == s.rows
             k == s.free + 1
  <2>1. q.rows = k /\ q.width = a
    BY <1>1, <1>3 DEF NewRow, Good, Buffers
  <2>2. m \in Nat /\ k \in Nat /\ m <= k /\ k <= BITBUF_ROWS
    BY <1>1, <1>3, BufferAssumption DEF Good, Fits, Buffers
  <2>3. \A r \in Rows : a[r] \in Nat /\ (r >= m => a[r] = 0)
    BY <1>1 DEF Good, Fits, Buffers
  <2>4. \A r \in 0..k - 1 : r \in Rows
    BY <2>2, BufferAssumption DEF Rows
  <2> HIDE DEF a, m, k, q
  <2>5. /\ m \in 0..k
        /\ \A r \in 0..k - 1 : a[r] \in Int
        /\ \A r \in m..k - 1 : a[r] = 0
    BY <2>2, <2>3, <2>4
  <2>6. SumBelow(a, k) = SumBelow(a, m)
    BY <2>2, <2>5, SumPadded
  <2>7. SumOf(q) = SumOf(s)
    BY <2>1, <2>6 DEF SumOf, a, m
  <2> QED BY <1>1, <1>2, <2>7
<1>4. CASE ~(s.free < BITBUF_ROWS)
  <2>1. q.rows = s.rows /\ q.width = [s.width EXCEPT ![Last(s)] = 0]
    BY <1>1, <1>4 DEF NewRow, Good, Buffers
  <2> HIDE DEF q
  <2>2. SumOf(q) = SumOf(s) + (0 - LastWidth(s))
    BY <1>1, <2>1, LastRowSum
  <2>3. LastWidth(s) \in Nat
    BY <1>1, LastInRows
  <2> QED BY <1>1, <1>2, <2>2, <2>3
<1> QED BY <1>3, <1>4

\* Nor does a sync add any.
LEMMA AddSyncSum ==
  ASSUME NEW b, Good(b)
  PROVE  SumOf(AddSync(b)) <= SumOf(b)
<1>1. SumOf(b) \in Nat
  BY WidthTypes
<1> QED BY <1>1, AddRowSum, StartedSum DEF AddSync

-----------------------------------------------------------------------------
(* A bit that has been added shows.                                         *)

Shows(b) == b.width[0] > 0 \/ b.rows > 1

\* There is a row then.
LEMMA ShowsRow ==
  ASSUME NEW b, Good(b), Shows(b)
  PROVE  b.rows > 0
<1>1. 0 \in Rows /\ b.rows \in Nat
  BY BufferAssumption DEF Rows, Good, Buffers
<1>2. b.rows = 0 => b.width[0] = 0
  BY <1>1 DEF Good, Fits
<1> QED BY <1>1, <1>2 DEF Shows

\* A bit shows once it is added, also when the row was full.
LEMMA AddBitShows ==
  ASSUME NEW b, Good(b), NEW v \in {0, 1}
  PROVE  Shows(AddBit(b, v))
<1> DEFINE s == Started(b)
           q == Put(s, v)
<1>1. Good(s) /\ s.rows > 0
  BY StartedGood
<1> HIDE DEF s
<1>2. Last(s) \in Rows /\ Last(s) \in Nat /\ s.rows = Last(s) + 1 /\ LastWidth(s) \in Nat
  BY <1>1, LastInRows
<1>3. CASE NoRoomFor(s)
  <2>1. LastWidth(s) > 0
    <3>1. UINT16_MAX > 0
      BY BufferAssumption
    <3> QED BY <1>2, <1>3, <3>1 DEF NoRoomFor, Spills
  <2>2. Shows(s)
    BY <1>2, <2>1 DEF Shows, LastWidth
  <2> QED BY <1>3, <2>2 DEF AddBit, s
<1>4. CASE ~NoRoomFor(s)
  <2>1. AddBit(b, v) = q
    BY <1>4 DEF AddBit, s
  <2>2. q.rows = s.rows /\ q.width[Last(s)] = LastWidth(s) + 1
    BY <1>1, <1>2 DEF Put, Good, Buffers, LastWidth
  <2> HIDE DEF q
  <2>3. Shows(q)
    BY <1>2, <2>2 DEF Shows
  <2> QED BY <2>1, <2>3
<1> QED BY <1>3, <1>4

\* A second row shows.
LEMMA AddRowShows ==
  ASSUME NEW b, Good(b), ~RowRefused(b)
  PROVE  Shows(AddRow(b))
<1> DEFINE s == Started(b)
           q == NewRow(s)
<1>1. Good(s) /\ s.rows > 0
  BY StartedGood
<1>2. AddRow(b) = q /\ s.free < BITBUF_ROWS
  <2>1. s.free \in Nat /\ BITBUF_ROWS \in Nat
    BY <1>1, LastInRows, BufferAssumption
  <2> QED BY <2>1 DEF AddRow, RowRefused
<1> HIDE DEF s
<1>3. s.free \in Nat /\ s.free >= 1
  BY <1>1, LastInRows
<1>4. q.rows = s.free + 1
  BY <1>1, <1>2 DEF NewRow, Good, Buffers
<1> HIDE DEF q
<1>5. Shows(q)
  BY <1>3, <1>4 DEF Shows
<1> QED BY <1>2, <1>5

\* A sync hides nothing.
LEMMA AddSyncShows ==
  ASSUME NEW b, Good(b), Shows(b), ~SyncRefused(b)
  PROVE  Shows(AddSync(b))
<1>1. Started(b) = b
  BY ShowsRow DEF Started
<1> QED BY <1>1, AddRowShows DEF AddSync, SyncRefused

-----------------------------------------------------------------------------
(* What a slicer has still to do.                                           *)

MayCall == IF pkg.type = "code" THEN CodeCalls ELSE SlicerCalls(Device.kind)

\* The packages, the indexes, and the calls that are left.
WorkInv ==
    /\ pkg = None \/ IsPackage(pkg)
    /\ phase \in Running => IsPackage(pkg)
    /\ n \in Nat \ {0} /\ mem \in Int /\ pend \in Nat
    /\ ran \subseteq 0..devs.len /\ won \subseteq 0..devs.len
    /\ phase = "slice" =>
        /\ todo \in Seq(MayCall)
        /\ pkg.type # "code" /\ Device.slow => n > Turns

\* A package is one or the other.
LEMMA PackageTypes ==
  ASSUME NEW k, IsPackage(k)
  PROVE  /\ k.type \in {"ook", "fsk", "code"}
         /\ k.type = "code" => k.tr \in Seq(CodeTokens)
         /\ k.type # "code" => k.tr \in Seq(Pulses)
         /\ Len(k.tr) \in Nat
<1>1. CASE k.type \in {"ook", "fsk"} /\ k.tr \in Seq(Pulses)
  BY <1>1, LenProperties
<1>2. CASE k.type = "code" /\ k.tr \in Seq(CodeTokens)
  BY <1>2, LenProperties
<1> QED BY <1>1, <1>2 DEF IsPackage

\* The device that runs.
LEMMA DeviceRuns ==
  ASSUME DispatchInv, phase = "slice" \/ (phase = "pass" /\ Device # NULL)
  PROVE  /\ Timed(Device) /\ Device.kind \in Kinds
         /\ it \in 0..devs.len
<1>1. it \in Nat /\ it <= devs.len /\ (phase = "slice" => it < devs.len)
  BY DEF DispatchInv, LoopInv
<1>2. devs.len \in Nat /\ it \in Index /\ Device = devs.elems[it]
  BY <1>1, AtEndOfList DEF DispatchInv
<1>3. Device \in Protocols
  BY <1>2 DEF DispatchInv, ListInv, Holds, Index
<1> QED BY <1>1, <1>2, <1>3, DecodeAssumption

\* The calls of a slicer, while the device and the package stay.
LEMMA WorkKept ==
  ASSUME WorkInv, UNCHANGED <<phase, pkg, devs, it, n, mem, ran>>,
         phase = "slice" => todo' \in Seq(MayCall),
         pend' \in Nat, won' \subseteq 0..devs.len
  PROVE  WorkInv'
<1>1. MayCall' = MayCall /\ Device' = Device /\ Turns' = Turns
  BY DEF MayCall, Device, Turns
<1> QED BY <1>1 DEF WorkInv, Running

\* One call is made.
LEMMA CalledStep ==
  ASSUME WorkInv, phase = "slice", todo # << >>, Called
  PROVE  /\ todo' = Tail(todo) /\ todo' \in Seq(MayCall)
         /\ UNCHANGED <<phase, devs, name, pkg, dispatch, n, mem, first>>
<1>1. todo \in Seq(MayCall)
  BY DEF WorkInv
<1>2. Tail(todo) \in Seq(MayCall)
  BY <1>1, HeadTailProperties
<1> QED BY <1>2 DEF Called

\* A call that is no delivery, or one with nothing to deliver.
CallStep ==
    \/ \E v \in {0, 1} : AddsBit(v)
    \/ \E w \in 0..MaxRowBits : SetsWidth(w)
    \/ AddsRow \/ SkipsRow \/ AddsSync \/ Clears
    \/ NothingToDeliver

\* Such a call is the first of those to be made.
LEMMA CallFacts ==
  ASSUME CallStep
  PROVE  /\ phase = "slice" /\ todo # << >> /\ Called
         /\ pend' = pend \/ pend' = pend + 1 \/ pend' = 0
  BY DEF CallStep, AddsBit, SetsWidth, AddsRow, SkipsRow, AddsSync, Clears,
         NothingToDeliver, RowDue, Calling

\* A call keeps what is known of the others.
LEMMA WorkCall ==
  ASSUME WorkInv, CallStep
  PROVE  WorkInv'
<1>1. /\ phase = "slice" /\ todo # << >> /\ Called
      /\ pend' = pend \/ pend' = pend + 1 \/ pend' = 0
  BY CallFacts
<1>2. /\ todo' \in Seq(MayCall)
      /\ UNCHANGED <<phase, devs, name, pkg, dispatch, n, mem, first>>
  BY <1>1, CalledStep
<1>3. pend \in Nat /\ won \subseteq 0..devs.len
  BY DEF WorkInv
<1>4. pend' \in Nat /\ won' \subseteq 0..devs.len
  BY <1>1, <1>2, <1>3 DEF dispatch
<1> QED BY <1>2, <1>4, WorkKept DEF dispatch

\* A delivery may put a call in front.
LEMMA WorkDeliver ==
  ASSUME DispatchInv, WorkInv, NEW found \in BOOLEAN, NEW code, Deliver(found, code)
  PROVE  WorkInv'
<1>1. /\ phase = "slice" /\ todo # << >>
      /\ UNCHANGED <<phase, devs, pkg, it, n, mem, ran>> /\ pend' = 0
      /\ won' = (IF found THEN won \cup {it} ELSE won)
      /\ todo' = AfterEnd(Head(todo))
  BY DEF Deliver, Delivers, Calling
<1>2. todo \in Seq(MayCall) /\ won \subseteq 0..devs.len
  BY <1>1 DEF WorkInv
<1>3. Tail(todo) \in Seq(MayCall)
  BY <1>1, <1>2, HeadTailProperties
<1>4. Do("clear", 0) \in MayCall
  BY DEF MayCall, CodeCalls, SlicerCalls, Calls, OpNames, Ends, Do
<1>5. <<Do("clear", 0)>> \in Seq(MayCall)
  BY <1>4, FewCalls
<1>6. When(Head(todo).v = 1, <<Do("clear", 0)>>) \in Seq(MayCall)
  BY <1>5, WhenSeq
<1>7. todo' \in Seq(MayCall)
  BY <1>1, <1>3, <1>6, ConcatProperties DEF AfterEnd
<1>8. it \in 0..devs.len
  BY <1>1, DeviceRuns
<1>9. won' \subseteq 0..devs.len
  BY <1>1, <1>2, <1>8
<1> QED BY <1>1, <1>7, <1>9, WorkKept

\* A turn of the loop makes a list of calls.
LEMMA WorkTurn ==
  ASSUME DispatchInv, WorkInv, Turn
  PROVE  /\ WorkInv'
         /\ UNCHANGED <<phase, devs, name, pkg, dispatch, pend, first, buffer>>
         /\ phase = "slice" /\ todo = << >>
         /\ n' > Turns /\ ~(pkg.type # "code" /\ Device.kind = "DMC")
              => Closed(todo', IF pkg.type = "code" THEN 0 ELSE Margin(Device.kind))
<1>1. /\ UNCHANGED <<phase, devs, name, pkg, dispatch, pend, first, buffer>>
      /\ phase = "slice" /\ todo = << >> /\ n <= Turns
      /\ n \in Nat \ {0} /\ mem \in Int /\ IsPackage(pkg)
  BY DEF Turn, WorkInv, Running
<1>2. CASE pkg.type = "code"
  <2> DEFINE s == Parse(pkg.tr, n, mem)
  <2>1. todo' = s.ops /\ n' = s.n /\ mem' = s.t
    BY <1>2 DEF Turn
  <2>2. pkg.tr \in Seq(CodeTokens) /\ Turns = Len(pkg.tr) /\ Len(pkg.tr) \in Nat
    BY <1>1, <1>2, PackageTypes DEF Turns
  <2>3. n \in 1..Len(pkg.tr)
    BY <1>1, <2>2
  <2>4. /\ s.ops \in Seq(CodeCalls) /\ s.n \in Nat \ {0} /\ s.t \in Int
        /\ s.n > Len(pkg.tr) => Closed(s.ops, 0)
    BY <1>1, <2>2, <2>3, ParseTypes
  <2> HIDE DEF s
  <2>5. MayCall' = CodeCalls
    BY <1>1, <1>2 DEF MayCall
  <2>6. WorkInv'
    BY <1>1, <1>2, <2>1, <2>4, <2>5 DEF WorkInv, Running, dispatch
  <2> QED BY <1>1, <1>2, <2>1, <2>2, <2>4, <2>6
<1>3. CASE pkg.type # "code"
  <2> DEFINE s == Slice(Device, pkg.tr, n, mem)
             d == Device
             limit == Limit(d, pkg.tr)
  <2>1. todo' = s.ops /\ n' = s.n /\ mem' = s.t
    BY <1>3 DEF Turn
  <2>2. pkg.tr \in Seq(Pulses) /\ Turns = limit
    BY <1>1, <1>3, PackageTypes DEF Turns
  <2>3. Timed(d) /\ d.kind \in Kinds
    BY <1>1, DeviceRuns
  <2>4. limit \in Nat
    BY <2>2, LenProperties DEF Limit, Symbols
  <2>5. n \in 1..limit
    BY <1>1, <2>2, <2>4
  <2>6. ~d.slow
    BY <1>1, <1>3, <2>2, <2>4 DEF WorkInv
  <2> HIDE DEF d
  <2>7. /\ SliceType(s, d.kind)
        /\ d.kind # "DMC" => SliceOk(s, d.kind, limit)
    BY <1>1, <2>2, <2>3, <2>5, <2>6, SliceTypes DEF d
  <2> HIDE DEF s
  <2>8. MayCall' = SlicerCalls(d.kind) /\ Device' = d
    BY <1>1, <1>3 DEF MayCall, Device, d, dispatch
  <2>9. WorkInv'
    BY <1>1, <1>3, <2>1, <2>6, <2>7, <2>8 DEF WorkInv, Running, dispatch, SliceType
  <2>10. s.n > limit /\ d.kind # "DMC" => Closed(s.ops, Margin(d.kind))
    BY <2>7 DEF SliceOk
  <2> QED BY <1>1, <1>3, <2>1, <2>2, <2>9, <2>10 DEF d
<1> QED BY <1>2, <1>3

IsMC == pkg.type # "code" /\ Device.kind = "MC"

\* What NothingLost does not say.
Spared ==
    /\ pkg.type # "code"
    /\ \/ Device.kind = "DMC"
       \/ Device.kind = "OSV1" /\ Len(pkg.tr) = OsvPreamble + 1

\* A device begins with the calls before its loop.
LEMMA WorkRun ==
  ASSUME DispatchInv, WorkInv, RunDevice
  PROVE  /\ WorkInv'
         /\ UNCHANGED <<devs, name, pkg, dispatch, buffer>>
         /\ phase = "pass" /\ phase' = "slice" /\ pend' = 0
         /\ n' > Turns /\ ~Spared => Len(todo') <= IF IsMC THEN 1 ELSE 0
<1> DEFINE d == Device
<1>1. /\ UNCHANGED <<devs, name, pkg, dispatch, buffer>>
      /\ phase = "pass" /\ phase' = "slice" /\ pend' = 0 /\ d # NULL
      /\ todo' = CodeStart(d).ops /\ n' = CodeStart(d).n /\ mem' = CodeStart(d).t
  BY DEF RunDevice
<1>2. IsPackage(pkg) /\ ran \subseteq 0..devs.len /\ won \subseteq 0..devs.len
  BY <1>1 DEF WorkInv, Running
<1>3. Timed(d) /\ d.kind \in Kinds
  BY <1>1, DeviceRuns
<1>4. Device' = d /\ Turns' = Turns /\ MayCall' = MayCall
  BY <1>1 DEF Device, Turns, MayCall, dispatch
<1>5. CASE pkg.type = "code"
  <2>1. CodeStart(d) = To(<< >>, 1, -1)
    BY <1>5 DEF CodeStart
  <2>2. todo' = << >> /\ n' = 1 /\ mem' = -1
    BY <1>1, <2>1 DEF To
  <2>3. todo' \in Seq(MayCall) /\ Len(todo') = 0
    BY <2>2
  <2>4. WorkInv'
    BY <1>1, <1>2, <1>4, <1>5, <2>2, <2>3 DEF WorkInv, Running, dispatch
  <2> QED BY <1>1, <1>5, <2>3, <2>4 DEF IsMC
<1>6. CASE pkg.type # "code"
  <2> DEFINE s == Start(d, pkg.tr)
  <2>1. todo' = s.ops /\ n' = s.n /\ mem' = s.t
    BY <1>1, <1>6 DEF CodeStart
  <2>2. pkg.tr \in Seq(Pulses) /\ Turns = Limit(d, pkg.tr) /\ MayCall = SlicerCalls(d.kind)
    BY <1>2, <1>6, PackageTypes DEF Turns, MayCall
  <2>3. /\ SliceType(s, d.kind)
        /\ d.slow => s.n > Limit(d, pkg.tr)
        /\ s.n > Limit(d, pkg.tr)
             /\ ~(d.kind = "OSV1" /\ Len(pkg.tr) = OsvPreamble + 1)
           => Len(s.ops) <= Margin(d.kind)
    <3> HIDE DEF d
    <3> QED BY <1>3, <2>2, StartTypes
  <2> HIDE DEF s
  <2>4. WorkInv'
    BY <1>1, <1>2, <1>4, <2>1, <2>2, <2>3 DEF WorkInv, Running, dispatch, SliceType
  <2>5. n' > Turns /\ ~Spared => Len(todo') <= IF IsMC THEN 1 ELSE 0
    BY <1>6, <2>1, <2>2, <2>3 DEF Spared, IsMC, Margin
  <2> QED BY <1>1, <2>4, <2>5
<1> QED BY <1>5, <1>6

\* The other steps leave the slicer alone.
LEMMA WorkElse ==
  ASSUME DispatchInv, WorkInv,
         \/ \E d \in OfferedTo(devs) \cap Protocols : Register(d) \/ Unregister(d)
         \/ UnregisterTurn \/ UnregisterDone \/ Receive
         \/ SkipDevice \/ NextPass \/ Finish \/ DeviceDone
  PROVE  WorkInv' /\ phase' # "slice" /\ UNCHANGED slicer
<1>1. CASE \/ \E d \in OfferedTo(devs) \cap Protocols : Register(d) \/ Unregister(d)
           \/ UnregisterTurn \/ UnregisterDone
  <2>1. /\ phase \notin Running /\ phase' \notin Running /\ phase' # "slice"
        /\ UNCHANGED <<pkg, slicer, ran, won>>
    BY <1>1 DEF Register, Unregister, UnregisterTurn, UnregisterDone, dispatch, Running
  <2>2. ran = {} /\ won = {}
    BY <2>1 DEF DispatchInv, LoopInv, Fresh
  <2>3. ran' \subseteq 0..devs'.len /\ won' \subseteq 0..devs'.len
    BY <2>1, <2>2
  <2> QED BY <2>1, <2>3 DEF WorkInv, slicer
<1>2. CASE Receive
  <2>1. /\ phase = "config" /\ phase' = "pass" /\ IsPackage(pkg')
        /\ UNCHANGED <<devs, slicer, ran, won>>
    BY <1>2 DEF Receive, dispatch
  <2> QED BY <2>1 DEF WorkInv, slicer
<1>3. CASE SkipDevice \/ NextPass \/ Finish
  <2>1. /\ phase = "pass" /\ phase' \in {"pass", "done"}
        /\ UNCHANGED <<pkg, devs, slicer, ran, won>>
    BY <1>3 DEF SkipDevice, NextPass, Finish, dispatch
  <2> QED BY <2>1 DEF WorkInv, slicer, Running
<1>4. CASE DeviceDone
  <2>1. /\ phase = "slice" /\ phase' = "pass"
        /\ UNCHANGED <<pkg, devs, slicer, won>> /\ ran' = ran \cup {it}
    BY <1>4 DEF DeviceDone
  <2>2. it \in 0..devs.len
    BY <2>1, DeviceRuns
  <2> QED BY <2>1, <2>2 DEF WorkInv, slicer, Running
<1> QED BY <1>1, <1>2, <1>3, <1>4

\* A step that changes nothing.
LEMMA WorkStutter ==
  ASSUME WorkInv, UNCHANGED vars
  PROVE  WorkInv'
  BY DEF WorkInv, vars, slicer, dispatch, Running, MayCall, Device, Turns

\* There is nothing to do at the start.
LEMMA WorkInit == Init => WorkInv
  BY DEF Init, WorkInv, Running

\* Every step is one of these.
LEMMA Steps ==
  ASSUME [Next]_vars
  PROVE  \/ CallStep
         \/ \E found \in BOOLEAN, code \in Recodings \cup {"none"} : Deliver(found, code)
         \/ Turn
         \/ RunDevice
         \/ \/ \E d \in OfferedTo(devs) \cap Protocols : Register(d) \/ Unregister(d)
            \/ UnregisterTurn \/ UnregisterDone \/ Receive
            \/ SkipDevice \/ NextPass \/ Finish \/ DeviceDone
         \/ UNCHANGED vars
  BY DEF Next, CallStep

\* Every step keeps the invariant.
LEMMA WorkNext ==
  ASSUME DispatchInv, WorkInv, [Next]_vars
  PROVE  WorkInv'
  BY Steps, WorkCall, WorkDeliver, WorkTurn, WorkRun, WorkElse, WorkStutter

\* The calls that are left are calls of the slicer that runs.
THEOREM WorkSafe == Spec => []WorkInv
<1>1. DispatchInv /\ WorkInv /\ [Next]_vars => WorkInv'
  BY WorkNext
<1> QED BY <1>1, WorkInit, DispatchSafe, PTL DEF Spec

\* Everything has its type, whatever devices are registered and whatever comes
\* in; no index of a loop is beyond the end of its list.
THEOREM TypeCorrect == Spec => []TypeOK
<1>1. BufferInv /\ DispatchInv /\ WorkInv => TypeOK
  <2> SUFFICES ASSUME BufferInv, DispatchInv, WorkInv PROVE TypeOK
    OBVIOUS
  <2>1. phase \in Phases /\ events \in Nat /\ it \in 0..devs.len
    <3>1. devs.len \in Nat
      BY DEF DispatchInv, ListInv, Holds, ListType
    <3> QED BY <3>1 DEF DispatchInv, LoopInv
  <2>2. priority \in 0..UINT_MAX - 1 /\ nextPriority \in 0..UINT_MAX
    BY DecodeAssumption DEF DispatchInv, LoopInv
  <2>3. pkg.type \in {"none", "ook", "fsk", "code"}
    BY PackageTypes DEF WorkInv, None
  <2>4. bits \in Buffers /\ refused \in BOOLEAN
    BY DEF BufferInv, Good
  <2> QED BY <2>1, <2>2, <2>3, <2>4 DEF TypeOK, WorkInv
<1> QED BY <1>1, Fills, BufferSafe, DispatchSafe, WorkSafe, PTL

-----------------------------------------------------------------------------
(* A bit is delivered once.                                                 *)

Clearing == pkg.type # "code" /\ Device.kind \in ClearingKinds

\* The buffer holds no bit that has been delivered, or is about to be cleared.
OnceInv ==
    /\ phase # "slice" => bits = Clear
    /\ phase = "slice" /\ Clearing => SumOf(bits) <= pend \/ Calling("clear")

\* A call adds no more to the buffer than to the count.
LEMMA OnceCall ==
  ASSUME BufferInv, WorkInv, OnceInv, CallStep
  PROVE  OnceInv'
<1>1. /\ phase = "slice" /\ phase' = "slice" /\ Clearing' = Clearing
      /\ Good(bits) /\ SumOf(bits) \in Nat /\ pend \in Nat
  <2>1. phase = "slice" /\ todo # << >> /\ Called
    BY CallFacts
  <2>2. UNCHANGED <<phase, devs, pkg, it>>
    BY <2>1, CalledStep DEF dispatch
  <2>3. Clearing' = Clearing
    BY <2>2 DEF Clearing, Device
  <2> QED BY <2>1, <2>2, <2>3, WidthTypes DEF BufferInv, WorkInv
<1> SUFFICES ASSUME Clearing PROVE SumOf(bits') <= pend'
  BY <1>1 DEF OnceInv, SumOf
<1>2. ~Calling("clear") => SumOf(bits) <= pend
  BY <1>1 DEF OnceInv
<1>3. ASSUME NEW v \in {0, 1}, AddsBit(v) PROVE SumOf(bits') <= pend'
  <2>1. ~Calling("clear") /\ bits' = AddBit(bits, v) /\ pend' = pend + 1
    BY <1>3 DEF AddsBit, CallAddBit, Calling
  <2>2. Good(AddBit(bits, v)) /\ SumOf(AddBit(bits, v)) <= SumOf(bits) + 1
    BY <1>1, AddBitGood, AddBitSum
  <2>3. SumOf(AddBit(bits, v)) \in Nat
    BY <2>2, WidthTypes
  <2> QED BY <1>1, <1>2, <2>1, <2>2, <2>3
<1>4. ASSUME NEW w \in 0..MaxRowBits, SetsWidth(w) PROVE FALSE
  <2>1. todo \in Seq(MayCall) /\ todo # << >> /\ Head(todo).op = "width"
    BY <1>1, <1>4 DEF WorkInv, SetsWidth, Calling
  <2>2. Head(todo) \in MayCall
    BY <2>1, HeadTailProperties
  <2> QED BY <2>1, <2>2 DEF MayCall, SlicerCalls, Clearing
<1>5. ASSUME AddsRow PROVE SumOf(bits') <= pend'
  <2>1. ~Calling("clear") /\ bits' = AddRow(bits) /\ pend' = pend
    BY <1>5 DEF AddsRow, RowDue, CallAddRow, Calling
  <2>2. SumOf(AddRow(bits)) <= SumOf(bits) /\ SumOf(AddRow(bits)) \in Nat
    BY <1>1, AddRowSum, AddRowGood, WidthTypes
  <2> QED BY <1>1, <1>2, <2>1, <2>2
<1>6. ASSUME AddsSync PROVE SumOf(bits') <= pend'
  <2>1. ~Calling("clear") /\ bits' = AddSync(bits) /\ pend' = pend
    BY <1>6 DEF AddsSync, CallAddSync, Calling
  <2>2. SumOf(AddSync(bits)) <= SumOf(bits) /\ SumOf(AddSync(bits)) \in Nat
    BY <1>1, AddSyncSum, AddSyncGood, WidthTypes
  <2> QED BY <1>1, <1>2, <2>1, <2>2
<1>7. ASSUME SkipsRow \/ NothingToDeliver PROVE SumOf(bits') <= pend'
  <2>1. ~Calling("clear") /\ bits' = bits /\ pend' = pend
    BY <1>7 DEF SkipsRow, NothingToDeliver, Calling, Ends, buffer
  <2> QED BY <1>2, <2>1
<1>8. ASSUME Clears PROVE SumOf(bits') <= pend'
  <2>1. bits' = Clear /\ pend' = 0
    BY <1>8 DEF Clears, CallClear
  <2> QED BY <2>1, ClearSum
<1> QED BY <1>3, <1>4, <1>5, <1>6, <1>7, <1>8 DEF CallStep

\* A delivery puts the clearing in front.
LEMMA OnceDeliver ==
  ASSUME WorkInv, NEW found \in BOOLEAN, NEW code, Deliver(found, code)
  PROVE  OnceInv'
<1>1. /\ phase = "slice" /\ phase' = "slice" /\ todo # << >>
      /\ Head(todo).op \in Ends /\ todo' = AfterEnd(Head(todo))
      /\ UNCHANGED <<devs, pkg, it>>
  BY DEF Deliver, Delivers, Calling, Ends
<1> SUFFICES ASSUME Clearing' PROVE Calling("clear")'
  BY <1>1 DEF OnceInv
<1>2. Clearing
  BY <1>1 DEF Clearing, Device
<1>3. Head(todo) \in MayCall /\ Tail(todo) \in Seq(MayCall)
  BY <1>1, HeadTailProperties DEF WorkInv
<1>4. Head(todo).v = 1
  BY <1>1, <1>2, <1>3 DEF MayCall, SlicerCalls, Clearing
<1>5. Do("clear", 0) \in MayCall
  BY DEF MayCall, CodeCalls, SlicerCalls, Calls, OpNames, Ends, Do
<1> DEFINE c == Do("clear", 0)
           s == Tail(todo)
           q == <<c>> \o s
<1>6. todo' = q
  BY <1>1, <1>4 DEF AfterEnd, When
<1>7. c.op = "clear"
  BY DEF Do
<1> HIDE DEF c, s
<1>8. q # << >> /\ Head(q) = c
  <2>1. s \in Seq(MayCall) /\ <<c>> \in Seq(MayCall) /\ Len(<<c>>) = 1 /\ <<c>>[1] = c
    BY <1>3, <1>5, FewCalls DEF c, s
  <2>2. q \in Seq(MayCall) /\ Len(q) = 1 + Len(s) /\ q[1] = c /\ Len(s) \in Nat
    BY <2>1, ConcatProperties, LenProperties
  <2> HIDE DEF q
  <2>3. q # << >>
    BY <2>2, EmptySeq
  <2> QED BY <2>2, <2>3
<1> QED BY <1>1, <1>6, <1>7, <1>8 DEF Calling

\* Every step keeps the invariant.
LEMMA OnceNext ==
  ASSUME BufferInv, DispatchInv, WorkInv, OnceInv, [Next]_vars
  PROVE  OnceInv'
<1>1. CASE CallStep
  BY <1>1, OnceCall
<1>2. CASE \E found \in BOOLEAN, code \in Recodings \cup {"none"} : Deliver(found, code)
  BY <1>2, OnceDeliver
<1>3. CASE Turn
  <2>1. /\ UNCHANGED <<phase, devs, pkg, it, pend, bits>> /\ phase = "slice"
        /\ todo = << >>
    BY <1>3, WorkTurn DEF dispatch, buffer
  <2>2. ~Calling("clear")
    BY <2>1 DEF Calling
  <2> QED BY <2>1, <2>2 DEF OnceInv, Clearing, Device, SumOf
<1>4. CASE RunDevice
  <2>1. UNCHANGED bits /\ phase = "pass" /\ phase' = "slice" /\ pend' = 0
    BY <1>4, WorkRun DEF buffer
  <2>2. bits' = Clear
    BY <2>1 DEF OnceInv
  <2> QED BY <2>1, <2>2, ClearSum DEF OnceInv, SumOf
<1>5. CASE \/ \E d \in OfferedTo(devs) \cap Protocols : Register(d) \/ Unregister(d)
           \/ UnregisterTurn \/ UnregisterDone \/ Receive
           \/ SkipDevice \/ NextPass \/ Finish
  <2>1. phase # "slice" /\ phase' # "slice" /\ UNCHANGED bits
    BY <1>5 DEF Register, Unregister, UnregisterTurn, UnregisterDone, Receive,
                SkipDevice, NextPass, Finish, buffer
  <2> QED BY <2>1 DEF OnceInv
<1>6. CASE DeviceDone
  BY <1>6 DEF DeviceDone, CallClear, OnceInv
<1>7. CASE UNCHANGED vars
  BY <1>7 DEF vars, buffer, slicer, dispatch, OnceInv, Clearing, Device, Calling, SumOf
<1> QED BY <1>1, <1>2, <1>3, <1>4, <1>5, <1>6, <1>7, Steps

\* A slicer that clears its buffer never delivers a bit again: what it delivers
\* is no more than what was added since the last delivery.
THEOREM NoBitTwice == Spec => []DeliveredOnce
<1>1. OnceInv => DeliveredOnce
  <2> SUFFICES ASSUME OnceInv, phase = "slice", Delivers, Clearing
               PROVE  SumWidths <= pend
    BY DEF DeliveredOnce, Clearing
  <2>1. ~Calling("clear")
    BY DEF Delivers, Calling
  <2> QED BY <2>1 DEF OnceInv, SumWidths, SumOf
<1>2. Init => OnceInv
  BY DEF Init, BufferInit, OnceInv
<1>3. BufferInv /\ DispatchInv /\ WorkInv /\ OnceInv /\ [Next]_vars => OnceInv'
  BY OnceNext
<1> QED BY <1>1, <1>2, <1>3, Fills, BufferSafe, DispatchSafe, WorkSafe, PTL DEF Spec

-----------------------------------------------------------------------------
(* No bit is left behind.                                                   *)

\* The bits that were added to the buffer show in its rows.
SeenInv ==
    phase = "slice" /\ pkg.type # "code" /\ ~refused /\ pend > 0 => Shows(bits)

\* Every step keeps the bits in sight.
LEMMA SeenNext ==
  ASSUME BufferInv, DispatchInv, WorkInv, SeenInv, [Next]_vars
  PROVE  SeenInv'
<1>0. Good(bits) /\ pend \in Nat
  BY DEF BufferInv, WorkInv
<1>1. CASE CallStep
  <2>1. phase = "slice" /\ todo # << >> /\ Called
    BY <1>1, CallFacts
  <2>2. UNCHANGED <<phase, pkg>> /\ todo \in Seq(MayCall)
    BY <2>1, CalledStep DEF WorkInv
  <2> SUFFICES ASSUME pkg.type # "code", ~refused', pend' > 0 PROVE Shows(bits')
    BY <2>2 DEF SeenInv, Shows
  <2>3. ~refused /\ pend > 0 => Shows(bits)
    BY <2>1 DEF SeenInv
  <2>4. ASSUME NEW v \in {0, 1}, AddsBit(v) PROVE Shows(bits')
    BY <1>0, <2>4, AddBitShows DEF AddsBit, CallAddBit
  <2>5. ASSUME NEW w \in 0..MaxRowBits, SetsWidth(w) PROVE FALSE
    <3>1. Head(todo).op = "width"
      BY <2>5 DEF SetsWidth, Calling
    <3>2. Head(todo) \in MayCall
      BY <2>1, <2>2, HeadTailProperties
    <3> QED BY <3>1, <3>2 DEF MayCall, SlicerCalls
  <2>6. ASSUME AddsRow PROVE Shows(bits')
    <3>1. bits' = AddRow(bits) /\ ~RowRefused(bits)
      BY <2>6 DEF AddsRow, CallAddRow
    <3> QED BY <1>0, <3>1, AddRowShows
  <2>7. ASSUME AddsSync PROVE Shows(bits')
    <3>1. bits' = AddSync(bits) /\ ~SyncRefused(bits) /\ ~refused /\ pend' = pend
      BY <2>7 DEF AddsSync, CallAddSync
    <3> QED BY <1>0, <2>3, <3>1, AddSyncShows
  <2>8. ASSUME SkipsRow \/ NothingToDeliver PROVE Shows(bits')
    BY <2>3, <2>8 DEF SkipsRow, NothingToDeliver, buffer
  <2>9. ASSUME Clears PROVE FALSE
    BY <2>9 DEF Clears
  <2> QED BY <1>1, <2>4, <2>5, <2>6, <2>7, <2>8, <2>9 DEF CallStep
<1>2. CASE \E found \in BOOLEAN, code \in Recodings \cup {"none"} : Deliver(found, code)
  BY <1>2 DEF Deliver, SeenInv
<1>3. CASE Turn
  BY <1>3, WorkTurn DEF SeenInv, buffer
<1>4. CASE RunDevice
  BY <1>4, WorkRun DEF SeenInv
<1>5. CASE \/ \E d \in OfferedTo(devs) \cap Protocols : Register(d) \/ Unregister(d)
           \/ UnregisterTurn \/ UnregisterDone \/ Receive
           \/ SkipDevice \/ NextPass \/ Finish \/ DeviceDone
  BY <1>5, WorkElse DEF SeenInv
<1>6. CASE UNCHANGED vars
  BY <1>6 DEF vars, buffer, slicer, SeenInv
<1> QED BY <1>1, <1>2, <1>3, <1>4, <1>5, <1>6, Steps

NoBits(ops, from, to) == \A j \in from..to : ops[j].op # "bit"

\* A delivery, and no bit behind it.
Due(ops, to) == \E i \in 1..to : ops[i].op \in Ends /\ NoBits(ops, i + 1, to)

\* Without the 0 that Manchester has prepared.
Ahead(ops, mc) == Len(ops) - (IF mc THEN 1 ELSE 0)

\* Nothing is left to deliver, or there was no room for it.
Settled == pend = 0 \/ refused

\* Behind the last pulse a delivery is due, or nothing is left to deliver.
EndInv ==
    phase = "slice" /\ n > Turns =>
        \/ Spared
        \/ Due(todo, Ahead(todo, IsMC))
        \/ Settled /\ NoBits(todo, 1, Ahead(todo, IsMC))
        \/ IsMC /\ todo = << >> /\ (pend <= 1 \/ refused)

\* Once a call is made, the others have moved up.
LEMMA TailAhead ==
  ASSUME NEW C, NEW s \in Seq(C), s # << >>, NEW mc \in BOOLEAN
  PROVE  /\ Ahead(s, mc) \in Int /\ Ahead(Tail(s), mc) = Ahead(s, mc) - 1
         /\ Head(s) = s[1]
         /\ \A i \in Nat \ {0} : NoBits(s, i + 1, Ahead(s, mc))
                             => NoBits(Tail(s), i, Ahead(Tail(s), mc))
         /\ Due(s, Ahead(s, mc)) =>
              \/ Due(Tail(s), Ahead(Tail(s), mc))
              \/ s[1].op \in Ends /\ NoBits(Tail(s), 1, Ahead(Tail(s), mc))
<1> DEFINE m == Ahead(s, mc)
           t == Tail(s)
           k == Ahead(t, mc)
<1>1. /\ Len(s) \in Nat /\ Len(t) = Len(s) - 1
      /\ \A i \in 1..Len(t) : t[i] = s[i + 1]
      /\ Head(s) = s[1]
  BY HeadTailProperties, LenProperties
<1>2. m \in Int /\ k = m - 1 /\ k <= Len(t)
  BY <1>1 DEF Ahead
<1> HIDE DEF m, t, k
<1>3. ASSUME NEW i \in Nat \ {0}, NoBits(s, i + 1, m) PROVE NoBits(t, i, k)
  <2> SUFFICES ASSUME NEW j \in i..k PROVE t[j].op # "bit"
    BY DEF NoBits
  <2>1. j \in 1..Len(t) /\ j + 1 \in i + 1..m
    BY <1>1, <1>2
  <2> QED BY <1>1, <1>3, <2>1 DEF NoBits
<1>4. ASSUME Due(s, m)
      PROVE  Due(t, k) \/ (s[1].op \in Ends /\ NoBits(t, 1, k))
  <2>1. PICK i \in 1..m : s[i].op \in Ends /\ NoBits(s, i + 1, m)
    BY <1>4 DEF Due
  <2>2. CASE i = 1
    <3>1. NoBits(t, 1, k)
      BY <1>3, <2>1, <2>2
    <3> QED BY <2>1, <2>2, <3>1
  <2>3. CASE i # 1
    <3> DEFINE h == i - 1
    <3>1. h \in Nat \ {0} /\ h \in 1..k /\ h \in 1..Len(t) /\ i = h + 1
      BY <1>1, <1>2, <2>3
    <3> HIDE DEF h
    <3>2. t[h].op \in Ends
      BY <1>1, <2>1, <3>1
    <3>3. NoBits(t, h + 1, k)
      <4>1. h + 1 \in Nat \ {0} /\ i + 1 = h + 1 + 1
        BY <3>1
      <4> QED BY <1>3, <2>1, <4>1
    <3> QED BY <3>1, <3>2, <3>3 DEF Due
  <2> QED BY <2>2, <2>3
<1> QED BY <1>1, <1>2, <1>3, <1>4 DEF m, t, k

\* A call put in front.
LEMMA FrontAhead ==
  ASSUME NEW C, NEW t \in Seq(C), NEW c \in C, c.op # "bit", NEW mc \in BOOLEAN
  PROVE  LET q == <<c>> \o t
         IN  /\ NoBits(t, 1, Ahead(t, mc)) => NoBits(q, 1, Ahead(q, mc))
             /\ Due(t, Ahead(t, mc)) => Due(q, Ahead(q, mc))
<1> DEFINE q == <<c>> \o t
           m == Ahead(t, mc)
           k == Ahead(q, mc)
<1>1. /\ Len(t) \in Nat /\ Len(q) = Len(t) + 1 /\ q[1] = c
      /\ \A i \in 1..Len(t) : q[i + 1] = t[i]
  <2>1. <<c>> \in Seq(C) /\ Len(<<c>>) = 1 /\ <<c>>[1] = c /\ Len(t) \in Nat
    BY FewCalls, LenProperties
  <2>2. /\ Len(q) = 1 + Len(t)
        /\ \A i \in 1..1 + Len(t) : q[i] = IF i <= 1 THEN <<c>>[i] ELSE t[i - 1]
    BY <2>1, ConcatProperties
  <2> HIDE DEF q
  <2>3. \A i \in 1..Len(t) : q[i + 1] = t[i]
    <3> SUFFICES ASSUME NEW i \in 1..Len(t) PROVE q[i + 1] = t[i]
      OBVIOUS
    <3>1. i + 1 \in 1..1 + Len(t) /\ ~(i + 1 <= 1) /\ i + 1 - 1 = i
      BY <2>1
    <3> QED BY <2>2, <3>1
  <2>4. q[1] = c
    BY <2>1, <2>2
  <2> QED BY <2>1, <2>2, <2>3, <2>4
<1>2. m \in Int /\ k = m + 1 /\ m <= Len(t)
  BY <1>1 DEF Ahead
<1> HIDE DEF q, m, k
<1>3. ASSUME NEW i \in Nat \ {0}, NoBits(t, i, m) PROVE NoBits(q, i + 1, k)
  <2> SUFFICES ASSUME NEW j \in i + 1..k PROVE q[j].op # "bit"
    BY DEF NoBits
  <2> DEFINE h == j - 1
  <2>1. h \in i..m /\ h \in 1..Len(t) /\ j = h + 1
    BY <1>2
  <2> HIDE DEF h
  <2> QED BY <1>1, <1>3, <2>1 DEF NoBits
<1>4. ASSUME NoBits(t, 1, m) PROVE NoBits(q, 1, k)
  <2>1. NoBits(q, 1 + 1, k)
    BY <1>3, <1>4
  <2> SUFFICES ASSUME NEW j \in 1..k PROVE q[j].op # "bit"
    BY DEF NoBits
  <2>2. j = 1 \/ j \in 1 + 1..k
    BY <1>2
  <2> QED BY <1>1, <2>1, <2>2 DEF NoBits
<1>5. ASSUME Due(t, m) PROVE Due(q, k)
  <2>1. PICK i \in 1..m : t[i].op \in Ends /\ NoBits(t, i + 1, m)
    BY <1>5 DEF Due
  <2>2. i + 1 \in 1..k /\ i \in 1..Len(t) /\ i + 1 \in Nat \ {0}
    BY <1>2
  <2>3. NoBits(q, i + 1 + 1, k)
    BY <1>3, <2>1, <2>2
  <2>4. q[i + 1].op \in Ends
    BY <1>1, <2>1, <2>2
  <2> QED BY <2>2, <2>3, <2>4 DEF Due
<1> QED BY <1>4, <1>5 DEF q, m, k

\* A delivery that is due is made, unless there is nothing to deliver.
LEMMA NothingThere ==
  ASSUME BufferInv, WorkInv, SeenInv, NothingToDeliver
  PROVE  Settled
<1> SUFFICES ASSUME pend > 0, ~refused PROVE FALSE
  BY DEF Settled, WorkInv
<1>1. PICK op \in Ends : Calling(op)
  BY DEF NothingToDeliver
<1>2. phase = "slice" /\ todo # << >> /\ Head(todo).op = op /\ ~Delivers
  BY <1>1 DEF Calling, NothingToDeliver
<1>3. CASE pkg.type = "code"
  <2>1. Head(todo) \in MayCall
    BY <1>2, HeadTailProperties DEF WorkInv
  <2>2. op = "end"
    BY <1>1, <1>2, <1>3, <2>1 DEF MayCall, CodeCalls, Ends
  <2> QED BY <1>1, <1>2, <2>2 DEF Delivers
<1>4. CASE pkg.type # "code"
  <2>1. Good(bits) /\ Shows(bits)
    BY <1>2, <1>4 DEF SeenInv, BufferInv
  <2>2. bits.rows > 0
    BY <2>1, ShowsRow
  <2> QED BY <1>1, <1>2, <2>1, <2>2 DEF Delivers, Ends, Shows, Accumulated
<1> QED BY <1>3, <1>4

\* A call brings the delivery nearer, and is no bit behind it.
LEMMA EndCall ==
  ASSUME BufferInv, WorkInv, SeenInv, EndInv, CallStep
  PROVE  EndInv'
<1> DEFINE m == Ahead(todo, IsMC)
<1>1. /\ phase = "slice" /\ todo # << >> /\ Called
      /\ pend' = pend \/ pend' = pend + 1 \/ pend' = 0
      /\ pend \in Nat
  BY CallFacts DEF WorkInv
<1>2. /\ todo' = Tail(todo) /\ todo \in Seq(MayCall)
      /\ UNCHANGED <<phase, devs, pkg, it, n>>
  BY <1>1, CalledStep DEF WorkInv, dispatch
<1>3. Turns' = Turns /\ IsMC' = IsMC /\ Spared' = Spared
  BY <1>2 DEF Turns, IsMC, Spared, Device
<1>4. IsMC \in BOOLEAN
  BY DEF IsMC
<1>5. /\ m \in Int /\ Ahead(Tail(todo), IsMC) = m - 1 /\ Head(todo) = todo[1]
      /\ NoBits(todo, 1 + 1, m) => NoBits(Tail(todo), 1, Ahead(Tail(todo), IsMC))
      /\ Due(todo, m) =>
           \/ Due(Tail(todo), Ahead(Tail(todo), IsMC))
           \/ todo[1].op \in Ends /\ NoBits(Tail(todo), 1, Ahead(Tail(todo), IsMC))
  BY <1>1, <1>2, <1>4, TailAhead
<1>6. pend' = 0 \/ (refused => refused')
  BY DEF CallStep, AddsBit, CallAddBit, SetsWidth, CallSetWidth, AddsRow, CallAddRow,
         SkipsRow, AddsSync, CallAddSync, Clears, NothingToDeliver, buffer
<1>7. Head(todo).op # "bit" => pend' = pend \/ pend' = 0
  BY DEF CallStep, AddsBit, SetsWidth, AddsRow, SkipsRow, AddsSync, Clears,
         NothingToDeliver, Calling
<1>8. Head(todo).op \in Ends => NothingToDeliver
  BY DEF CallStep, AddsBit, SetsWidth, AddsRow, SkipsRow, AddsSync, Clears,
         RowDue, Calling, Ends
<1> HIDE DEF m
<1> DEFINE k == Ahead(Tail(todo), IsMC)
<1> HIDE DEF k
<1> SUFFICES ASSUME n > Turns, ~Spared
             PROVE  \/ Due(Tail(todo), k)
                    \/ Settled' /\ NoBits(Tail(todo), 1, k)
                    \/ IsMC /\ Tail(todo) = << >> /\ (pend' <= 1 \/ refused')
  BY <1>2, <1>3 DEF EndInv, k
<1>9. CASE Due(todo, m)
  <2>1. CASE Due(Tail(todo), k)
    BY <2>1
  <2>2. CASE todo[1].op \in Ends /\ NoBits(Tail(todo), 1, k)
    <3>1. NothingToDeliver /\ Settled
      BY <1>5, <1>8, <2>2, NothingThere
    <3>2. Settled'
      BY <3>1 DEF NothingToDeliver, Settled, buffer
    <3> QED BY <2>2, <3>2
  <2> QED BY <1>5, <1>9, <2>1, <2>2 DEF k
<1>10. CASE Settled /\ NoBits(todo, 1, m)
  <2>1. NoBits(Tail(todo), 1, k)
    <3>1. \A j \in 1 + 1..m : j \in 1..m
      BY <1>5
    <3>2. NoBits(todo, 1 + 1, m)
      BY <1>10, <3>1 DEF NoBits
    <3> QED BY <1>5, <3>2 DEF k
  <2>2. CASE m >= 1
    <3>1. 1 \in 1..m
      BY <1>5, <2>2
    <3>2. Head(todo).op # "bit"
      BY <1>5, <1>10, <3>1 DEF NoBits
    <3>3. Settled'
      BY <1>6, <1>7, <1>10, <3>2 DEF Settled
    <3> QED BY <2>1, <3>3
  <2>3. CASE ~(m >= 1)
    <3>1. Len(todo) \in Nat /\ Len(todo) > 0 /\ Len(Tail(todo)) = Len(todo) - 1
          /\ Tail(todo) \in Seq(MayCall)
      BY <1>1, <1>2, EmptySeq, HeadTailProperties
    <3>2. IsMC /\ Len(todo) = 1
      BY <1>4, <2>3, <3>1 DEF m, Ahead
    <3>3. Tail(todo) = << >>
      <4>1. Len(Tail(todo)) = 0
        BY <3>1, <3>2
      <4> QED BY <3>1, <4>1, EmptySeq
    <3>4. pend' <= 1 \/ refused'
      BY <1>1, <1>6, <1>10 DEF Settled
    <3> QED BY <3>2, <3>3, <3>4
  <2> QED BY <2>2, <2>3
<1> QED BY <1>1, <1>9, <1>10 DEF EndInv, m

\* After a delivery nothing is left to deliver.
LEMMA EndDeliver ==
  ASSUME WorkInv, EndInv, NEW found \in BOOLEAN, NEW code, Deliver(found, code)
  PROVE  EndInv'
<1> DEFINE t == Tail(todo)
           c == Do("clear", 0)
           k == Ahead(t, IsMC)
           m == Ahead(todo, IsMC)
<1>1. /\ phase = "slice" /\ todo # << >> /\ pend' = 0
      /\ todo' = AfterEnd(Head(todo))
      /\ UNCHANGED <<phase, devs, pkg, it, n>>
  BY DEF Deliver, Delivers, Calling
<1>2. Turns' = Turns /\ IsMC' = IsMC /\ Spared' = Spared /\ IsMC \in BOOLEAN /\ Settled'
  BY <1>1 DEF Turns, IsMC, Spared, Device, Settled
<1>3. todo \in Seq(MayCall) /\ t \in Seq(MayCall)
  BY <1>1, HeadTailProperties DEF WorkInv
<1>4. c \in MayCall /\ c.op # "bit"
  BY DEF MayCall, CodeCalls, SlicerCalls, Calls, OpNames, Ends, Do
<1>5. todo' = t \/ todo' = <<c>> \o t
  <2>1. << >> \o t = t
    BY <1>3, ConcatEmptySeq
  <2> QED BY <1>1, <2>1 DEF AfterEnd, When
<1> SUFFICES ASSUME n > Turns, ~Spared
             PROVE  \/ Due(todo', Ahead(todo', IsMC))
                    \/ NoBits(todo', 1, Ahead(todo', IsMC))
  BY <1>1, <1>2 DEF EndInv
<1>6. Due(todo, m) \/ NoBits(todo, 1, m)
  BY <1>1 DEF EndInv
<1>7. Due(t, k) \/ NoBits(t, 1, k)
  <2>1. /\ m \in Int
        /\ NoBits(todo, 1 + 1, m) => NoBits(t, 1, k)
        /\ Due(todo, m) => Due(t, k) \/ NoBits(t, 1, k)
    BY <1>1, <1>2, <1>3, TailAhead
  <2> HIDE DEF m
  <2>2. \A j \in 1 + 1..m : j \in 1..m
    BY <2>1
  <2>3. NoBits(todo, 1, m) => NoBits(todo, 1 + 1, m)
    BY <2>2 DEF NoBits
  <2> QED BY <1>6, <2>1, <2>3
<1> HIDE DEF t, c
<1>8. CASE todo' = t
  BY <1>7, <1>8
<1>9. CASE todo' = <<c>> \o t
  BY <1>2, <1>3, <1>4, <1>7, <1>9, FrontAhead
<1> QED BY <1>5, <1>8, <1>9

\* The last turn ends with a delivery.
LEMMA EndTurn ==
  ASSUME DispatchInv, WorkInv, Turn
  PROVE  EndInv'
<1> DEFINE margin == IF IsMC THEN 1 ELSE 0
           i == Len(todo') - margin
<1>1. /\ UNCHANGED <<phase, devs, pkg, dispatch>> /\ phase = "slice"
      /\ n' > Turns /\ ~(pkg.type # "code" /\ Device.kind = "DMC")
            => Closed(todo', IF pkg.type = "code" THEN 0 ELSE Margin(Device.kind))
      /\ todo' \in Seq(MayCall')
  BY WorkTurn DEF WorkInv
<1>2. Turns' = Turns /\ IsMC' = IsMC /\ Spared' = Spared
  BY <1>1 DEF Turns, IsMC, Spared, Device, dispatch
<1> SUFFICES ASSUME n' > Turns, ~Spared PROVE Due(todo', Ahead(todo', IsMC))
  BY <1>2 DEF EndInv
<1>3. Closed(todo', margin)
  BY <1>1 DEF Spared, IsMC, Margin
<1>4. Len(todo') \in Nat
  BY <1>1, LenProperties
<1>5. margin \in {0, 1} /\ Ahead(todo', IsMC) = i
  BY DEF Ahead
<1> HIDE DEF margin
<1>6. i \in 1..i /\ todo'[i].op \in Ends /\ NoBits(todo', i + 1, i)
  BY <1>3, <1>4, <1>5 DEF Closed, NoBits
<1> QED BY <1>5, <1>6 DEF Due

\* Without a turn there was nothing to slice.
LEMMA EndRun ==
  ASSUME DispatchInv, WorkInv, RunDevice
  PROVE  EndInv'
<1>1. /\ UNCHANGED <<devs, pkg, dispatch>> /\ pend' = 0 /\ phase' = "slice"
      /\ n' > Turns /\ ~Spared => Len(todo') <= IF IsMC THEN 1 ELSE 0
      /\ todo' \in Seq(MayCall')
  BY WorkRun DEF WorkInv
<1>2. Turns' = Turns /\ IsMC' = IsMC /\ Spared' = Spared /\ Settled'
  BY <1>1 DEF Turns, IsMC, Spared, Device, dispatch, Settled
<1> SUFFICES ASSUME n' > Turns, ~Spared PROVE NoBits(todo', 1, Ahead(todo', IsMC))
  BY <1>2 DEF EndInv
<1>3. Len(todo') \in Nat
  BY <1>1, LenProperties
<1>4. Ahead(todo', IsMC) \in Int /\ Ahead(todo', IsMC) <= 0
  BY <1>1, <1>3 DEF Ahead
<1> QED BY <1>4 DEF NoBits

\* Every step keeps the invariant.
LEMMA EndNext ==
  ASSUME BufferInv, DispatchInv, WorkInv, SeenInv, EndInv, [Next]_vars
  PROVE  EndInv'
<1>1. CASE CallStep
  BY <1>1, EndCall
<1>2. CASE \E found \in BOOLEAN, code \in Recodings \cup {"none"} : Deliver(found, code)
  BY <1>2, EndDeliver
<1>3. CASE Turn \/ RunDevice
  BY <1>3, EndTurn, EndRun
<1>4. CASE \/ \E d \in OfferedTo(devs) \cap Protocols : Register(d) \/ Unregister(d)
           \/ UnregisterTurn \/ UnregisterDone \/ Receive
           \/ SkipDevice \/ NextPass \/ Finish \/ DeviceDone
  BY <1>4, WorkElse DEF EndInv
<1>5. CASE UNCHANGED vars
  BY <1>5 DEF vars, buffer, slicer, dispatch, EndInv, Turns, IsMC, Spared, Settled, Device
<1> QED BY <1>1, <1>2, <1>3, <1>4, <1>5, Steps

\* When a package ends, however it ends, every bit sliced from it has been
\* delivered.
THEOREM NoBitLost == Spec => []NothingLost
<1>1. WorkInv /\ EndInv => NothingLost
  <2> SUFFICES ASSUME WorkInv, EndInv, phase = "slice", todo = << >>, n > Turns, ~Spared,
                      ~(IsMC /\ pend = 1)
               PROVE  pend = 0 \/ refused
    BY DEF NothingLost, Spared, IsMC
  <2>1. Ahead(todo, IsMC) <= 0 /\ Ahead(todo, IsMC) \in Int
    <3>1. Len(todo) = 0
      BY EmptySeq
    <3> QED BY <3>1 DEF Ahead
  <2>2. ~Due(todo, Ahead(todo, IsMC))
    <3> DEFINE m == Ahead(todo, IsMC)
    <3>1. \A i \in 1..m : FALSE
      <4> HIDE DEF m
      <4>1. m <= 0 /\ m \in Int
        BY <2>1 DEF m
      <4> QED BY <4>1
    <3> QED BY <3>1 DEF Due
  <2>3. pend \in Nat
    BY DEF WorkInv
  <2> QED BY <2>2, <2>3 DEF EndInv, Settled
<1>2. Init => SeenInv /\ EndInv
  BY DEF Init, SeenInv, EndInv
<1>3. BufferInv /\ DispatchInv /\ WorkInv /\ SeenInv /\ EndInv /\ [Next]_vars
        => SeenInv' /\ EndInv'
  BY SeenNext, EndNext
<1> QED BY <1>1, <1>2, <1>3, Fills, BufferSafe, DispatchSafe, WorkSafe, PTL DEF Spec

-----------------------------------------------------------------------------
(* Bits that arrive in the first row.                                       *)

\* The first row holds the first j bits of s, and no other row is in use.
Got(b, s, j) ==
    /\ b.rows = (IF j = 0 THEN 0 ELSE 1)
    /\ b.width[0] = j
    /\ \A i \in 1..j : b.bit[i - 1] = s[i]
    /\ j > 0 => b.free * RowBits < j + RowBits

\* It holds all of them.
Full(b, s) ==
    /\ b.rows > 0
    /\ b.width[0] = Len(s)
    /\ \A i \in 1..Len(s) : b.bit[i - 1] = s[i]

\* A whole number of rows below the size of the array leaves a row free.
LEMMA RowLeft ==
  ASSUME NEW j \in Nat, NEW f \in Nat, f * RowBits < j + RowBits, j % RowBits = 0,
         NEW m \in Nat, j < m * RowBits
  PROVE  f < m
<1> DEFINE k == j \div RowBits
<1>1. k \in Nat /\ j = k * RowBits
  BY BufferAssumption
<1> HIDE DEF k
<1>2. k < m
  <2>1. ASSUME m <= k PROVE FALSE
    <3>1. m * RowBits <= k * RowBits
      <4>1. CASE m = k
        BY <4>1, BufferAssumption
      <4>2. CASE m < k
        <5>1. m * RowBits + RowBits <= k * RowBits
          BY <1>1, <4>2, RowAfter
        <5> QED BY <5>1, <1>1, BufferAssumption
      <4> QED BY <1>1, <2>1, <4>1, <4>2
    <3>2. m * RowBits \in Nat /\ k * RowBits \in Nat
      BY <1>1, BufferAssumption
    <3> QED BY <1>1, <3>1, <3>2
  <2> QED BY <1>1, <2>1
<1>3. f <= k
  <2>1. ASSUME k < f PROVE FALSE
    <3>1. k * RowBits + RowBits <= f * RowBits
      BY <1>1, <2>1, RowAfter
    <3>2. k * RowBits \in Nat /\ f * RowBits \in Nat /\ RowBits \in Nat
      BY <1>1, BufferAssumption
    <3> QED BY <1>1, <3>1, <3>2
  <2> QED BY <1>1, <2>1
<1> QED BY <1>1, <1>2, <1>3

\* The next bit follows those that are there.
LEMMA GotBit ==
  ASSUME NEW b, Good(b), ZeroOutside(b), NEW s \in Seq({0, 1}), NEW j \in Nat,
         j < Len(s), Len(s) <= MaxRowBits, Got(b, s, j)
  PROVE  Got(AddBit(b, s[j + 1]), s, j + 1)
<1> DEFINE t == Started(b)
           v == s[j + 1]
           q == Put(t, v)
<1>1. j + 1 \in 1..Len(s) /\ v \in {0, 1} /\ j < MaxRowBits /\ MaxRowBits \in Nat
  BY LenProperties, ElementOfSeq, BufferAssumption DEF MaxRowBits
<1>2. Good(t) /\ t.rows > 0 /\ ZeroOutside(t)
  BY StartedGood, StartedZero
<1>3. /\ t.rows = 1 /\ t.width = b.width /\ t.bit = b.bit
      /\ t.free = IF j = 0 THEN 1 ELSE b.free
  BY DEF Got, Started, Good, Buffers
<1> HIDE DEF t, v
<1>4. 0 \in Rows /\ Last(t) = 0 /\ LastWidth(t) = j /\ t.free \in Nat /\ t.width[0] = j
  BY <1>2, <1>3, BufferAssumption DEF Got, Last, LastWidth, Rows, Good, Buffers
<1>5. t.free * RowBits < j + RowBits \/ (j = 0 /\ t.free = 1)
  <2>1. CASE j = 0
    BY <1>3, <2>1
  <2>2. CASE j # 0
    <3>1. j > 0 /\ t.free = b.free
      BY <1>3, <2>2
    <3> QED BY <3>1 DEF Got
  <2> QED BY <2>1, <2>2
<1>6. ~NoRoomFor(t)
  <2>1. j # UINT16_MAX
    BY <1>1, BufferAssumption DEF MaxRowBits
  <2>2. ASSUME Spills(t) PROVE t.free < BITBUF_ROWS
    <3>1. j > 0 /\ j % RowBits = 0
      BY <1>4, <2>2 DEF Spills
    <3>2. j < BITBUF_ROWS * RowBits
      BY <1>1 DEF MaxRowBits
    <3> DEFINE f == t.free
    <3>3. f \in Nat /\ f * RowBits < j + RowBits /\ BITBUF_ROWS \in Nat
      BY <1>4, <1>5, <3>1, BufferAssumption
    <3> HIDE DEF f
    <3>4. f < BITBUF_ROWS
      BY <3>1, <3>2, <3>3, RowLeft
    <3> QED BY <3>4 DEF f
  <2>3. BITBUF_ROWS \in Nat
    BY BufferAssumption
  <2> QED BY <1>4, <2>1, <2>2, <2>3 DEF NoRoomFor
<1>7. AddBit(b, v) = q
  BY <1>6 DEF AddBit, t
<1>8. Cell(0, j) = j /\ j \in Cells
  BY <1>1, BufferAssumption DEF Cell, Cells, MaxRowBits
<1>9. t.bit[j] = 0
  <2>1. \A r \in 0..Last(t) : ~Within(t, r, j)
    BY <1>4, <1>8, BufferAssumption DEF Within, Cell
  <2> QED BY <1>2, <1>8, <2>1 DEF ZeroOutside
<1>10. /\ q.rows = 1 /\ q.width = [t.width EXCEPT ![0] = j + 1]
       /\ q.bit = [t.bit EXCEPT ![j] = v]
       /\ q.free = IF Spills(t) THEN t.free + 1 ELSE t.free
  <2>1. (IF v = 1 THEN 1 ELSE t.bit[j]) = v
    BY <1>1, <1>9
  <2> QED BY <1>2, <1>3, <1>4, <1>8, <2>1 DEF Put, Good, Buffers
<1> HIDE DEF q
<1>11. q.width[0] = j + 1
  BY <1>2, <1>4, <1>10 DEF Good, Buffers
<1>12. \A i \in 1..j + 1 : q.bit[i - 1] = s[i]
  <2> SUFFICES ASSUME NEW i \in 1..j + 1 PROVE q.bit[i - 1] = s[i]
    OBVIOUS
  <2>1. CASE i = j + 1
    <3>1. q.bit[j] = v
      BY <1>2, <1>8, <1>10 DEF Good, Buffers
    <3> QED BY <2>1, <3>1 DEF v
  <2>2. CASE i # j + 1
    <3>1. i \in 1..j /\ i - 1 # j
      BY <2>2
    <3>2. q.bit[i - 1] = t.bit[i - 1]
      BY <1>2, <1>10, <3>1 DEF Good, Buffers
    <3> QED BY <1>3, <3>1, <3>2 DEF Got
  <2> QED BY <2>1, <2>2
<1>13. q.free * RowBits < j + 1 + RowBits
  <2>1. CASE Spills(t)
    <3> DEFINE f == t.free
    <3>1. j > 0 /\ j % RowBits = 0 /\ f * RowBits < j + RowBits
      BY <1>4, <1>5, <2>1 DEF Spills
    <3> DEFINE k == j \div RowBits
    <3>2. k \in Nat /\ j = k * RowBits /\ (k + 1) * RowBits = j + RowBits /\ j < (k + 1) * RowBits
      BY BufferAssumption, <3>1
    <3> HIDE DEF k, f
    <3>3. f < k + 1
      BY <3>1, <3>2, <1>4, RowLeft DEF f
    <3>4. (f + 1) * RowBits <= (k + 1) * RowBits
      <4>1. f \in Nat
        BY <1>4 DEF f
      <4>2. f * RowBits <= k * RowBits
        <5>1. CASE f = k
          BY <5>1, <3>2, BufferAssumption
        <5>2. CASE f < k
          <6>1. f * RowBits + RowBits <= k * RowBits
            BY <3>2, <4>1, <5>2, RowAfter
          <6>2. f * RowBits \in Nat
            BY <4>1, BufferAssumption
          <6> QED BY <6>1, <6>2, <3>2, BufferAssumption
        <5> QED BY <3>2, <3>3, <4>1, <5>1, <5>2
      <4>3. (f + 1) * RowBits = f * RowBits + RowBits /\ f * RowBits \in Nat
        BY <4>1, BufferAssumption
      <4> QED BY <4>2, <4>3, <3>2, BufferAssumption
    <3>5. q.free = f + 1 /\ (f + 1) * RowBits \in Int
      BY <1>4, <1>10, <2>1, BufferAssumption DEF f
    <3> QED BY <3>2, <3>4, <3>5, BufferAssumption
  <2>2. CASE ~Spills(t)
    <3>1. q.free = t.free /\ t.free * RowBits \in Nat /\ RowBits \in Nat
      BY <1>4, <1>10, <2>2, BufferAssumption
    <3>2. CASE j = 0 /\ t.free = 1
      BY <3>1, <3>2, BufferAssumption
    <3>3. CASE t.free * RowBits < j + RowBits
      BY <3>1, <3>3
    <3> QED BY <1>5, <3>2, <3>3
  <2> QED BY <2>1, <2>2
<1>14. Got(q, s, j + 1)
  BY <1>10, <1>11, <1>12, <1>13 DEF Got
<1> QED BY <1>7, <1>14 DEF v

\* A row behind them leaves them as they are.
LEMMA GotRow ==
  ASSUME NEW b, Good(b), NEW s \in Seq({0, 1}), Len(s) > 0,
         Len(s) <= (BITBUF_ROWS - 1) * RowBits, Got(b, s, Len(s))
  PROVE  Full(AddRow(b), s) /\ ~RowRefused(b)
<1>1. b.rows = 1 /\ Started(b) = b /\ b.free \in Nat
  BY BufferAssumption DEF Got, Started, Good, Buffers
<1>2. b.free < BITBUF_ROWS
  <2>1. ASSUME BITBUF_ROWS <= b.free PROVE FALSE
    <3> DEFINE m == BITBUF_ROWS - 1
    <3>1. m \in Nat /\ m < b.free
      BY <1>1, <2>1, BufferAssumption
    <3> HIDE DEF m
    <3>2. m * RowBits + RowBits <= b.free * RowBits
      BY <1>1, <3>1, RowAfter
    <3>3. b.free * RowBits < Len(s) + RowBits /\ Len(s) \in Nat /\ Len(s) <= m * RowBits
      BY LenProperties DEF Got, m
    <3>4. m * RowBits \in Nat /\ b.free * RowBits \in Nat /\ RowBits \in Nat
      BY <1>1, <3>1, BufferAssumption
    <3> QED BY <3>2, <3>3, <3>4
  <2> QED BY <1>1, <2>1, BufferAssumption
<1> DEFINE q == AddRow(b)
<1>3. q.rows = b.free + 1 /\ q.width = b.width /\ q.bit = b.bit
  BY <1>1, <1>2 DEF AddRow, NewRow, Good, Buffers
<1>4. ~RowRefused(b)
  BY <1>1, <1>2, BufferAssumption DEF RowRefused
<1> HIDE DEF q
<1>5. Full(q, s)
  BY <1>1, <1>3 DEF Got, Full
<1> QED BY <1>4, <1>5 DEF q

\* What is delivered is what arrived.
LEMMA FullContent ==
  ASSUME NEW b, NEW s \in Seq({0, 1}), Full(b, s)
  PROVE  Content(b, 0) = s
<1>1. s = [i \in 1..Len(s) |-> s[i]]
  BY SeqDef
<1>2. \A i \in 1..Len(s) : Cell(0, i - 1) = i - 1
  <2>1. Len(s) \in Nat
    BY LenProperties
  <2> QED BY <2>1, BufferAssumption DEF Cell
<1>3. \A i \in 1..Len(s) : b.bit[Cell(0, i - 1)] = s[i]
  BY <1>2 DEF Full
<1>4. b.width[0] = Len(s)
  BY DEF Full
<1> QED BY <1>1, <1>3, <1>4 DEF Content

-----------------------------------------------------------------------------
(* A slicer that writes a sequence of bits.                                 *)

\* The calls that add s[a + 1..b].
BitCalls(s, a, b) == SubSeq([i \in 1..Len(s) |-> Bit(s[i])], a + 1, b)

\* They are calls, made one by one, also with others behind them.
LEMMA BitCallsTypes ==
  ASSUME NEW s \in Seq({0, 1}), NEW a \in 0..Len(s), NEW b \in a..Len(s)
  PROVE  /\ BitCalls(s, a, b) \in Seq(Calls) /\ Len(BitCalls(s, a, b)) = b - a
         /\ \A i \in 1..b - a : BitCalls(s, a, b)[i] = Bit(s[a + i])
         /\ a = b => BitCalls(s, a, b) = << >>
<1> DEFINE q == [i \in 1..Len(s) |-> Bit(s[i])]
           r == BitCalls(s, a, b)
<1>1. Len(s) \in Nat /\ \A i \in 1..Len(s) : s[i] \in {0, 1}
  BY LenProperties, ElementOfSeq
<1>2. \A i \in 1..Len(s) : q[i] = Bit(s[i]) /\ Bit(s[i]) \in Calls
  BY <1>1 DEF Calls, OpNames, Bit, Do
<1> HIDE DEF q
<1>3. r = SubSeq(q, a + 1, b)
  BY DEF BitCalls, q
<1>4. a + 1 \in Int /\ b \in Int /\ \A i \in a + 1..b : i \in 1..Len(s) /\ q[i] \in Calls
  BY <1>1, <1>2
<1>5. /\ r \in Seq(Calls)
      /\ Len(r) = (IF a + 1 <= b THEN b - (a + 1) + 1 ELSE 0)
      /\ \A i \in 1..b - (a + 1) + 1 : r[i] = q[a + 1 + i - 1]
  BY <1>3, <1>4, SubSeqProperties
<1> HIDE DEF r
<1>6. Len(r) = b - a
  BY <1>1, <1>5
<1>7. ASSUME NEW i \in 1..b - a PROVE r[i] = Bit(s[a + i])
  <2>1. a + 1 + i - 1 = a + i /\ i \in 1..b - (a + 1) + 1 /\ a + i \in 1..Len(s)
    BY <1>1
  <2> QED BY <1>2, <1>5, <2>1
<1>8. a = b => r = << >>
  BY <1>5, <1>6, EmptySeq
<1> QED BY <1>5, <1>6, <1>7, <1>8 DEF r

\* The first of the calls is made, and the others are left.
LEMMA NextCall ==
  ASSUME NEW s \in Seq({0, 1}), NEW a \in 0..Len(s), NEW b \in a..Len(s), a < b,
         NEW e \in Seq(Calls)
  PROVE  LET q == BitCalls(s, a, b) \o e
         IN  /\ q # << >> /\ Head(q) = Bit(s[a + 1])
             /\ Tail(q) = BitCalls(s, a + 1, b) \o e
<1> DEFINE u == BitCalls(s, a, b)
           v == BitCalls(s, a + 1, b)
           q == u \o e
           t == Tail(q)
           w == v \o e
<1>1. /\ a + 1 \in 0..Len(s) /\ b \in a + 1..Len(s) /\ Len(e) \in Nat /\ a \in Nat /\ b \in Nat
  BY LenProperties
<1>2. /\ u \in Seq(Calls) /\ Len(u) = b - a /\ \A i \in 1..b - a : u[i] = Bit(s[a + i])
  BY BitCallsTypes
<1>3. /\ v \in Seq(Calls) /\ Len(v) = b - (a + 1)
      /\ \A i \in 1..b - (a + 1) : v[i] = Bit(s[a + 1 + i])
  BY <1>1, BitCallsTypes
<1> HIDE DEF u, v
<1>4. /\ q \in Seq(Calls) /\ Len(q) = b - a + Len(e)
      /\ \A i \in 1..b - a + Len(e) : q[i] = IF i <= b - a THEN u[i] ELSE e[i - (b - a)]
  <2>1. /\ q \in Seq(Calls) /\ Len(q) = Len(u) + Len(e)
        /\ \A i \in 1..Len(u) + Len(e) : q[i] = IF i <= Len(u) THEN u[i] ELSE e[i - Len(u)]
    BY <1>2, ConcatProperties
  <2> HIDE DEF q
  <2> QED BY <1>2, <2>1
<1>5. /\ w \in Seq(Calls) /\ Len(w) = b - (a + 1) + Len(e)
      /\ \A i \in 1..b - (a + 1) + Len(e) :
            w[i] = IF i <= b - (a + 1) THEN v[i] ELSE e[i - (b - (a + 1))]
  <2>1. /\ w \in Seq(Calls) /\ Len(w) = Len(v) + Len(e)
        /\ \A i \in 1..Len(v) + Len(e) : w[i] = IF i <= Len(v) THEN v[i] ELSE e[i - Len(v)]
    BY <1>3, ConcatProperties
  <2> HIDE DEF w
  <2> QED BY <1>3, <2>1
<1> HIDE DEF q, w
<1>6. q # << >>
  BY <1>1, <1>4, EmptySeq
<1>7. /\ t \in Seq(Calls) /\ Len(t) = Len(q) - 1
      /\ \A i \in 1..Len(t) : t[i] = q[i + 1]
      /\ Head(q) = q[1]
  BY <1>4, <1>6, HeadTailProperties
<1> HIDE DEF t
<1>8. Head(q) = Bit(s[a + 1])
  <2>1. 1 \in 1..b - a + Len(e) /\ 1 \in 1..b - a /\ 1 <= b - a
    BY <1>1
  <2> QED BY <1>2, <1>4, <1>7, <2>1
<1>9. t = w
  <2>1. Len(t) = Len(w)
    BY <1>1, <1>4, <1>5, <1>7
  <2>2. ASSUME NEW i \in 1..Len(t) PROVE t[i] = w[i]
    <3>1. i \in Nat /\ i + 1 \in 1..b - a + Len(e) /\ i \in 1..b - (a + 1) + Len(e)
      BY <1>1, <1>4, <1>7
    <3>2. CASE i + 1 <= b - a
      <4>1. i <= b - (a + 1) /\ i + 1 \in 1..b - a /\ i \in 1..b - (a + 1)
            /\ a + (i + 1) = a + 1 + i
        BY <1>1, <3>1, <3>2
      <4> QED BY <1>2, <1>3, <1>4, <1>5, <1>7, <3>1, <3>2, <4>1
    <3>3. CASE ~(i + 1 <= b - a)
      <4> DEFINE h == i - (b - (a + 1))
      <4>1. ~(i <= b - (a + 1)) /\ i + 1 - (b - a) = h
        BY <1>1, <3>1, <3>3
      <4>2. w[i] = e[h]
        BY <1>5, <3>1, <4>1
      <4>3. q[i + 1] = e[i + 1 - (b - a)]
        BY <1>4, <3>1, <3>3
      <4> HIDE DEF h
      <4> QED BY <1>7, <4>1, <4>2, <4>3
    <3> QED BY <3>2, <3>3
  <2> QED BY <1>5, <1>7, <2>1, <2>2, SeqEqual
<1> QED BY <1>6, <1>8, <1>9 DEF q, t, u, v, w

\* Calls that deliver what is there, maybe with a row begun before that.
Ending(s, e) ==
    /\ e \in Seq(Calls) /\ e # << >>
    /\ \/ Head(e).op \in Ends
       \/ /\ Head(e).op = "row" /\ Len(e) > 1 /\ e[2].op \in Ends
          /\ Len(s) <= (BITBUF_ROWS - 1) * RowBits

\* The slicer of d turns tr into s. P are the places it comes to: turn n, in which
\* at bits of s have been written, and it remembers t.
Writes(d, tr, s, P) ==
    /\ s \in Seq({0, 1}) /\ Len(s) > 0 /\ Len(s) <= MaxRowBits
    /\ \A p \in P : p.n \in 1..Limit(d, tr) /\ p.at \in 0..Len(s)
    /\ \E p \in P : Start(d, tr) = To(BitCalls(s, 0, p.at), p.n, p.t)
    /\ \A p \in P :
        \/ \E q \in P : /\ p.at <= q.at
                        /\ Slice(d, tr, p.n, p.t) = To(BitCalls(s, p.at, q.at), q.n, q.t)
        \/ \E e : /\ Ending(s, e)
                  /\ Slice(d, tr, p.n, p.t) =
                        To(BitCalls(s, p.at, Len(s)) \o e, Limit(d, tr) + 1, 0)

\* How far it is: on its way to a place, on its way to the delivery, or past it.
Going(s, P) ==
    \E p \in P :
        /\ n = p.n /\ mem = p.t
        /\ \E j \in 0..p.at : Got(bits, s, j) /\ todo = BitCalls(s, j, p.at)

Ended(s) ==
    /\ n > Turns
    /\ \/ \E e : Ending(s, e) /\ \E j \in 0..Len(s) :
            Got(bits, s, j) /\ todo = BitCalls(s, j, Len(s)) \o e
       \/ Full(bits, s) /\ todo # << >> /\ Head(todo).op \in Ends

Progress(s, P) ==
    \/ first = << >> /\ ~refused /\ (Going(s, P) \/ Ended(s))
    \/ first = s /\ n > Turns

Writing(s, P) == pkg.type # "code" /\ Writes(Device, pkg.tr, s, P)

ScriptInv ==
    /\ phase # "slice" => ~refused
    /\ phase = "slice" =>
        \A s, P : Writing(s, P) => Progress(s, P)

\* What the whole of s shows is delivered.
LEMMA GotAll ==
  ASSUME NEW b, NEW s \in Seq({0, 1}), Len(s) > 0, Got(b, s, Len(s))
  PROVE  Full(b, s)
<1>1. Len(s) \in Nat /\ Len(s) # 0
  BY LenProperties
<1> QED BY <1>1 DEF Got, Full

\* Once they are there a delivery goes ahead.
LEMMA FullDelivers ==
  ASSUME NEW s \in Seq({0, 1}), Len(s) > 0, Full(bits, s), phase = "slice",
         todo # << >>, Head(todo).op \in Ends
  PROVE  Delivers
  BY DEF Full, Delivers, Calling, Ends, Accumulated

\* A call takes it further.
LEMMA ScriptCall ==
  ASSUME BufferInv, CleanTail, WorkInv, ScriptInv, CallStep
  PROVE  ScriptInv'
<1>1. phase = "slice" /\ todo # << >> /\ Called
  BY CallFacts
<1>2. /\ todo' = Tail(todo) /\ todo \in Seq(MayCall)
      /\ UNCHANGED <<phase, devs, pkg, it, n, mem, first>>
  BY <1>1, CalledStep DEF WorkInv, dispatch
<1>3. Turns' = Turns /\ Device' = Device
  BY <1>2 DEF Turns, Device
<1> SUFFICES ASSUME NEW s, NEW P, Writing(s, P)
             PROVE  Progress(s, P)'
  <2>1. \A s, P : Writing(s, P)' <=> Writing(s, P)
    BY <1>2, <1>3 DEF Writing
  <2> QED BY <1>1, <1>2, <2>1 DEF ScriptInv
<1>4. /\ s \in Seq({0, 1}) /\ Len(s) > 0 /\ Len(s) <= MaxRowBits
      /\ \A p \in P : p.at \in 0..Len(s)
  BY DEF Writing, Writes
<1>5. Progress(s, P)
  BY <1>1 DEF ScriptInv
<1>6. CASE first = s /\ n > Turns
  BY <1>2, <1>3, <1>6 DEF Progress
<1> SUFFICES ASSUME first = << >>, ~refused, Going(s, P) \/ Ended(s)
             PROVE  Progress(s, P)'
  BY <1>5, <1>6 DEF Progress
<1>7. Good(bits) /\ ZeroOutside(bits)
  BY DEF BufferInv, CleanTail, TailZero, ZeroOutside
<1>8. ASSUME NEW j \in 0..Len(s), j < Len(s), Got(bits, s, j), Head(todo) = Bit(s[j + 1])
      PROVE  Got(bits', s, j + 1) /\ ~refused'
  <2>1. Head(todo).op = "bit" /\ Head(todo).v = s[j + 1]
    BY <1>8 DEF Bit, Do
  <2>2. bits' = AddBit(bits, s[j + 1]) /\ refused' = refused
    BY <2>1 DEF CallStep, AddsBit, CallAddBit, SetsWidth, AddsRow, RowDue, SkipsRow,
                AddsSync, Clears, NothingToDeliver, Ends, Calling
  <2>3. j \in Nat
    BY <1>4, LenProperties
  <2> QED BY <1>4, <1>7, <1>8, <2>2, <2>3, GotBit
<1>9. ASSUME Full(bits, s), Head(todo).op \in Ends PROVE FALSE
  <2>1. Delivers
    BY <1>1, <1>4, <1>9, FullDelivers
  <2> QED BY <1>9, <2>1 DEF CallStep, AddsBit, SetsWidth, AddsRow, RowDue, SkipsRow,
                AddsSync, Clears, NothingToDeliver, Ends, Calling
<1>10. CASE Going(s, P)
  <2>0. PICK p \in P :
            /\ n = p.n /\ mem = p.t
            /\ \E j \in 0..p.at : Got(bits, s, j) /\ todo = BitCalls(s, j, p.at)
    BY <1>10 DEF Going
  <2>1. PICK j \in 0..p.at : Got(bits, s, j) /\ todo = BitCalls(s, j, p.at)
    BY <2>0
  <2>2. p.at \in 0..Len(s) /\ Len(s) \in Nat
    BY <1>4, LenProperties
  <2> DEFINE b == p.at
  <2>3. j \in 0..Len(s) /\ b \in j..Len(s) /\ j \in Nat /\ b \in Nat
    BY <2>2
  <2> HIDE DEF b
  <2>4. j < b
    <3>1. todo = BitCalls(s, j, b)
      BY <2>1 DEF b
    <3>2. j # b
      BY <1>1, <1>4, <2>3, <3>1, BitCallsTypes
    <3> QED BY <2>3, <3>2
  <2>5. << >> \in Seq(Calls)
    BY EmptySeq
  <2>6. todo \o << >> = todo /\ BitCalls(s, j + 1, b) \o << >> = BitCalls(s, j + 1, b)
    <3>1. j + 1 \in 0..Len(s) /\ b \in j + 1..Len(s)
      BY <2>2, <2>3, <2>4
    <3>2. BitCalls(s, j + 1, b) \in Seq(Calls)
      BY <1>4, <3>1, BitCallsTypes
    <3> QED BY <1>2, <3>2, ConcatEmptySeq
  <2>7. Head(todo) = Bit(s[j + 1]) /\ Tail(todo) = BitCalls(s, j + 1, b)
    BY <1>4, <2>1, <2>3, <2>4, <2>5, <2>6, NextCall DEF b
  <2>8. Got(bits', s, j + 1) /\ ~refused'
    BY <1>8, <2>1, <2>2, <2>3, <2>4, <2>7
  <2>9. j + 1 \in 0..b
    BY <2>3, <2>4
  <2>10. Going(s, P)'
    BY <1>2, <2>0, <2>7, <2>8, <2>9 DEF Going, b
  <2> QED BY <1>2, <2>8, <2>10 DEF Progress
<1>11. CASE Ended(s)
  <2>1. n > Turns
    BY <1>11 DEF Ended
  <2>2. CASE Full(bits, s) /\ todo # << >> /\ Head(todo).op \in Ends
    BY <1>9, <2>2
  <2>3. ASSUME NEW e, Ending(s, e), NEW j \in 0..Len(s), Got(bits, s, j),
               todo = BitCalls(s, j, Len(s)) \o e
        PROVE  Progress(s, P)'
    <3>1. Len(s) \in Nat /\ j \in Nat /\ Len(s) \in j..Len(s) /\ Len(s) \in 0..Len(s)
          /\ e \in Seq(Calls)
      BY <1>4, <2>3, LenProperties DEF Ending
    <3>2. CASE j < Len(s)
      <4>1. Head(todo) = Bit(s[j + 1]) /\ Tail(todo) = BitCalls(s, j + 1, Len(s)) \o e
        BY <1>4, <2>3, <3>1, <3>2, NextCall
      <4>2. Got(bits', s, j + 1) /\ ~refused'
        BY <1>8, <2>3, <3>2, <4>1
      <4>3. j + 1 \in 0..Len(s)
        BY <3>1, <3>2
      <4>4. Ended(s)'
        BY <1>2, <1>3, <2>1, <2>3, <4>1, <4>2, <4>3 DEF Ended
      <4> QED BY <1>2, <4>2, <4>4 DEF Progress
    <3>3. CASE ~(j < Len(s))
      <4>1. j = Len(s)
        BY <3>1, <3>3
      <4>2. BitCalls(s, j, Len(s)) = << >>
        BY <1>4, <3>1, <4>1, BitCallsTypes
      <4>3. todo = e
        BY <2>3, <3>1, <4>2, ConcatEmptySeq
      <4>4. Got(bits, s, Len(s)) /\ Full(bits, s)
        BY <1>4, <2>3, <4>1, GotAll
      <4>5. /\ Head(e).op = "row" /\ Len(e) > 1 /\ e[2].op \in Ends
            /\ Len(s) <= (BITBUF_ROWS - 1) * RowBits
        BY <1>9, <2>3, <4>3, <4>4 DEF Ending
      <4>6. AddsRow
        BY <4>3, <4>5 DEF CallStep, AddsBit, SetsWidth, AddsRow, RowDue, SkipsRow,
                AddsSync, Clears, NothingToDeliver, Ends, Calling
      <4>7. bits' = AddRow(bits) /\ refused' = (refused \/ RowRefused(bits))
        BY <4>6 DEF AddsRow, CallAddRow
      <4>8. Full(bits', s) /\ ~refused'
        BY <1>4, <1>7, <4>4, <4>5, <4>7, GotRow
      <4>9. Tail(e) # << >> /\ Head(Tail(e)).op \in Ends
        <5>1. e \in Seq(Calls) /\ e # << >> /\ Len(e) \in Nat
          BY <2>3, LenProperties DEF Ending
        <5> DEFINE q == Tail(e)
        <5>2. /\ q \in Seq(Calls) /\ Len(q) = Len(e) - 1
              /\ \A i \in 1..Len(q) : q[i] = e[i + 1]
          BY <5>1, HeadTailProperties
        <5> HIDE DEF q
        <5>3. q # << >> /\ 1 \in 1..Len(q)
          BY <4>5, <5>1, <5>2, EmptySeq
        <5>4. Head(q) = q[1] /\ q[1] = e[2]
          BY <5>2, <5>3
        <5> QED BY <4>5, <5>3, <5>4 DEF q
      <4>10. Ended(s)'
        BY <1>2, <1>3, <2>1, <4>3, <4>8, <4>9 DEF Ended
      <4> QED BY <1>2, <4>8, <4>10 DEF Progress
    <3> QED BY <3>2, <3>3
  <2> QED BY <1>11, <2>2, <2>3 DEF Ended
<1> QED BY <1>10, <1>11

\* A delivery is of s, or comes after that.
LEMMA ScriptDeliver ==
  ASSUME WorkInv, ScriptInv, NEW found \in BOOLEAN, NEW code, Deliver(found, code)
  PROVE  ScriptInv'
<1>1. /\ phase = "slice" /\ todo # << >> /\ Head(todo).op \in Ends
      /\ first' = (IF first = << >> THEN Content(bits, 0) ELSE first)
      /\ UNCHANGED <<phase, devs, pkg, it, n>>
  BY DEF Deliver, Delivers, Calling, Ends
<1>2. Turns' = Turns /\ Device' = Device
  BY <1>1 DEF Turns, Device
<1> SUFFICES ASSUME NEW s, NEW P, Writing(s, P)
             PROVE  Progress(s, P)'
  <2>1. \A s, P : Writing(s, P)' <=> Writing(s, P)
    BY <1>1, <1>2 DEF Writing
  <2> QED BY <1>1, <2>1 DEF ScriptInv
<1>3. /\ s \in Seq({0, 1}) /\ Len(s) > 0 /\ s # << >>
      /\ \A p \in P : p.at \in 0..Len(s)
  BY EmptySeq DEF Writing, Writes
<1>4. Progress(s, P)
  BY <1>1 DEF ScriptInv
<1>5. CASE first = s /\ n > Turns
  BY <1>1, <1>2, <1>3, <1>5 DEF Progress
<1>6. CASE first = << >> /\ Going(s, P)
  <2>0. PICK p \in P : \E j \in 0..p.at : todo = BitCalls(s, j, p.at)
    BY <1>6 DEF Going
  <2>1. PICK j \in 0..p.at : todo = BitCalls(s, j, p.at)
    BY <2>0
  <2>2. p.at \in 0..Len(s) /\ Len(s) \in Nat
    BY <1>3, LenProperties
  <2> DEFINE b == p.at
  <2>3. j \in 0..Len(s) /\ b \in j..Len(s) /\ todo = BitCalls(s, j, b)
    BY <2>1, <2>2
  <2> HIDE DEF b
  <2>4. todo \in Seq(Calls) /\ Len(todo) = b - j /\ \A i \in 1..b - j : todo[i] = Bit(s[j + i])
    BY <1>3, <2>3, BitCallsTypes
  <2>5. 1 \in 1..b - j
    <3>1. Len(todo) # 0
      BY <1>1, <2>4, EmptySeq
    <3> QED BY <2>2, <2>3, <2>4, <3>1
  <2>6. Head(todo) = Bit(s[j + 1])
    BY <1>1, <2>4, <2>5, HeadTailProperties
  <2> QED BY <1>1, <2>6 DEF Bit, Do, Ends
<1>7. CASE first = << >> /\ Ended(s)
  <2>1. Full(bits, s)
    <3>1. CASE Full(bits, s)
      BY <3>1
    <3>2. ASSUME NEW e, Ending(s, e), NEW j \in 0..Len(s), Got(bits, s, j),
                 todo = BitCalls(s, j, Len(s)) \o e
          PROVE  Full(bits, s)
      <4>1. Len(s) \in Nat /\ j \in Nat /\ Len(s) \in j..Len(s) /\ e \in Seq(Calls)
        BY <1>3, <3>2, LenProperties DEF Ending
      <4>2. CASE j < Len(s)
        <5>1. Head(todo) = Bit(s[j + 1])
          BY <1>3, <3>2, <4>1, <4>2, NextCall
        <5> QED BY <1>1, <5>1 DEF Bit, Do, Ends
      <4>3. CASE ~(j < Len(s))
        <5>1. j = Len(s)
          BY <4>1, <4>3
        <5> QED BY <1>3, <3>2, <5>1, GotAll
      <4> QED BY <4>2, <4>3
    <3> QED BY <1>7, <3>1, <3>2 DEF Ended
  <2>2. first' = s
    BY <1>1, <1>3, <1>7, <2>1, FullContent
  <2>3. n' > Turns'
    BY <1>1, <1>2, <1>7 DEF Ended
  <2> QED BY <2>2, <2>3 DEF Progress
<1> QED BY <1>4, <1>5, <1>6, <1>7 DEF Progress

\* A turn goes on from where the last one ended.
LEMMA ScriptTurn ==
  ASSUME DispatchInv, WorkInv, ScriptInv, Turn
  PROVE  ScriptInv'
<1>1. /\ UNCHANGED <<phase, devs, pkg, it, first, bits, refused>>
      /\ phase = "slice" /\ todo = << >> /\ n <= Turns /\ n \in Nat
  BY WorkTurn DEF Turn, dispatch, buffer, WorkInv
<1>2. Turns' = Turns /\ Device' = Device
  BY <1>1 DEF Turns, Device
<1> SUFFICES ASSUME NEW s, NEW P, Writing(s, P)
             PROVE  Progress(s, P)'
  <2>1. \A s, P : Writing(s, P)' <=> Writing(s, P)
    BY <1>1, <1>2 DEF Writing
  <2> QED BY <1>1, <2>1 DEF ScriptInv
<1> DEFINE r == Slice(Device, pkg.tr, n, mem)
<1>3. /\ s \in Seq({0, 1}) /\ Len(s) \in Nat /\ pkg.type # "code"
      /\ \A p \in P : p.at \in 0..Len(s)
  BY LenProperties DEF Writing, Writes
<1>4. Turns \in Nat /\ Turns = Limit(Device, pkg.tr)
  <2>1. IsPackage(pkg)
    BY <1>1 DEF WorkInv, Running
  <2>2. Len(pkg.tr) \in Nat
    BY <2>1, PackageTypes
  <2> QED BY <1>3, <2>2 DEF Turns, Limit, Symbols
<1>5. first = << >> /\ ~refused /\ Going(s, P)
  <2>1. ~(n > Turns)
    BY <1>1, <1>4
  <2> QED BY <1>1, <2>1 DEF ScriptInv, Progress, Ended
<1>6. PICK p \in P :
          /\ n = p.n /\ mem = p.t
          /\ \E j \in 0..p.at : Got(bits, s, j) /\ todo = BitCalls(s, j, p.at)
  BY <1>5 DEF Going
<1>7. Got(bits, s, p.at) /\ p.at \in 0..Len(s)
  <2>1. PICK j \in 0..p.at : Got(bits, s, j) /\ todo = BitCalls(s, j, p.at)
    BY <1>6
  <2> DEFINE b == p.at
  <2>2. j \in 0..Len(s) /\ b \in j..Len(s) /\ todo = BitCalls(s, j, b) /\ b \in 0..Len(s)
    BY <1>3, <2>1
  <2>3. Len(todo) = b - j /\ Len(todo) = 0
    <3> HIDE DEF b
    <3> QED BY <1>1, <1>3, <2>2, BitCallsTypes
  <2>4. j = b
    BY <1>3, <2>2, <2>3
  <2> QED BY <2>1, <2>2, <2>4
<1>8. todo' = r.ops /\ n' = r.n /\ mem' = r.t
  BY <1>3 DEF Turn
<1>9. \/ \E q \in P : p.at <= q.at /\ r = To(BitCalls(s, p.at, q.at), q.n, q.t)
      \/ \E e : Ending(s, e) /\ r = To(BitCalls(s, p.at, Len(s)) \o e, Turns + 1, 0)
  BY <1>4, <1>6 DEF Writing, Writes
<1> HIDE DEF r
<1>10. ASSUME NEW q \in P, p.at <= q.at, r = To(BitCalls(s, p.at, q.at), q.n, q.t)
       PROVE  Progress(s, P)'
  <2>1. p.at \in 0..q.at
    BY <1>3, <1>7, <1>10
  <2>2. n' = q.n /\ mem' = q.t /\ todo' = BitCalls(s, p.at, q.at)
    BY <1>8, <1>10 DEF To
  <2>3. Going(s, P)'
    BY <1>1, <1>7, <2>1, <2>2 DEF Going
  <2> QED BY <1>1, <1>5, <2>3 DEF Progress
<1>11. ASSUME NEW e, Ending(s, e), r = To(BitCalls(s, p.at, Len(s)) \o e, Turns + 1, 0)
       PROVE  Progress(s, P)'
  <2>1. n' = Turns + 1 /\ todo' = BitCalls(s, p.at, Len(s)) \o e
    BY <1>8, <1>11 DEF To
  <2>2. n' > Turns'
    BY <1>2, <1>4, <2>1
  <2>3. Ended(s)'
    BY <1>1, <1>7, <1>11, <2>1, <2>2 DEF Ended
  <2> QED BY <1>1, <1>5, <2>3 DEF Progress
<1> QED BY <1>9, <1>10, <1>11

\* A device begins with an empty buffer.
LEMMA ScriptRun ==
  ASSUME DispatchInv, WorkInv, OnceInv, ScriptInv, RunDevice
  PROVE  ScriptInv'
<1>1. /\ UNCHANGED <<devs, pkg, it, bits, refused>> /\ phase = "pass" /\ phase' = "slice"
      /\ first' = << >>
      /\ todo' = CodeStart(Device).ops /\ n' = CodeStart(Device).n
      /\ mem' = CodeStart(Device).t
  BY DEF RunDevice, dispatch, buffer
<1>2. Turns' = Turns /\ Device' = Device
  BY <1>1 DEF Turns, Device
<1>3. bits = Clear /\ ~refused
  BY <1>1 DEF OnceInv, ScriptInv
<1> SUFFICES ASSUME NEW s, NEW P, Writing(s, P)
             PROVE  Progress(s, P)'
  <2>1. \A s, P : Writing(s, P)' <=> Writing(s, P)
    BY <1>1, <1>2 DEF Writing
  <2> QED BY <1>1, <2>1 DEF ScriptInv
<1>4. PICK p \in P : Start(Device, pkg.tr) = To(BitCalls(s, 0, p.at), p.n, p.t)
  BY DEF Writing, Writes
<1>5. CodeStart(Device) = Start(Device, pkg.tr)
  BY DEF Writing, CodeStart
<1>6. n' = p.n /\ mem' = p.t /\ todo' = BitCalls(s, 0, p.at) /\ 0 \in 0..p.at
  <2>1. p.at \in 0..Len(s) /\ Len(s) \in Nat
    BY LenProperties DEF Writing, Writes
  <2> QED BY <1>1, <1>4, <1>5, <2>1 DEF To
<1>7. Got(bits', s, 0)
  <2>1. 0 \in Rows
    BY BufferAssumption DEF Rows
  <2> QED BY <1>1, <1>3, <2>1 DEF Got, Clear
<1>8. Going(s, P)'
  BY <1>6, <1>7 DEF Going
<1> QED BY <1>1, <1>3, <1>8 DEF Progress

\* Every step keeps the invariant.
LEMMA ScriptNext ==
  ASSUME BufferInv, CleanTail, DispatchInv, WorkInv, OnceInv, ScriptInv, [Next]_vars
  PROVE  ScriptInv'
<1>1. CASE CallStep
  BY <1>1, ScriptCall
<1>2. CASE \E found \in BOOLEAN, code \in Recodings \cup {"none"} : Deliver(found, code)
  BY <1>2, ScriptDeliver
<1>3. CASE Turn \/ RunDevice
  BY <1>3, ScriptTurn, ScriptRun
<1>4. CASE \/ \E d \in OfferedTo(devs) \cap Protocols : Register(d) \/ Unregister(d)
           \/ UnregisterTurn \/ UnregisterDone \/ Receive
           \/ SkipDevice \/ NextPass \/ Finish
  <2>1. phase # "slice" /\ phase' # "slice" /\ UNCHANGED refused
    BY <1>4 DEF Register, Unregister, UnregisterTurn, UnregisterDone, Receive,
                SkipDevice, NextPass, Finish, buffer
  <2> QED BY <2>1 DEF ScriptInv
<1>5. CASE DeviceDone
  <2>1. phase' = "pass" /\ refused' = FALSE
    BY <1>5 DEF DeviceDone, CallClear
  <2> QED BY <2>1 DEF ScriptInv
<1>6. CASE UNCHANGED vars
  <2>1. UNCHANGED <<phase, devs, pkg, it, n, mem, todo, first, bits, refused>>
    BY <1>6 DEF vars, buffer, slicer, dispatch
  <2>2. Turns' = Turns /\ Device' = Device
    BY <2>1 DEF Turns, Device
  <2>3. \A s, P : (Writing(s, P)' <=> Writing(s, P)) /\ (Progress(s, P)' <=> Progress(s, P))
    BY <2>1, <2>2 DEF Writing, Progress, Going, Ended
  <2> QED BY <2>1, <2>3 DEF ScriptInv
<1> QED BY <1>1, <1>2, <1>3, <1>4, <1>5, <1>6, Steps

\* A slicer that writes s has delivered s in the end.
THEOREM Written ==
  Spec => [](\A s, P : Writing(s, P) /\ phase = "slice" /\ todo = << >>
                                /\ n > Turns => first = s)
<1>1. WorkInv /\ ScriptInv =>
        \A s, P : Writing(s, P) /\ phase = "slice" /\ todo = << >>
                            /\ n > Turns => first = s
  <2> SUFFICES ASSUME WorkInv, ScriptInv, NEW s, NEW P,
                      Writing(s, P), phase = "slice", todo = << >>, n > Turns
               PROVE  first = s
    OBVIOUS
  <2>1. Progress(s, P)
    BY DEF ScriptInv
  <2>2. ~Going(s, P)
    <3>1. Turns = Limit(Device, pkg.tr) /\ \A p \in P : p.n \in 1..Turns
      BY DEF Writing, Writes, Turns
    <3>2. Turns \in Nat
      <4>1. IsPackage(pkg)
        BY DEF WorkInv, Running
      <4>2. Len(pkg.tr) \in Nat
        BY <4>1, PackageTypes
      <4> QED BY <3>1, <4>2 DEF Limit, Symbols
    <3>3. ASSUME NEW p \in P, n = p.n PROVE FALSE
      <4>1. n \in 1..Turns
        BY <3>1, <3>3
      <4> QED BY <3>2, <4>1
    <3> QED BY <3>3 DEF Going
  <2>3. ~Ended(s)
    <3> SUFFICES ASSUME NEW e, Ending(s, e), NEW j \in 0..Len(s),
                        todo = BitCalls(s, j, Len(s)) \o e
                 PROVE  FALSE
      BY DEF Ended
    <3>1. s \in Seq({0, 1}) /\ Len(s) \in Nat
      BY LenProperties DEF Writing, Writes
    <3>2. BitCalls(s, j, Len(s)) \in Seq(Calls) /\ e \in Seq(Calls) /\ e # << >>
      <4>1. Len(s) \in j..Len(s)
        BY <3>1
      <4> QED BY <3>1, <4>1, BitCallsTypes DEF Ending
    <3> DEFINE u == BitCalls(s, j, Len(s))
    <3>3. u \in Seq(Calls) /\ u \o e = << >>
      BY <3>2
    <3> HIDE DEF u
    <3> QED BY <3>2, <3>3, ConcatEqualIffEmpty
  <2> QED BY <2>1, <2>2, <2>3 DEF Progress
<1>2. Init => ScriptInv
  BY DEF Init, BufferInit, ScriptInv
<1>3. BufferInv /\ CleanTail /\ DispatchInv /\ WorkInv /\ OnceInv /\ ScriptInv /\ [Next]_vars
        => ScriptInv'
  BY ScriptNext
<1>4. Init => OnceInv
  BY DEF Init, BufferInit, OnceInv
<1>5. BufferInv /\ DispatchInv /\ WorkInv /\ OnceInv /\ [Next]_vars => OnceInv'
  BY OnceNext
<1> QED BY <1>1, <1>2, <1>3, <1>4, <1>5, Fills, BufferSafe, TailsClean, DispatchSafe,
           WorkSafe, PTL DEF Spec

-----------------------------------------------------------------------------
(* The line codes.                                                          *)

\* A bit that is sent, and a run of one value.
LEMMA RunCalls ==
  ASSUME NEW s \in Seq({0, 1}), NEW a \in 0..Len(s), NEW b \in a..Len(s),
         NEW v \in {0, 1}, \A i \in a + 1..b : s[i] = v
  PROVE  Repeat(b - a, Bit(v)) = BitCalls(s, a, b)
<1> DEFINE q == Repeat(b - a, Bit(v))
           r == BitCalls(s, a, b)
<1>1. Len(s) \in Nat /\ a \in Nat /\ b \in Nat /\ b - a \in Nat
  BY LenProperties
<1>2. r \in Seq(Calls) /\ Len(r) = b - a /\ \A i \in 1..b - a : r[i] = Bit(s[a + i])
  BY BitCallsTypes
<1>3. Bit(v) \in Calls
  BY DEF Calls, OpNames, Bit, Do
<1>4. q \in Seq(Calls)
  BY <1>1, <1>3, RepeatSeq
<1>5. q = [i \in 1..b - a |-> Bit(v)]
  BY DEF Repeat
<1>6. Len(q) = b - a
  <2>1. DOMAIN q = 1..b - a /\ DOMAIN q = 1..Len(q) /\ Len(q) \in Nat
    BY <1>4, <1>5, LenProperties
  <2> HIDE DEF q
  <2> QED BY <1>1, <2>1
<1>7. \A i \in 1..b - a : q[i] = r[i]
  <2> SUFFICES ASSUME NEW i \in 1..b - a PROVE q[i] = r[i]
    OBVIOUS
  <2>1. a + i \in a + 1..b
    BY <1>1
  <2>2. s[a + i] = v
    BY <2>1
  <2> HIDE DEF r
  <2> QED BY <1>2, <1>5, <2>2
<1> HIDE DEF q, r
<1>8. q = r
  BY <1>2, <1>4, <1>6, <1>7, SeqEqual
<1> QED BY <1>8 DEF q, r

\* A run of one bit.
LEMMA OneCall ==
  ASSUME NEW s \in Seq({0, 1}), NEW a \in Nat, a < Len(s)
  PROVE  <<Bit(s[a + 1])>> = BitCalls(s, a, a + 1)
<1> DEFINE v == s[a + 1]
<1>1. a + 1 \in 1..Len(s) /\ v \in {0, 1} /\ a \in 0..Len(s) /\ a + 1 \in a..Len(s)
      /\ a + 1 - a = 1
  BY LenProperties, ElementOfSeq
<1>2. \A i \in a + 1..a + 1 : s[i] = v
  OBVIOUS
<1> HIDE DEF v
<1>3. Repeat(a + 1 - a, Bit(v)) = BitCalls(s, a, a + 1)
  BY <1>1, <1>2, RunCalls
<1>4. Repeat(1, Bit(v)) = <<Bit(v)>>
  BY DEF Repeat
<1> QED BY <1>1, <1>3, <1>4 DEF v

\* A delivery at the end.
LEMMA EndingBy ==
  ASSUME NEW s, NEW op \in Ends, NEW v \in Int
  PROVE  /\ Ending(s, <<Do(op, v)>>)
         /\ << >> \o <<Do(op, v)>> = <<Do(op, v)>>
<1>1. Do(op, v) \in Calls /\ Do(op, v).op = op
  BY DEF Do, Calls, OpNames
<1> QED BY <1>1 DEF Ending

\* A slicer that goes from turn to turn.
LEMMA TurnByTurn ==
  ASSUME NEW d, NEW tr, NEW s \in Seq({0, 1}), Len(s) > 0, Len(s) <= MaxRowBits,
         NEW l \in Nat \ {0}, Limit(d, tr) = l, NEW at, NEW t,
         \A k \in 1..l : at[k] \in 0..Len(s),
         Start(d, tr) = To(BitCalls(s, 0, at[1]), 1, t[1]),
         \A k \in 1..l - 1 :
            /\ at[k] <= at[k + 1]
            /\ Slice(d, tr, k, t[k]) = To(BitCalls(s, at[k], at[k + 1]), k + 1, t[k + 1]),
         \E e : /\ Ending(s, e)
                /\ Slice(d, tr, l, t[l]) = To(BitCalls(s, at[l], Len(s)) \o e, l + 1, 0)
  PROVE  \E P : Writes(d, tr, s, P)
<1> DEFINE place(k) == [n |-> k, at |-> at[k], t |-> t[k]]
           P == {place(k) : k \in 1..l}
<1>1. 1 \in 1..l
  OBVIOUS
<1>2. \A p \in P : p.n \in 1..l /\ p.at \in 0..Len(s)
  OBVIOUS
<1>3. \E p \in P : Start(d, tr) = To(BitCalls(s, 0, p.at), p.n, p.t)
  <2>1. place(1) \in P
    BY <1>1
  <2> QED BY <2>1
<1>4. ASSUME NEW p \in P
      PROVE  \/ \E q \in P : /\ p.at <= q.at
                             /\ Slice(d, tr, p.n, p.t) = To(BitCalls(s, p.at, q.at), q.n, q.t)
             \/ \E e : /\ Ending(s, e)
                       /\ Slice(d, tr, p.n, p.t) = To(BitCalls(s, p.at, Len(s)) \o e, l + 1, 0)
  <2>1. PICK k \in 1..l : p = place(k)
    OBVIOUS
  <2>2. p.n = k /\ p.at = at[k] /\ p.t = t[k]
    BY <2>1
  <2>3. CASE k = l
    BY <2>2, <2>3
  <2>4. CASE k # l
    <3>1. k \in 1..l - 1 /\ k + 1 \in 1..l
      BY <2>4
    <3> DEFINE q == place(k + 1)
    <3>2. q \in P /\ q.n = k + 1 /\ q.at = at[k + 1] /\ q.t = t[k + 1]
      BY <3>1
    <3> HIDE DEF q, P, place
    <3> QED BY <2>2, <3>1, <3>2
  <2> QED BY <2>3, <2>4
<1> HIDE DEF P
<1> QED BY <1>2, <1>3, <1>4 DEF Writes

\* A slicer that tells a bit in every turn, maybe but the last.
LEMMA BitByBit ==
  ASSUME NEW d, NEW tr, NEW m \in Seq({0, 1}), Len(m) > 0, Len(m) <= MaxRowBits,
         ~d.slow, d.kind \notin {"MC", "OSV1"},
         NEW l \in Nat \ {0}, Limit(d, tr) = l, Len(m) \in {l - 1, l},
         \A k \in 1..l - 1 : Slice(d, tr, k, 0) = To(<<Bit(m[k])>>, k + 1, 0),
         \E e : /\ Ending(m, e)
                /\ Slice(d, tr, l, 0) = To(BitCalls(m, l - 1, Len(m)) \o e, l + 1, 0)
  PROVE  \E P : Writes(d, tr, m, P)
<1> DEFINE at == [k \in 1..l |-> k - 1]
           t == [k \in 1..l |-> 0]
<1>1. Len(m) \in Nat /\ 1 \in 1..l /\ l \in 1..l
  BY LenProperties
<1>2. \A k \in 1..l : at[k] = k - 1 /\ t[k] = 0 /\ at[k] \in 0..Len(m)
  BY <1>1
<1> HIDE DEF at, t
<1>3. Start(d, tr) = To(BitCalls(m, 0, at[1]), 1, t[1])
  <2>1. 0 \in 0..Len(m) /\ 0 \in 0..0 /\ at[1] = 0 /\ t[1] = 0
    BY <1>1, <1>2
  <2>2. BitCalls(m, 0, 0) = << >>
    BY <1>1, <2>1, BitCallsTypes
  <2> QED BY <2>1, <2>2 DEF Start, When
<1>4. ASSUME NEW k \in 1..l - 1
      PROVE  /\ at[k] <= at[k + 1]
             /\ Slice(d, tr, k, t[k]) = To(BitCalls(m, at[k], at[k + 1]), k + 1, t[k + 1])
  <2>1. k \in 1..l /\ k + 1 \in 1..l /\ k - 1 \in Nat /\ k - 1 < Len(m) /\ k - 1 + 1 = k
    BY <1>1
  <2>2. <<Bit(m[k])>> = BitCalls(m, k - 1, k)
    BY <2>1, OneCall
  <2>3. at[k] = k - 1 /\ at[k + 1] = k /\ t[k] = 0 /\ t[k + 1] = 0
    BY <1>2, <2>1
  <2> QED BY <2>1, <2>2, <2>3
<1>5. at[l] = l - 1 /\ t[l] = 0
  BY <1>1, <1>2
<1>6. \E e : /\ Ending(m, e)
             /\ Slice(d, tr, l, t[l]) = To(BitCalls(m, at[l], Len(m)) \o e, l + 1, 0)
  BY <1>5
<1>7. \A k \in 1..l : at[k] \in 0..Len(m)
  BY <1>2
<1> QED BY <1>3, <1>4, <1>6, <1>7, TurnByTurn

\* Between two widths.
LEMMA Halfway ==
  ASSUME NEW a \in Nat, NEW b \in Nat, NEW w \in Nat, a < b
  PROVE  /\ 2 * Dist(w, a) < Dist(a, b) => w < (a + b) \div 2 + 1
         /\ 2 * Dist(w, b) < Dist(b, a) => w >= (a + b) \div 2 + 1
         /\ 2 * Dist(w, b) < Dist(b, a) => w > (a + b) \div 2
         /\ (a + b) \div 2 \in Nat
<1>1. Dist(a, b) = b - a /\ Dist(b, a) = b - a
  BY DEF Dist
<1>2. ASSUME 2 * Dist(w, a) < b - a PROVE w < (a + b) \div 2 + 1
  <2>1. 2 * w < a + b
    BY <1>2 DEF Dist
  <2> QED BY <2>1
<1>3. ASSUME 2 * Dist(w, b) < b - a
      PROVE  w >= (a + b) \div 2 + 1 /\ w > (a + b) \div 2
  <2>1. 2 * w > a + b
    BY <1>3 DEF Dist
  <2> QED BY <2>1
<1> QED BY <1>1, <1>2, <1>3

\* A width near one that is far from another.
LEMMA Nearness ==
  ASSUME NEW a \in Nat, NEW b \in Nat, NEW w \in Nat, NEW tol \in Nat, Dist(w, a) < tol
  PROVE  /\ w > a - tol /\ w < a + tol
         /\ a + 2 * tol <= b => ~(w > b - tol) /\ ~(Dist(w, b) < tol)
         /\ b + 2 * tol <= a => ~(w < b + tol) /\ ~(Dist(w, b) < tol)
  BY DEF Dist

\* No pulse is so long.
LEMMA ForeverType == Forever \in Nat
  BY SMT DEF Forever

\* A gap that is sent is told.
LEMMA PpmTells ==
  ASSUME NEW d, Timed(d), Distinct(d), d.kind = "PPM", NEW w \in Nat, NEW v \in {0, 1},
         SentFor(d, w, Meant(d, v)), w < GapLimit(d)
  PROVE  PpmCall(d, w) = <<Bit(v)>>
<1>1. /\ d.short \in Nat /\ d.long \in Nat /\ d.tol \in Nat /\ GapLimit(d) \in Nat
      /\ d.short < d.long /\ d.short + 2 * d.tol <= d.long
  BY DeviceTypes DEF Distinct
<1>2. v = 1 => Meant(d, v) = d.long
  BY DEF Meant
<1>3. v = 0 => Meant(d, v) = d.short
  BY DEF Meant
<1> SUFFICES /\ v = 1 => ~Between(w, PpmBounds(d).zero) /\ Between(w, PpmBounds(d).one)
             /\ v = 0 => Between(w, PpmBounds(d).zero)
  BY DEF PpmCall
<1>4. CASE d.tol > 0
  <2>1. PpmBounds(d) = [zero |-> <<d.short - d.tol, d.short + d.tol>>,
                        one |-> <<d.long - d.tol, d.long + d.tol>>]
    BY <1>4 DEF PpmBounds
  <2>2. Dist(w, Meant(d, v)) < d.tol
    BY <1>4 DEF SentFor
  <2>3. ASSUME v = 1
        PROVE  ~(w < d.short + d.tol) /\ w > d.long - d.tol /\ w < d.long + d.tol
    <3>1. Dist(w, d.long) < d.tol
      BY <1>2, <2>2, <2>3
    <3> QED BY <1>1, <3>1, Nearness
  <2>4. ASSUME v = 0 PROVE w > d.short - d.tol /\ w < d.short + d.tol
    <3>1. Dist(w, d.short) < d.tol
      BY <1>3, <2>2, <2>4
    <3> QED BY <1>1, <3>1, Nearness
  <2> QED BY <2>1, <2>3, <2>4 DEF Between
<1>5. CASE ~(d.tol > 0)
  <2> DEFINE mid == (d.short + d.long) \div 2
  <2>1. PpmBounds(d) = [zero |-> <<0, mid + 1>>, one |-> <<mid, GapLimit(d)>>]
    BY <1>5 DEF PpmBounds
  <2>2. /\ w > 0
        /\ \A y \in Meanings(d) \ {Meant(d, v)} :
                2 * Dist(w, Meant(d, v)) < Dist(Meant(d, v), y)
    BY <1>5, ForeverType DEF SentFor
  <2>3. d.short \in Meanings(d) /\ d.long \in Meanings(d) /\ d.short # d.long
    BY <1>1 DEF Meanings
  <2>4. ASSUME v = 1 PROVE ~(w < mid + 1) /\ w > mid
    <3>1. 2 * Dist(w, d.long) < Dist(d.long, d.short)
      BY <1>2, <2>2, <2>3, <2>4
    <3> QED BY <1>1, <3>1, Halfway
  <2>5. ASSUME v = 0 PROVE w < mid + 1
    <3>1. 2 * Dist(w, d.short) < Dist(d.short, d.long)
      BY <1>3, <2>2, <2>3, <2>5
    <3> QED BY <1>1, <3>1, Halfway
  <2> HIDE DEF mid
  <2> QED BY <2>1, <2>2, <2>4, <2>5 DEF Between
<1> QED BY <1>4, <1>5

\* The silence is none of the widths.
LEMMA PpmSilence ==
  ASSUME NEW d, Timed(d), Distinct(d), NEW g \in Nat, g >= d.reset, g >= GapLimit(d)
  PROVE  PpmCall(d, g) = << >>
<1>1. /\ d.short \in Nat /\ d.long \in Nat /\ d.tol \in Nat /\ GapLimit(d) \in Nat
      /\ d.sync \in Nat /\ d.reset \in Nat
      /\ d.short < d.long /\ d.long + d.tol <= d.reset /\ d.sync + d.tol <= d.reset
  BY DeviceTypes DEF Distinct
<1>2. ~Between(g, PpmBounds(d).zero) /\ ~Between(g, PpmBounds(d).one)
  <2>1. CASE d.tol > 0
    <3>1. PpmBounds(d) = [zero |-> <<d.short - d.tol, d.short + d.tol>>,
                          one |-> <<d.long - d.tol, d.long + d.tol>>]
      BY <2>1 DEF PpmBounds
    <3>2. ~(g < d.short + d.tol) /\ ~(g < d.long + d.tol)
      BY <1>1
    <3> QED BY <3>1, <3>2 DEF Between
  <2>2. CASE ~(d.tol > 0)
    <3> DEFINE mid == (d.short + d.long) \div 2
    <3>1. PpmBounds(d) = [zero |-> <<0, mid + 1>>, one |-> <<mid, GapLimit(d)>>]
      BY <2>2 DEF PpmBounds
    <3>2. ~(g < mid + 1) /\ ~(g < GapLimit(d))
      BY <1>1
    <3> HIDE DEF mid
    <3> QED BY <3>1, <3>2 DEF Between
  <2> QED BY <2>1, <2>2
<1>3. ~Between(g, SyncBounds(d))
  <2>1. CASE d.tol > 0 /\ d.sync > 0
    <3>1. SyncBounds(d) = <<d.sync - d.tol, d.sync + d.tol>> /\ ~(g < d.sync + d.tol)
      BY <1>1, <2>1 DEF SyncBounds
    <3> QED BY <3>1 DEF Between
  <2>2. CASE ~(d.tol > 0 /\ d.sync > 0)
    <3>1. SyncBounds(d) = <<0, 0>> /\ ~(g < 0)
      BY <2>2 DEF SyncBounds
    <3> QED BY <3>1 DEF Between
  <2> QED BY <2>1, <2>2
<1>4. ~(g < d.reset)
  BY <1>1
<1> QED BY <1>2, <1>3, <1>4 DEF PpmCall, When

\* A pulse that is sent is told.
LEMMA PwmTells ==
  ASSUME NEW d, Timed(d), Distinct(d), d.kind = "PWM", NEW w \in Nat, NEW v \in {0, 1},
         SentFor(d, w, Meant(d, v))
  PROVE  PwmCall(d, w) = <<Bit(v)>>
<1>1. /\ d.short \in Nat /\ d.long \in Nat /\ d.tol \in Nat /\ d.sync \in Nat
      /\ d.short < d.long /\ d.short + 2 * d.tol <= d.long
  BY DeviceTypes DEF Distinct
<1>2. v = 0 => Meant(d, v) = d.long
  BY DEF Meant
<1>3. v = 1 => Meant(d, v) = d.short
  BY DEF Meant
<1> DEFINE b == PwmBounds(d)
<1> SUFFICES /\ v = 0 => ~Between(w, b.one) /\ Between(w, b.zero)
             /\ v = 1 => Between(w, b.one)
  BY DEF PwmCall
<1>4. CASE d.tol > 0
  <2>1. /\ b.one = <<d.short - d.tol, d.short + d.tol>>
        /\ b.zero = <<d.long - d.tol, d.long + d.tol>>
    BY <1>1, <1>4 DEF PwmBounds
  <2>2. Dist(w, Meant(d, v)) < d.tol
    BY <1>4 DEF SentFor
  <2>3. ASSUME v = 0
        PROVE  ~(w < d.short + d.tol) /\ w > d.long - d.tol /\ w < d.long + d.tol
    <3>1. Dist(w, d.long) < d.tol
      BY <1>2, <2>2, <2>3
    <3> QED BY <1>1, <3>1, Nearness
  <2>4. ASSUME v = 1 PROVE w > d.short - d.tol /\ w < d.short + d.tol
    <3>1. Dist(w, d.short) < d.tol
      BY <1>3, <2>2, <2>4
    <3> QED BY <1>1, <3>1, Nearness
  <2> HIDE DEF b
  <2> QED BY <2>1, <2>3, <2>4 DEF Between
<1>5. CASE ~(d.tol > 0)
  <2>1. /\ w > 0 /\ w < Forever
        /\ \A y \in Meanings(d) \ {Meant(d, v)} :
                2 * Dist(w, Meant(d, v)) < Dist(Meant(d, v), y)
    BY <1>5, ForeverType DEF SentFor
  <2>2. /\ d.short \in Meanings(d) /\ d.long \in Meanings(d) /\ d.short # d.long
        /\ d.sync > 0 => d.sync \in Meanings(d)
        /\ d.sync # d.short /\ d.sync # d.long
    BY <1>1, <1>5 DEF Meanings, Distinct
  <2>3. /\ v = 0 => 2 * Dist(w, d.long) < Dist(d.long, d.short)
        /\ v = 1 => 2 * Dist(w, d.short) < Dist(d.short, d.long)
        /\ v = 0 /\ d.sync > 0 => 2 * Dist(w, d.long) < Dist(d.long, d.sync)
        /\ v = 1 /\ d.sync > 0 => 2 * Dist(w, d.short) < Dist(d.short, d.sync)
    BY <1>2, <1>3, <2>1, <2>2
  <2> DEFINE mid == (d.short + d.long) \div 2
             low == (d.sync + d.short) \div 2
             high == (d.sync + d.long) \div 2
             low2 == (d.short + d.sync) \div 2
             high2 == (d.long + d.sync) \div 2
  <2>4. /\ v = 0 => w >= mid + 1 /\ w > mid
        /\ v = 1 => w < mid + 1
        /\ mid \in Nat
    BY <1>1, <2>3, Halfway
  <2>5. CASE d.sync <= 0
    <3>1. b.one = <<0, mid + 1>> /\ b.zero = <<mid, Forever>>
      BY <1>1, <1>5, <2>5 DEF PwmBounds
    <3>2. v = 0 => ~(w < mid + 1)
      BY <2>4
    <3> HIDE DEF mid, b
    <3> QED BY <2>1, <2>4, <3>1, <3>2 DEF Between
  <2>6. CASE d.sync > 0 /\ d.sync < d.short
    <3>1. b.one = <<low, mid + 1>> /\ b.zero = <<mid, Forever>>
      BY <1>1, <1>5, <2>6 DEF PwmBounds, Thirds
    <3>2. v = 1 => w > low
      BY <1>1, <2>3, <2>6, Halfway
    <3>3. v = 0 => ~(w < mid + 1)
      BY <2>4
    <3> HIDE DEF mid, low, b
    <3> QED BY <2>1, <2>4, <3>1, <3>2, <3>3 DEF Between
  <2>7. CASE d.sync > 0 /\ d.sync > d.short /\ d.sync < d.long
    <3>1. b.one = <<0, low2 + 1>> /\ b.zero = <<high, Forever>>
      BY <1>1, <1>5, <2>7 DEF PwmBounds, Thirds
    <3>2. v = 1 => w < low2 + 1
      BY <1>1, <2>3, <2>7, Halfway
    <3>3. v = 0 => w >= high + 1 /\ w > high
      BY <1>1, <2>3, <2>7, Halfway
    <3>4. low2 <= high /\ low2 \in Nat /\ high \in Nat
      BY <1>1
    <3>5. v = 0 => ~(w < low2 + 1)
      <4> HIDE DEF low2, high
      <4> QED BY <3>3, <3>4
    <3> HIDE DEF high, low2, b
    <3> QED BY <2>1, <3>1, <3>2, <3>3, <3>5 DEF Between
  <2>8. CASE d.sync > 0 /\ d.sync > d.long
    <3>1. b.one = <<0, mid + 1>> /\ b.zero = <<mid, high2 + 1>>
      BY <1>1, <1>5, <2>8 DEF PwmBounds, Thirds
    <3>2. v = 0 => w < high2 + 1
      BY <1>1, <2>3, <2>8, Halfway
    <3>3. v = 0 => ~(w < mid + 1)
      BY <2>4
    <3> HIDE DEF mid, high2, b
    <3> QED BY <2>1, <2>4, <3>1, <3>2, <3>3 DEF Between
  <2>9. \/ d.sync <= 0
        \/ d.sync > 0 /\ d.sync < d.short
        \/ d.sync > 0 /\ d.sync > d.short /\ d.sync < d.long
        \/ d.sync > 0 /\ d.sync > d.long
    BY <1>1, <2>2
  <2> QED BY <2>5, <2>6, <2>7, <2>8, <2>9
<1> QED BY <1>4, <1>5

\* The silence is the last symbol.
LEMMA LastSymbol ==
  ASSUME NEW tr \in Seq(Pulses), Len(tr) > 0
  PROVE  /\ Symbols(tr) \in Nat \ {0} /\ Symbol(tr, Symbols(tr)) = LastGap(tr)
         /\ LastGap(tr) \in Nat /\ Len(tr) \in 1..Len(tr)
<1> DEFINE l == Len(tr)
<1>1. l \in Nat /\ l \in 1..l
  BY LenProperties
<1>2. (2 * l) % 2 # 1 /\ (2 * l) \div 2 = l /\ 2 * l \in Nat \ {0}
  <2> HIDE DEF l
  <2> QED BY <1>1
<1>3. tr[l].g \in Nat
  BY <1>1, PulseTypes
<1> QED BY <1>1, <1>2, <1>3 DEF Symbols, Symbol, LastGap

\* A gap of one of two lengths is a bit.
LEMMA PpmWrites ==
  ASSUME NEW d, Timed(d), d.kind = "PPM", ~d.slow, NEW tr \in Seq(Pulses),
         NEW m \in Seq({0, 1}), Len(m) > 0, Len(m) <= MaxRowBits, InLengths(d, m, tr)
  PROVE  \E P : Writes(d, tr, m, P)
<1> DEFINE l == Len(tr)
           e == <<Do("endData", 1)>>
<1>1. /\ l \in Nat /\ l \in 1..l /\ Len(m) = l - 1 /\ Len(m) \in Nat /\ Distinct(d)
      /\ \A k \in 1..l - 1 : SentFor(d, tr[k].g, Meant(d, m[k]))
      /\ \A k \in 1..l - 1 : tr[k].g < d.reset /\ tr[k].g < GapLimit(d)
      /\ tr[l].g >= d.reset /\ tr[l].g >= GapLimit(d)
  BY LenProperties, LastSymbol DEF InLengths, Carrier, LastGap
<1>2. Limit(d, tr) = l
  BY DEF Limit, SymbolKinds
<1>3. d.reset \in Nat /\ GapLimit(d) \in Nat
  BY DeviceTypes
<1>4. ASSUME NEW k \in 1..l - 1
      PROVE  Slice(d, tr, k, 0) = To(<<Bit(m[k])>>, k + 1, 0)
  <2>1. k \in 1..Len(tr) /\ k # Len(tr) /\ k \in 1..Len(m)
    BY <1>1
  <2>2. tr[k].g \in Nat /\ m[k] \in {0, 1}
    BY <2>1, PulseTypes, ElementOfSeq
  <2>3. PpmCall(d, tr[k].g) = <<Bit(m[k])>>
    <3> DEFINE g == tr[k].g
               v == m[k]
    <3>1. g \in Nat /\ v \in {0, 1} /\ SentFor(d, g, Meant(d, v)) /\ g < GapLimit(d)
      BY <1>1, <2>2
    <3> HIDE DEF g, v
    <3>2. PpmCall(d, g) = <<Bit(v)>>
      BY <1>1, <3>1, PpmTells
    <3> QED BY <3>2 DEF g, v
  <2>4. ~(k = Len(tr) \/ tr[k].g >= d.reset)
    BY <1>1, <1>3, <2>1, <2>2
  <2>5. <<Bit(m[k])>> \o << >> = <<Bit(m[k])>>
    OBVIOUS
  <2> QED BY <2>3, <2>4, <2>5 DEF Slice, Ppm, When
<1>5. Slice(d, tr, l, 0) = To(BitCalls(m, l - 1, Len(m)) \o e, l + 1, 0)
  <2>1. PpmCall(d, tr[l].g) = << >>
    BY <1>1, PulseTypes, PpmSilence
  <2>2. BitCalls(m, l - 1, Len(m)) = << >>
    <3>1. Len(m) \in 0..Len(m) /\ Len(m) \in Len(m)..Len(m)
      BY <1>1
    <3>2. BitCalls(m, Len(m), Len(m)) = << >>
      BY <3>1, BitCallsTypes
    <3> QED BY <1>1, <3>2
  <2> QED BY <2>1, <2>2 DEF Slice, Ppm, When
<1>6. Ending(m, e)
  BY EndingBy DEF Ends
<1>7. l \in Nat \ {0} /\ Limit(d, tr) = l /\ Len(m) \in {l - 1, l}
  BY <1>1, <1>2
<1> HIDE DEF l, e
<1>8. \E f : Ending(m, f)
              /\ Slice(d, tr, l, 0) = To(BitCalls(m, l - 1, Len(m)) \o f, l + 1, 0)
  BY <1>2, <1>5, <1>6
<1> QED BY <1>4, <1>7, <1>8, BitByBit

\* A pulse of one of two lengths is a bit.
LEMMA PwmWrites ==
  ASSUME NEW d, Timed(d), d.kind = "PWM", ~d.slow, NEW tr \in Seq(Pulses),
         NEW m \in Seq({0, 1}), Len(m) > 0, Len(m) <= MaxRowBits, InLengths(d, m, tr)
  PROVE  \E P : Writes(d, tr, m, P)
<1> DEFINE l == Len(tr)
           e == <<Do("endRows", 1)>>
<1>1. /\ l \in Nat /\ l \in 1..l /\ Len(m) = l /\ Len(m) \in Nat /\ Distinct(d)
      /\ \A k \in 1..l : SentFor(d, tr[k].p, Meant(d, m[k]))
      /\ \A k \in 1..l - 1 : tr[k].g < d.reset /\ tr[k].g < GapLimit(d)
  BY LenProperties, LastSymbol DEF InLengths, Carrier
<1>2. Limit(d, tr) = l
  BY DEF Limit, SymbolKinds
<1>3. d.reset \in Nat /\ GapLimit(d) \in Nat /\ d.gap \in Nat
  BY DeviceTypes
<1>4. ASSUME NEW k \in 1..l PROVE PwmCall(d, tr[k].p) = <<Bit(m[k])>>
  <2> DEFINE p == tr[k].p
             v == m[k]
  <2>1. p \in Nat /\ v \in {0, 1} /\ SentFor(d, p, Meant(d, v))
    BY <1>1, PulseTypes, ElementOfSeq
  <2> HIDE DEF p, v
  <2>2. PwmCall(d, p) = <<Bit(v)>>
    BY <1>1, <2>1, PwmTells
  <2> QED BY <2>2 DEF p, v
<1>5. ASSUME NEW k \in 1..l - 1
      PROVE  Slice(d, tr, k, 0) = To(<<Bit(m[k])>>, k + 1, 0)
  <2>1. k \in 1..l /\ k # l /\ tr[k].g \in Nat
    BY <1>1, PulseTypes
  <2>2. ~AtEnd(d, tr, k)
    BY <1>1, <1>3, <2>1 DEF AtEnd
  <2>3. ~(d.gap > 0 /\ tr[k].g > d.gap)
    <3>1. tr[k].g < GapLimit(d)
      BY <1>1
    <3> QED BY <1>3, <2>1, <3>1 DEF GapLimit
  <2>4. <<Bit(m[k])>> \o << >> = <<Bit(m[k])>>
    OBVIOUS
  <2> QED BY <1>4, <2>1, <2>2, <2>3, <2>4 DEF Slice, Pwm, When
<1>6. Slice(d, tr, l, 0) = To(BitCalls(m, l - 1, Len(m)) \o e, l + 1, 0)
  <2>1. l - 1 \in Nat /\ l - 1 < Len(m) /\ l - 1 + 1 = l
    BY <1>1
  <2>2. <<Bit(m[l])>> = BitCalls(m, l - 1, l)
    BY <2>1, OneCall
  <2>3. AtEnd(d, tr, l)
    BY DEF AtEnd
  <2> QED BY <1>1, <1>4, <2>2, <2>3 DEF Slice, Pwm
<1>7. Ending(m, e)
  BY EndingBy DEF Ends
<1>8. l \in Nat \ {0} /\ Limit(d, tr) = l /\ Len(m) \in {l - 1, l}
  BY <1>1, <1>2
<1> HIDE DEF l, e
<1>9. \E f : Ending(m, f)
              /\ Slice(d, tr, l, 0) = To(BitCalls(m, l - 1, Len(m)) \o f, l + 1, 0)
  BY <1>2, <1>6, <1>7
<1> QED BY <1>5, <1>8, <1>9, BitByBit

\* A pulse or a gap of one of two lengths is a bit.
LEMMA PiwmDcWrites ==
  ASSUME NEW d, Timed(d), d.kind = "PIWM_DC", ~d.slow, NEW tr \in Seq(Pulses),
         NEW m \in Seq({0, 1}), Len(m) > 0, Len(m) <= MaxRowBits, InLengths(d, m, tr)
  PROVE  \E P : Writes(d, tr, m, P)
<1> DEFINE l == Symbols(tr)
           e == <<Do("endRows", 0)>>
<1>1. /\ Len(tr) > 0 /\ Len(m) = l - 1 /\ Distinct(d) /\ d.tol > 0
      /\ \A k \in 1..Len(m) : SentFor(d, Symbol(tr, k), Meant(d, m[k]))
      /\ LastGap(tr) >= d.reset
  BY DEF InLengths, Carrier
<1>2. l \in Nat \ {0} /\ l \in 1..l /\ Symbol(tr, l) = LastGap(tr) /\ LastGap(tr) \in Nat
      /\ Len(m) \in Nat
  BY <1>1, LastSymbol, LenProperties
<1>3. Limit(d, tr) = l
  BY DEF Limit, SymbolKinds
<1>4. /\ d.short \in Nat /\ d.long \in Nat /\ d.tol \in Nat /\ d.reset \in Nat
      /\ d.short < d.long /\ d.short + 2 * d.tol <= d.long /\ d.long + d.tol <= d.reset
  BY <1>1, DeviceTypes DEF Distinct
<1> HIDE DEF l
<1>5. ASSUME NEW k \in 1..l - 1
      PROVE  Slice(d, tr, k, 0) = To(<<Bit(m[k])>>, k + 1, 0)
  <2> DEFINE w == Symbol(tr, k)
             v == m[k]
  <2>1. k \in 1..l /\ k # l /\ k \in 1..Len(m)
    BY <1>1, <1>2
  <2>2. w \in Nat /\ v \in {0, 1} /\ SentFor(d, w, Meant(d, v))
    BY <1>1, <2>1, SymbolType, ElementOfSeq DEF l
  <2> HIDE DEF w, v
  <2>3. Dist(w, Meant(d, v)) < d.tol
    BY <1>1, <2>2 DEF SentFor
  <2>4. /\ v = 1 => Near(d, w, d.short)
        /\ v = 0 => Near(d, w, d.long) /\ ~Near(d, w, d.short)
        /\ w < d.reset
    <3>1. CASE v = 1
      <4>1. Dist(w, d.short) < d.tol
        BY <2>3, <3>1 DEF Meant
      <4>2. w < d.short + d.tol
        BY <1>4, <2>2, <4>1, Nearness
      <4> QED BY <1>4, <2>2, <3>1, <4>1, <4>2 DEF Near
    <3>2. CASE v = 0
      <4>1. Dist(w, d.long) < d.tol
        BY <2>3, <3>2 DEF Meant
      <4>2. w < d.long + d.tol /\ ~(Dist(w, d.short) < d.tol)
        BY <1>4, <2>2, <4>1, Nearness
      <4> QED BY <1>4, <2>2, <3>2, <4>1, <4>2 DEF Near
    <3> QED BY <2>2, <3>1, <3>2
  <2>5. SymbolsEnd(d, tr, k) = << >>
    BY <1>4, <2>1, <2>2, <2>4 DEF SymbolsEnd, When, w, l
  <2>6. <<Bit(v)>> \o << >> = <<Bit(v)>>
    OBVIOUS
  <2>7. (IF Near(d, w, d.short) THEN <<Bit(1)>>
         ELSE IF Near(d, w, d.long) THEN <<Bit(0)>>
         ELSE When(w < d.reset, <<RowIfData>>)) = <<Bit(v)>>
    BY <2>2, <2>4
  <2>8. PiwmDc(d, tr, k) = To(<<Bit(v)>>, k + 1, 0)
    BY <2>5, <2>6, <2>7 DEF PiwmDc, w
  <2> QED BY <2>8 DEF Slice, v
<1>6. Slice(d, tr, l, 0) = To(BitCalls(m, l - 1, Len(m)) \o e, l + 1, 0)
  <2> DEFINE w == Symbol(tr, l)
  <2>1. w \in Nat /\ w >= d.reset
    BY <1>1, <1>2
  <2> HIDE DEF w
  <2>2. ~Near(d, w, d.short) /\ ~Near(d, w, d.long) /\ ~(w < d.reset)
    BY <1>4, <2>1 DEF Near, Dist
  <2>3. SymbolsEnd(d, tr, l) = e
    BY DEF SymbolsEnd, When, l
  <2>4. BitCalls(m, l - 1, Len(m)) = << >>
    <3>1. Len(m) \in 0..Len(m) /\ Len(m) \in Len(m)..Len(m)
      BY <1>2
    <3>2. BitCalls(m, Len(m), Len(m)) = << >>
      BY <3>1, BitCallsTypes
    <3> QED BY <1>1, <3>2
  <2>5. PiwmDc(d, tr, l) = To(<< >> \o e, l + 1, 0)
    BY <2>2, <2>3 DEF PiwmDc, When, w
  <2> QED BY <2>4, <2>5 DEF Slice
<1>7. Ending(m, e)
  BY EndingBy DEF Ends
<1>8. l \in Nat \ {0} /\ Limit(d, tr) = l /\ Len(m) \in {l - 1, l}
  BY <1>1, <1>2, <1>3
<1> HIDE DEF e
<1>9. \E f : Ending(m, f)
              /\ Slice(d, tr, l, 0) = To(BitCalls(m, l - 1, Len(m)) \o f, l + 1, 0)
  BY <1>3, <1>6, <1>7
<1> QED BY <1>5, <1>8, <1>9, BitByBit

\* The next multiple of a width.
LEMMA NextMultiple ==
  ASSUME NEW u \in Nat, NEW a \in Int, NEW b \in Int, a < b
  PROVE  a * u + u <= b * u /\ a * u \in Int /\ b * u \in Int
<1> DEFINE k == b - a - 1
<1>1. k \in Nat /\ b = a + 1 + k
  OBVIOUS
<1>2. k * u \in Nat /\ a * u \in Int
  BY <1>1
<1>3. b * u = a * u + u + k * u
  BY <1>1
<1> QED BY <1>2, <1>3

\* Division finds how many times a width goes into a time.
LEMMA DivIs ==
  ASSUME NEW x \in Int, NEW u \in Nat \ {0}, NEW k \in Int
  PROVE  /\ k * u <= x /\ x < k * u + u => x \div u = k
         /\ k * u <= x => k <= x \div u
<1> DEFINE r == x \div u
<1>1. r \in Int /\ r * u <= x /\ x < r * u + u
  OBVIOUS
<1> HIDE DEF r
<1>2. r < k => r * u + u <= k * u /\ k * u \in Int /\ r * u \in Int
  BY <1>1, NextMultiple
<1>3. k < r => k * u + u <= r * u /\ k * u \in Int /\ r * u \in Int
  BY <1>1, NextMultiple
<1> QED BY <1>1, <1>2, <1>3 DEF r

\* A width nearer to k units than to any other number of them is rounded to k.
LEMMA RoundIs ==
  ASSUME NEW x \in Int, NEW u \in Nat \ {0}, NEW k \in Int, 2 * Dist(x, k * u) < u
  PROVE  Round(x, u) = k
<1> DEFINE y == k * u
           v == 2 * u
           z == 2 * x + u
<1>1. y \in Int /\ v \in Nat \ {0} /\ z \in Int /\ k * v = 2 * y
  OBVIOUS
<1>2. 2 * y <= z /\ z < 2 * y + v
  <2> HIDE DEF y
  <2> QED BY <1>1 DEF Dist, y
<1>3. z \div v = k
  <2> HIDE DEF y, v, z
  <2> QED BY <1>1, <1>2, DivIs
<1> QED BY <1>3 DEF Round

\* The calls of two stretches.
LEMMA TwoStretches ==
  ASSUME NEW s \in Seq({0, 1}), NEW a \in 0..Len(s), NEW b \in a..Len(s),
         NEW c \in b..Len(s)
  PROVE  BitCalls(s, a, b) \o BitCalls(s, b, c) = BitCalls(s, a, c)
<1> DEFINE q == [i \in 1..Len(s) |-> Bit(s[i])]
<1>1. Len(s) \in Nat /\ \A i \in 1..Len(s) : s[i] \in {0, 1}
  BY LenProperties, ElementOfSeq
<1>2. \A i \in 1..Len(s) : Bit(s[i]) \in Calls
  BY <1>1 DEF Calls, OpNames, Bit, Do
<1>3. q \in Seq(Calls) /\ Len(q) = Len(s)
  <2>1. q \in [1..Len(s) -> Calls]
    BY <1>2
  <2>2. q \in Seq(Calls)
    BY <1>1, <2>1, SeqDef
  <2>3. DOMAIN q = 1..Len(s) /\ DOMAIN q = 1..Len(q) /\ Len(q) \in Nat
    BY <2>2, LenProperties
  <2> HIDE DEF q
  <2> QED BY <1>1, <2>2, <2>3
<1> HIDE DEF q
<1>4. /\ a + 1 \in 1..Len(q) + 1 /\ b \in a + 1 - 1..Len(q) /\ c \in b..Len(q)
  BY <1>1, <1>3
<1>5. SubSeq(q, a + 1, b) \o SubSeq(q, b + 1, c) = SubSeq(q, a + 1, c)
  BY <1>3, <1>4, ConcatAdjacentSubSeq
<1> QED BY <1>5 DEF BitCalls, q

\* The symbols around a pulse.
LEMMA PulseSymbols ==
  ASSUME NEW tr \in Seq(Pulses), NEW k \in 1..Len(tr)
  PROVE  /\ 2 * k - 1 \in 1..Symbols(tr) /\ 2 * k \in 1..Symbols(tr)
         /\ Symbol(tr, 2 * k - 1) = tr[k].p /\ Symbol(tr, 2 * k) = tr[k].g
         /\ 2 * k - 1 \in Inside(tr) /\ (2 * k - 1) % 2 = 1 /\ (2 * k) % 2 = 0
         /\ k < Len(tr) => 2 * k \in Inside(tr) /\ 2 * k + 1 \in 1..Symbols(tr)
                           /\ k + 1 \in 1..Len(tr) /\ 2 * (k + 1) - 1 = 2 * k + 1
         /\ k = Len(tr) => 2 * k = Symbols(tr)
<1>1. Len(tr) \in Nat /\ k \in Nat
  BY LenProperties
<1>2. /\ (2 * k - 1) % 2 = 1 /\ (2 * k) % 2 = 0 /\ (2 * k) % 2 # 1
      /\ (2 * k - 1 + 1) \div 2 = k /\ (2 * k) \div 2 = k
  BY <1>1
<1> QED BY <1>1, <1>2 DEF Symbols, Symbol, Inside

\* Multiples keep the order, and distribute.
LEMMA Multiples ==
  ASSUME NEW k \in Nat, NEW a \in Int, NEW b \in Int
  PROVE  /\ k * a \in Int /\ k * b \in Int
         /\ k * (a + b) = k * a + k * b /\ k * (a - b) = k * a - k * b
         /\ k * (2 * b) = 2 * (k * b)
         /\ a <= b => k * a <= k * b
         /\ a < b /\ k > 0 => k * a < k * b
<1>1. /\ k * a \in Int /\ k * b \in Int
      /\ k * (a + b) = k * a + k * b /\ k * (a - b) = k * a - k * b
      /\ k * (2 * b) = 2 * (k * b)
  OBVIOUS
<1>2. a <= b => k * (b - a) >= 0 /\ k * (b - a) = k * b - k * a
  OBVIOUS
<1>3. a < b /\ k > 0 => k * (b - a) > 0 /\ k * (b - a) = k * b - k * a
  OBVIOUS
<1> QED BY <1>1, <1>2, <1>3

\* w samples for a bits of u are off by no more than twice jit a bit.
CloseTo(a, w, u, jit) == a * (u - 2 * jit) <= w /\ w <= a * (u + 2 * jit)

\* With such a width, k bits off by no more than jit are counted as k, and what
\* is longer as no fewer.
LEMMA CountsRight ==
  ASSUME NEW x \in Int, NEW u \in Nat, NEW jit \in Nat, NEW k \in Nat,
         NEW a \in Nat \ {0}, NEW w \in Nat \ {0}, CloseTo(a, w, u, jit),
         4 * (k + 1) * jit < u
  PROVE  /\ BitsIn(x, a, w) \in Int
         /\ x >= k * u - jit => k <= BitsIn(x, a, w)
         /\ x <= k * u + jit => BitsIn(x, a, w) <= k
<1> DEFINE A == a * u
           B == a * jit
           KA == k * A
           KB == k * B
           KW == k * w
           X == x * a
           z == 2 * X + w
           v == 2 * w
<1>1. A \in Nat /\ B \in Nat /\ KA \in Nat /\ KB \in Nat /\ KW \in Nat /\ X \in Int
  OBVIOUS
<1>2. A - 2 * B <= w /\ w <= A + 2 * B
  <2>1. a * (u - 2 * jit) = A - 2 * B /\ a * (u + 2 * jit) = A + 2 * B
    OBVIOUS
  <2> QED BY <2>1 DEF CloseTo
<1>3. KA - 2 * KB <= KW /\ KW <= KA + 2 * KB
  <2> HIDE DEF A, B
  <2>1. k * (A - 2 * B) <= k * w /\ k * w <= k * (A + 2 * B)
    BY <1>1, <1>2, Multiples
  <2>2. k * (A - 2 * B) = KA - 2 * KB /\ k * (A + 2 * B) = KA + 2 * KB
    BY <1>1
  <2> QED BY <2>1, <2>2
<1>4. 4 * KB + 4 * B < A
  <2>1. 4 * (k + 1) * jit \in Int /\ a * (4 * (k + 1) * jit) < a * u
    BY Multiples
  <2>2. a * (4 * (k + 1) * jit) = 4 * KB + 4 * B
    OBVIOUS
  <2> QED BY <2>1, <2>2
<1>5. ASSUME x >= k * u - jit PROVE X >= KA - B
  <2>1. k * u - jit \in Int /\ a * (k * u - jit) <= a * x
    BY <1>5, Multiples
  <2>2. a * (k * u - jit) = KA - B /\ a * x = X
    OBVIOUS
  <2> QED BY <2>1, <2>2
<1>6. ASSUME x <= k * u + jit PROVE X <= KA + B
  <2>1. k * u + jit \in Int /\ a * x <= a * (k * u + jit)
    BY <1>6, Multiples
  <2>2. a * (k * u + jit) = KA + B /\ a * x = X
    OBVIOUS
  <2> QED BY <2>1, <2>2
<1>7. v \in Nat \ {0} /\ z \in Int /\ k * v = 2 * KW /\ (k + 1) * v = 2 * KW + v
  <2> HIDE DEF X
  <2> QED BY <1>1
<1>8. BitsIn(x, a, w) = z \div v /\ z \div v \in Int
  <2>1. BitsIn(x, a, w) = z \div v
    BY DEF BitsIn
  <2> HIDE DEF z, v
  <2> QED BY <1>7, <2>1
<1>9. ASSUME x >= k * u - jit PROVE k <= z \div v
  <2>1. 2 * KW <= z
    <3> HIDE DEF A, B, KA, KB, KW, X
    <3> QED BY <1>1, <1>2, <1>3, <1>4, <1>5, <1>9
  <2>2. k * v <= z
    <3> HIDE DEF z, v, KW
    <3> QED BY <1>7, <2>1
  <2> HIDE DEF z, v
  <2>3. k \in Int /\ z \in Int /\ v \in Nat \ {0}
    BY <1>7
  <2> QED BY <2>2, <2>3, DivIs
<1>10. ASSUME x <= k * u + jit PROVE z \div v <= k
  <2>1. z < 2 * KW + v
    <3> HIDE DEF A, B, KA, KB, KW, X
    <3> QED BY <1>1, <1>2, <1>3, <1>4, <1>6, <1>10
  <2> DEFINE r == z \div v
  <2> HIDE DEF z, v, KW
  <2>2. r \in Int /\ r * v <= z
    BY <1>7
  <2> HIDE DEF r
  <2>3. k < r => (k + 1) * v <= r * v
    <3>1. v \in Nat /\ k + 1 \in Int
      BY <1>7
    <3>2. k < r => v * (k + 1) <= v * r
      BY <2>2, <3>1, Multiples
    <3> QED BY <2>2, <3>1, <3>2
  <2>4. ~(k < r)
    <3> DEFINE y == r * v
               i == 2 * KW
    <3>1. y \in Int /\ i \in Int
      BY <1>1, <1>7, <2>2
    <3>2. k < r => i + v <= y
      BY <1>7, <2>3
    <3> HIDE DEF y, i
    <3> QED BY <1>7, <2>1, <2>2, <3>1, <3>2 DEF y, i
  <2> QED BY <2>2, <2>4 DEF r
<1> QED BY <1>8, <1>9, <1>10

\* What is longer than three bits is counted as more than one.
LEMMA LongCounts ==
  ASSUME NEW x \in Int, NEW u \in Nat, NEW jit \in Nat, NEW a \in Nat \ {0},
         NEW w \in Nat \ {0}, CloseTo(a, w, u, jit), 4 * jit < u, x >= 3 * u
  PROVE  BitsIn(x, a, w) \in Int /\ BitsIn(x, a, w) >= 2
<1> DEFINE A == a * u
           B == a * jit
           X == x * a
           z == 2 * X + w
           v == 2 * w
<1>1. A \in Nat /\ B \in Nat /\ X \in Int
  OBVIOUS
<1>2. w <= A + 2 * B
  <2>1. a * (u + 2 * jit) = A + 2 * B
    OBVIOUS
  <2> QED BY <2>1 DEF CloseTo
<1>3. 4 * B < A
  <2>1. a * (4 * jit) < a * u /\ a * (4 * jit) = 4 * B
    BY Multiples
  <2> QED BY <2>1
<1>4. X >= 3 * A
  <2>1. a * (3 * u) <= a * x /\ a * (3 * u) = 3 * A /\ a * x = X
    BY Multiples
  <2> QED BY <2>1
<1>5. 2 * v <= z /\ z \in Int /\ v \in Nat \ {0}
  <2> HIDE DEF A, B, X
  <2> QED BY <1>1, <1>2, <1>3, <1>4
<1>6. BitsIn(x, a, w) = z \div v
  BY DEF BitsIn
<1> HIDE DEF z, v
<1>7. z \div v \in Int /\ 2 <= z \div v
  BY <1>5, DivIs
<1> QED BY <1>6, <1>7

\* Widths close to the sender's add up to such a width.
LEMMA CloseSum ==
  ASSUME NEW u \in Nat, NEW jit \in Nat, NEW a \in Nat, NEW w \in Nat, NEW b \in Nat,
         NEW x \in Nat, CloseTo(a, w, u, jit), CloseTo(b, x, u, jit)
  PROVE  CloseTo(a + b, w + x, u, jit)
<1> DEFINE lo == u - 2 * jit
           hi == u + 2 * jit
<1>1. lo \in Int /\ hi \in Int
  OBVIOUS
<1> HIDE DEF lo, hi
<1>2. (a + b) * lo = a * lo + b * lo /\ (a + b) * hi = a * hi + b * hi
      /\ a * lo \in Int /\ b * lo \in Int /\ a * hi \in Int /\ b * hi \in Int
  BY <1>1
<1>3. a * lo <= w /\ w <= a * hi /\ b * lo <= x /\ x <= b * hi
  BY DEF CloseTo, lo, hi
<1>4. (a + b) * lo <= w + x /\ w + x <= (a + b) * hi
  BY <1>2, <1>3
<1> QED BY <1>4 DEF CloseTo, lo, hi

\* One or two bits that are off by no more than twice jit.
LEMMA CloseBits ==
  ASSUME NEW u \in Nat, NEW jit \in Nat, NEW i \in {1, 2}, NEW x \in Nat,
         Dist(x, i * u) <= 2 * jit
  PROVE  CloseTo(i, x, u, jit)
  BY DEF CloseTo, Dist

\* What is k bits, and within the tolerance of one or two, is that.
LEMMA TellsBits ==
  ASSUME NEW u \in Nat, NEW off \in Nat, NEW tol \in Nat, NEW k \in Nat, NEW i \in {1, 2},
         NEW x \in Nat, Dist(x, k * u) <= off, Dist(x, i * u) <= tol, tol + off < u
  PROVE  k = i
<1>1. k * u \in Nat /\ i * u \in Nat /\ u \in Nat \ {0}
  OBVIOUS
<1>2. k < i => k * u + u <= i * u
  BY <1>1, NextMultiple
<1>3. i < k => i * u + u <= k * u
  BY <1>1, NextMultiple
<1> DEFINE y == k * u
           v == i * u
<1>4. y \in Nat /\ v \in Nat /\ Dist(x, y) <= off /\ Dist(x, v) <= tol
  BY <1>1
<1> HIDE DEF y, v
<1>5. ~(y + u <= v) /\ ~(v + u <= y)
  BY <1>4 DEF Dist
<1> QED BY <1>2, <1>3, <1>5 DEF y, v

\* The widths close to those a sender uses for d.
Clocks(d, jit) ==
    {w \in Widths : CloseTo(w.n, w.s, d.short, jit) /\ CloseTo(w.n, w.l, d.long, jit)}

\* Bits measured close to the sender's are so when added up.
LEMMA ClockSum ==
  ASSUME NEW d, d.short \in Nat, d.long \in Nat, NEW jit \in Nat,
         NEW v \in Clocks(d, jit), NEW w \in Clocks(d, jit)
  PROVE  Plus(v, w) \in Clocks(d, jit)
<1> DEFINE r == Plus(v, w)
<1>1. /\ r \in Widths /\ r.n = v.n + w.n /\ r.s = v.s + w.s /\ r.l = v.l + w.l
  BY PlusType DEF Clocks
<1>2. /\ v.n \in Nat /\ v.s \in Nat /\ v.l \in Nat
      /\ w.n \in Nat /\ w.s \in Nat /\ w.l \in Nat
  BY DEF Widths, Clocks
<1>3. CloseTo(v.n + w.n, v.s + w.s, d.short, jit)
  BY <1>2, CloseSum DEF Clocks
<1>4. CloseTo(v.n + w.n, v.l + w.l, d.long, jit)
  BY <1>2, CloseSum DEF Clocks
<1> HIDE DEF r
<1>5. r \in Clocks(d, jit)
  BY <1>1, <1>3, <1>4 DEF Clocks
<1> QED BY <1>5 DEF r

\* A measurement whose parts are both close is a close width.
LEMMA ClockIs ==
  ASSUME NEW d, d.short \in Nat, d.long \in Nat, NEW jit \in Nat,
         NEW a \in Nat, NEW s \in Nat, NEW l \in Nat, s <= l,
         CloseTo(a, s, d.short, jit), CloseTo(a, l, d.long, jit)
  PROVE  Width(a, s, l) \in Clocks(d, jit)
  BY WidthType DEF Clocks

\* Nothing measured is as close as can be.
LEMMA NoClock ==
  ASSUME NEW d, d.short \in Nat, d.long \in Nat, NEW jit \in Nat
  PROVE  Width(0, 0, 0) \in Clocks(d, jit)
<1>1. \A u \in Nat : CloseTo(0, 0, u, jit)
  BY DEF CloseTo
<1> QED BY <1>1, ClockIs

\* A close width, or the nominal one, is in force.
LEMMA ClockInForce ==
  ASSUME NEW d, d.short \in Nat \ {0}, d.long \in Nat \ {0}, NEW jit \in Nat,
         NEW b \in Clocks(d, jit)
  PROVE  LET w == InForce(d, b)
         IN  /\ w.n \in Nat \ {0} /\ w.s \in Nat \ {0} /\ w.l \in Nat \ {0}
             /\ CloseTo(w.n, w.s, d.short, jit) /\ CloseTo(w.n, w.l, d.long, jit)
<1> DEFINE w == InForce(d, b)
<1>1. w.n \in Nat \ {0} /\ w.s \in Nat \ {0} /\ w.l \in Nat \ {0}
  BY InForceType DEF Clocks
<1>2. CASE b.n > 0 /\ b.s > 0
  BY <1>1, <1>2 DEF InForce, Clocks
<1>3. CASE ~(b.n > 0 /\ b.s > 0)
  <2>1. w.n = 1 /\ w.s = d.short /\ w.l = d.long
    BY <1>3 DEF InForce, Width
  <2>2. \A u \in Nat : CloseTo(1, u, u, jit)
    BY DEF CloseTo
  <2> QED BY <1>1, <2>1, <2>2
<1> QED BY <1>2, <1>3

\* NRZ: what is added for one pulse or gap, of k bits or the silence.
LEMMA SeenClose ==
  ASSUME NEW d, Timed(d), NRZ(d), d.short > 0, NEW jit \in Nat, PcmTolerance(d) + 2 * jit < d.short,
         NEW x \in Nat, NEW k \in Nat, Dist(x, k * d.short) <= jit \/ x >= 3 * d.short,
         NEW i \in {1, 2}
  PROVE  Seen(d, x, i) \in Clocks(d, jit)
<1>1. /\ d.short \in Nat \ {0} /\ d.long = d.short /\ PcmTolerance(d) \in Nat
  BY DeviceTypes DEF NRZ, PcmTolerance
<1>2. CASE ~InTolerance(d, x, i * d.short)
  BY <1>1, <1>2, NoClock DEF Seen
<1>3. CASE InTolerance(d, x, i * d.short)
  <2> DEFINE u == d.short
             tol == PcmTolerance(d)
  <2>1. u \in Nat \ {0} /\ tol \in Nat /\ tol + 2 * jit < u /\ Dist(x, i * u) <= tol
    BY <1>1, <1>3 DEF InTolerance
  <2>2. Dist(x, k * u) <= jit \/ x >= 3 * u
    OBVIOUS
  <2> HIDE DEF u, tol
  <2>3. ~(x >= 3 * u)
    BY <2>1 DEF Dist
  <2>4. Dist(x, k * u) <= jit /\ tol + jit < u
    BY <2>1, <2>2, <2>3
  <2>5. k = i
    BY <2>1, <2>4, TellsBits
  <2>6. Dist(x, i * u) <= 2 * jit
    <3> DEFINE y == Dist(x, i * u)
    <3>1. y \in Nat /\ y <= jit
      BY <2>1, <2>4, <2>5 DEF Dist
    <3> HIDE DEF y
    <3> QED BY <3>1 DEF y
  <2>7. CloseTo(i, x, u, jit)
    BY <2>1, <2>6, CloseBits
  <2>8. Width(i, x, x) \in Clocks(d, jit)
    BY <1>1, <2>7, ClockIs DEF u
  <2> QED BY <1>3, <2>8 DEF Seen
<1> QED BY <1>2, <1>3

\* A pulse of h bits and a gap of k bits, or the silence, that are no more than
\* jit off: what is measured of them is close to the sender's width.
LEMMA PulseClose ==
  ASSUME NEW d, Timed(d), d.kind = "PCM", ~d.slow, NEW jit \in Nat,
         PcmTolerance(d) + 2 * jit < d.short, PcmTolerance(d) + 2 * jit < d.long,
         NEW x \in Pulses, NEW h \in Nat, NEW k \in Nat, Steady(x.p, h, d.short, jit),
         ~NRZ(d) => h = 1,
         Steady(x.g + d.short, k + 1, d.long, jit) \/ x.g >= 3 * d.long
  PROVE  /\ SeenIn(d, x) \in Clocks(d, jit)
         /\ \A b \in Clocks(d, jit) :
                Toggle(d, x, InForce(d, b)) => ToggleWidth(d, x) \in Clocks(d, jit)
<1> DEFINE p == x.p
           g == x.g
           u == d.short
           v == d.long
           tol == PcmTolerance(d)
<1>1. /\ u \in Nat \ {0} /\ v \in Nat \ {0} /\ p \in Nat /\ g \in Nat /\ tol \in Nat
      /\ tol + 2 * jit < u /\ tol + 2 * jit < v
  BY DeviceTypes DEF Timed, Pulses, PcmTolerance
<1>2. Dist(p, h * u) <= jit /\ 4 * (h + 1) * jit < u
  BY DEF Steady
<1>3. (Dist(g + u, (k + 1) * v) <= jit /\ 4 * (k + 1 + 1) * jit < v) \/ g >= 3 * v
  BY DEF Steady
<1>4. Width(0, 0, 0) \in Clocks(d, jit)
  BY <1>1, NoClock
<1>5. CASE ~NRZ(d)
  <2>1. ASSUME InTolerance(d, p, u), InTolerance(d, p + g, v)
        PROVE  Width(1, p, p + g) \in Clocks(d, jit)
    <3>1. Dist(p + g, v) <= tol
      BY <2>1 DEF InTolerance
    <3> DEFINE q == p + g
    <3> HIDE DEF u, v, p, g, tol
    <3>2. ~(g >= 3 * v)
      BY <1>1, <3>1 DEF Dist
    <3>3. h = 1 /\ Dist(p, u) <= jit
      BY <1>1, <1>2, <1>5
    <3>4. Dist(g + u, (k + 1) * v) <= jit
      BY <1>3, <3>2
    <3>5. q \in Nat /\ Dist(q, (k + 1) * v) <= 2 * jit
      <4> DEFINE y == (k + 1) * v
      <4>1. y \in Nat
        BY <1>1
      <4> HIDE DEF y
      <4> QED BY <1>1, <3>3, <3>4, <4>1 DEF Dist, y
    <3>6. k + 1 = 1
      <4>1. Dist(q, 1 * v) <= tol /\ 2 * jit \in Nat /\ k + 1 \in Nat
        BY <1>1, <3>1
      <4> HIDE DEF q
      <4> QED BY <1>1, <3>5, <4>1, TellsBits
    <3>7. CloseTo(1, q, v, jit)
      <4> HIDE DEF q
      <4> QED BY <1>1, <3>5, <3>6, CloseBits
    <3>8. CloseTo(1, p, u, jit)
      BY <1>1, <3>3 DEF CloseTo, Dist
    <3>9. p <= q
      BY <1>1
    <3> QED BY <1>1, <3>5, <3>7, <3>8, <3>9, ClockIs DEF u, v
  <2>2. ToggleWidth(d, x) = Width(1, p, p + g)
    BY <1>5 DEF ToggleWidth
  <2>3. \A w : Toggle(d, x, w) => InTolerance(d, p, u) /\ InTolerance(d, p + g, v)
    BY <1>5 DEF Toggle
  <2>4. SeenIn(d, x) = IF Toggle(d, x, Width(1, d.short, d.long)) THEN ToggleWidth(d, x)
                       ELSE Width(0, 0, 0)
    BY <1>5 DEF SeenIn
  <2> HIDE DEF p, g, u, v
  <2> QED BY <1>4, <2>1, <2>2, <2>3, <2>4
<1>6. CASE NRZ(d)
  <2>1. v = u
    BY <1>6 DEF NRZ
  <2>2. (Dist(g, k * u) <= jit /\ 4 * (k + 1) * jit < u) \/ g >= 3 * u
    <3> HIDE DEF u, v, p, g, tol
    <3>1. CASE g >= 3 * v
      BY <2>1, <3>1
    <3>2. CASE Dist(g + u, (k + 1) * v) <= jit /\ 4 * (k + 1 + 1) * jit < v
      <4> DEFINE y == k * u
                 j == k * jit
      <4>1. y \in Nat /\ j \in Nat /\ (k + 1) * v = y + u /\ 4 * (k + 1 + 1) * jit = 4 * j + 8 * jit
            /\ 4 * (k + 1) * jit = 4 * j + 4 * jit
        BY <1>1, <2>1
      <4> HIDE DEF y, j
      <4>2. Dist(g, y) <= jit
        BY <1>1, <3>2, <4>1 DEF Dist
      <4>3. 4 * (k + 1) * jit < u
        BY <1>1, <2>1, <3>2, <4>1
      <4> QED BY <4>2, <4>3 DEF y
    <3> QED BY <1>3, <3>1, <3>2
  <2>3. SeenIn(d, x) \in Clocks(d, jit)
    <3>1. u > 0
      BY <1>1
    <3>2. Seen(d, p, 1) \in Clocks(d, jit) /\ Seen(d, p, 2) \in Clocks(d, jit)
      BY <1>1, <1>2, <1>6, SeenClose
    <3>3. Seen(d, g, 1) \in Clocks(d, jit) /\ Seen(d, g, 2) \in Clocks(d, jit)
      BY <1>1, <1>6, <2>2, SeenClose
    <3>4. SeenIn(d, x) = Plus(Plus(Seen(d, p, 1), Seen(d, p, 2)),
                              Plus(Seen(d, g, 1), Seen(d, g, 2)))
      BY <1>6 DEF SeenIn
    <3>5. d.short \in Nat /\ d.long \in Nat
      BY <1>1
    <3> HIDE DEF p, g, u, v
    <3>6. /\ Plus(Seen(d, p, 1), Seen(d, p, 2)) \in Clocks(d, jit)
          /\ Plus(Seen(d, g, 1), Seen(d, g, 2)) \in Clocks(d, jit)
      BY <3>2, <3>3, <3>5, ClockSum
    <3> QED BY <3>4, <3>5, <3>6, ClockSum
  <2>4. ASSUME NEW b \in Clocks(d, jit), Toggle(d, x, InForce(d, b))
        PROVE  ToggleWidth(d, x) \in Clocks(d, jit)
    <3> DEFINE w == InForce(d, b)
    <3>1. /\ w.n \in Nat \ {0} /\ w.s \in Nat \ {0} /\ w.l \in Nat \ {0}
          /\ CloseTo(w.n, w.s, u, jit) /\ CloseTo(w.n, w.l, v, jit)
      BY <1>1, ClockInForce
    <3>2. BitsIn(p, w.n, w.s) = 1 /\ BitsIn(g, w.n, w.l) = 1
      BY <1>6, <2>4 DEF Toggle
    <3>3. ToggleWidth(d, x) = Width(2, p + g, p + g)
      BY <1>6 DEF ToggleWidth
    <3> DEFINE a == w.n
               s == w.s
               l == w.l
    <3> HIDE DEF u, v, p, g, tol, w
    <3>4. ASSUME NEW y \in Nat, NEW i \in Nat, Dist(y, i * u) <= jit, 4 * (i + 1) * jit < u,
                 NEW c \in Nat \ {0}, CloseTo(a, c, u, jit), BitsIn(y, a, c) = 1
          PROVE  i = 1
      <4> DEFINE iu == i * u
                 r == BitsIn(y, a, c)
      <4>1. iu \in Nat /\ Dist(y, iu) <= jit
        BY <1>1, <3>4
      <4>2. y >= iu - jit /\ y <= iu + jit
        <5> HIDE DEF iu
        <5> QED BY <4>1 DEF Dist
      <4>3. a \in Nat \ {0} /\ u \in Nat /\ y \in Int
        BY <1>1, <3>1
      <4>4. r \in Int /\ i <= r /\ r <= i
        <5> HIDE DEF a
        <5> QED BY <3>4, <4>2, <4>3, CountsRight
      <4> HIDE DEF r, a
      <4> QED BY <3>4, <4>4 DEF r
    <3>5. h = 1
      BY <1>1, <1>2, <3>1, <3>2, <3>4
    <3>6. 4 * jit < u
      <4>1. 4 * (h + 1) * jit = 8 * jit
        BY <3>5
      <4> QED BY <1>1, <1>2, <4>1
    <3>7. ~(g >= 3 * u)
      <4>1. CloseTo(a, l, u, jit) /\ a \in Nat \ {0} /\ l \in Nat \ {0} /\ BitsIn(g, a, l) = 1
        BY <2>1, <3>1, <3>2
      <4> HIDE DEF a, l
      <4>2. g >= 3 * u => BitsIn(g, a, l) >= 2
        BY <1>1, <3>6, <4>1, LongCounts
      <4> QED BY <4>1, <4>2
    <3>8. k = 1
      BY <1>1, <2>1, <2>2, <3>1, <3>2, <3>4, <3>7
    <3>9. Dist(p, u) <= jit /\ Dist(g, u) <= jit
      BY <1>1, <1>2, <2>2, <3>5, <3>7, <3>8
    <3>10. p + g \in Nat /\ Dist(p + g, 2 * u) <= 2 * jit
      BY <1>1, <3>9 DEF Dist
    <3>11. CloseTo(2, p + g, u, jit)
      BY <1>1, <3>10, CloseBits
    <3>12. d.short = u /\ d.long = u
      BY <2>1 DEF u, v
    <3>13. Width(2, p + g, p + g) \in Clocks(d, jit)
      <4> DEFINE q == p + g
      <4>1. q \in Nat /\ q <= q /\ CloseTo(2, q, d.short, jit) /\ CloseTo(2, q, d.long, jit)
            /\ d.short \in Nat /\ d.long \in Nat
        BY <1>1, <3>10, <3>11, <3>12
      <4> HIDE DEF q
      <4>2. Width(2, q, q) \in Clocks(d, jit)
        BY <4>1, ClockIs
      <4> QED BY <4>2 DEF q
    <3> QED BY <3>3, <3>13
  <2> QED BY <2>3, <2>4
<1> QED BY <1>5, <1>6

\* What is sent tunes the bit width close to the sender's.
LEMMA TunedRight ==
  ASSUME NEW d, Timed(d), d.kind = "PCM", ~d.slow, NEW tr \in Seq(Pulses),
         NEW m \in Seq({0, 1}), NEW e, Runs(m, tr, e), NEW jit \in Nat,
         OffBy(d, m, tr, e, jit),
         ~NRZ(d) => \A k \in 1..Len(tr) : Units(e, 2 * k - 1) = 1,
         LastGap(tr) >= 3 * d.long
  PROVE  LET w == BitWidth(d, tr)
         IN  /\ w.n \in Nat \ {0} /\ w.s \in Nat \ {0} /\ w.l \in Nat \ {0}
             /\ CloseTo(w.n, w.s, d.short, jit) /\ CloseTo(w.n, w.l, d.long, jit)
<1> DEFINE W == Clocks(d, jit)
<1>1. d.short \in Nat \ {0} /\ d.long \in Nat \ {0}
  BY DeviceTypes DEF Timed
<1>2. ASSUME NEW k \in 1..Len(tr)
      PROVE  /\ SeenIn(d, tr[k]) \in W
             /\ \A b \in W : Toggle(d, tr[k], InForce(d, b)) => ToggleWidth(d, tr[k]) \in W
  <2> DEFINE h == Units(e, 2 * k - 1)
             g == IF k < Len(tr) THEN Units(e, 2 * k) ELSE 0
  <2>1. /\ 2 * k - 1 \in Inside(tr) /\ 2 * k - 1 \in 1..Symbols(tr) /\ 2 * k \in 1..Symbols(tr)
        /\ 2 * k - 1 + 1 = 2 * k
        /\ k < Len(tr) => 2 * k \in Inside(tr) /\ 2 * k + 1 \in 1..Symbols(tr)
        /\ Len(tr) \in Nat /\ k \in Nat /\ tr[k] \in Pulses
    BY PulseSymbols, LenProperties, ElementOfSeq
  <2>2. h \in Nat
    <3>1. e[2 * k - 1] \in 0..Len(m) /\ e[2 * k] \in 0..Len(m) /\ e[2 * k - 1] <= e[2 * k]
      BY <2>1 DEF Runs
    <3>2. h = e[2 * k] - e[2 * k - 1]
      BY <2>1 DEF Units
    <3> HIDE DEF h
    <3> QED BY <3>1, <3>2, LenProperties
  <2>3. g \in Nat
    <3>1. CASE k < Len(tr)
      <4>1. e[2 * k] \in 0..Len(m) /\ e[2 * k + 1] \in 0..Len(m) /\ e[2 * k] <= e[2 * k + 1]
        BY <2>1, <3>1 DEF Runs
      <4>2. g = e[2 * k + 1] - e[2 * k]
        BY <3>1 DEF Units
      <4> HIDE DEF g
      <4> QED BY <4>1, <4>2, LenProperties
    <3>2. CASE ~(k < Len(tr))
      BY <3>2
    <3> QED BY <3>1, <3>2
  <2>4. /\ PcmTolerance(d) + 2 * jit < d.short /\ PcmTolerance(d) + 2 * jit < d.long
        /\ Steady(tr[k].p, h, d.short, jit) /\ (~NRZ(d) => h = 1)
    BY DEF OffBy
  <2>5. Steady(tr[k].g + d.short, g + 1, d.long, jit) \/ tr[k].g >= 3 * d.long
    <3>1. CASE k < Len(tr)
      <4>1. k \in 1..Len(tr) - 1 /\ g = Units(e, 2 * k)
        BY <2>1, <3>1
      <4> HIDE DEF g
      <4> QED BY <4>1 DEF OffBy
    <3>2. CASE ~(k < Len(tr))
      <4>1. k = Len(tr)
        BY <2>1, <3>2
      <4> QED BY <4>1 DEF LastGap
    <3> QED BY <3>1, <3>2
  <2> DEFINE x == tr[k]
  <2>6. x \in Pulses
    BY <2>1
  <2> HIDE DEF h, g, x
  <2>7. /\ SeenIn(d, x) \in W
        /\ \A b \in W : Toggle(d, x, InForce(d, b)) => ToggleWidth(d, x) \in W
    BY <2>2, <2>3, <2>4, <2>5, <2>6, PulseClose DEF x
  <2> QED BY <2>7 DEF x
<1>3. Width(0, 0, 0) \in W
  BY <1>1, NoClock
<1>4. \A v \in W : \A w \in W : Plus(v, w) \in W
  BY <1>1, ClockSum
<1> HIDE DEF W
<1>5. PICK b \in W : BitWidth(d, tr) = InForce(d, b)
  BY <1>2, <1>3, <1>4, WidthIn
<1> QED BY <1>1, <1>5, ClockInForce DEF W

\* The calls of one pulse and its gap.
LEMMA PcmTells ==
  ASSUME NEW s \in Seq({0, 1}), NEW a \in 0..Len(s), NEW b \in a..Len(s), NEW c \in b..Len(s),
         \A i \in a + 1..b : s[i] = 1,
         \A i \in b + 1..c : s[i] = 0
  PROVE  /\ Repeat(b - a, Bit(1)) \o Repeat(c - b, Bit(0)) = BitCalls(s, a, c)
         /\ BitCalls(s, a, c) \in Seq(Calls)
<1>1. Len(s) \in Nat
  BY LenProperties
<1>2. Repeat(b - a, Bit(1)) = BitCalls(s, a, b)
  BY RunCalls
<1>3. Repeat(c - b, Bit(0)) = BitCalls(s, b, c)
  <2>1. b \in 0..Len(s)
    BY <1>1
  <2> QED BY <2>1, RunCalls
<1>4. Repeat(b - a, Bit(1)) \o Repeat(c - b, Bit(0)) = BitCalls(s, a, b) \o BitCalls(s, b, c)
  BY <1>2, <1>3
<1>5. c \in a..Len(s)
  BY <1>1
<1> QED BY <1>4, <1>5, TwoStretches, BitCallsTypes

\* The bits of a pulse.
LEMMA PcmPulse ==
  ASSUME NEW u \in Nat, NEW jit \in Nat, NEW x \in Nat, NEW k \in Nat, Steady(x, k, u, jit),
         NEW a \in Nat \ {0}, NEW w \in Nat \ {0}, CloseTo(a, w, u, jit)
  PROVE  BitsIn(x, a, w) = k
<1> DEFINE y == k * u
           r == BitsIn(x, a, w)
<1>1. y \in Nat /\ Dist(x, y) <= jit /\ 4 * (k + 1) * jit < u
  BY DEF Steady
<1>2. x >= y - jit /\ x <= y + jit
  <2> HIDE DEF y
  <2> QED BY <1>1 DEF Dist
<1>3. r \in Int /\ k <= r /\ r <= k
  BY <1>1, <1>2, CountsRight
<1> HIDE DEF r
<1> QED BY <1>3 DEF r

\* The bits of a gap, and of the silence.
LEMMA PcmGap ==
  ASSUME NEW d, Timed(d), d.kind = "PCM", ~d.slow, NEW jit \in Nat, NEW g \in Nat, NEW k \in Nat,
         k * d.long <= GapLimit(d),
         NEW a \in Nat \ {0}, NEW w \in Nat \ {0}, CloseTo(a, w, d.long, jit)
  PROVE  LET lows == BitsIn(g + d.short - d.long, a, w)
             max == GapLimit(d) \div d.long
         IN  /\ max \in Nat /\ k <= max
             /\ Steady(g + d.short, k + 1, d.long, jit) => lows = k
             /\ g >= (k + 1) * d.long /\ 4 * (k + 1) * jit < d.long => k <= lows /\ lows \in Nat
<1> DEFINE u == d.long
           h == d.short
           x == g + h - u
           y == k * u
           gap == GapLimit(d)
           r == BitsIn(x, a, w)
<1>1. u \in Nat \ {0} /\ h \in Nat /\ gap \in Nat
  BY DeviceTypes DEF Timed
<1>2. x \in Int /\ y \in Nat /\ (k + 1) * u = y + u
  BY <1>1
<1>3. y <= gap /\ CloseTo(a, w, u, jit)
  OBVIOUS
<1> HIDE DEF u, h, gap
<1>4. gap \div u \in Nat /\ k <= gap \div u
  <2> DEFINE q == gap \div u
  <2>1. q \in Int /\ gap \in Int /\ k \in Int /\ k * u <= gap
    BY <1>1, <1>3
  <2>2. k <= q
    BY <1>1, <2>1, DivIs
  <2> HIDE DEF q
  <2>3. q \in Nat
    BY <2>1, <2>2
  <2> QED BY <2>2, <2>3 DEF q
<1>5. ASSUME Steady(g + h, k + 1, u, jit) PROVE r = k
  <2>1. Dist(g + h, y + u) <= jit /\ 4 * (k + 1 + 1) * jit < u
    BY <1>2, <1>5 DEF Steady
  <2>2. x >= y - jit /\ x <= y + jit
    <3> HIDE DEF y
    <3> QED BY <1>1, <1>2, <2>1 DEF Dist
  <2>3. 4 * (k + 1) * jit < u
    <3> DEFINE i == k * jit
    <3>1. i \in Nat /\ 4 * (k + 1 + 1) * jit = 4 * i + 8 * jit /\ 4 * (k + 1) * jit = 4 * i + 4 * jit
      OBVIOUS
    <3> HIDE DEF i
    <3> QED BY <1>1, <2>1, <3>1
  <2>4. r \in Int /\ k <= r /\ r <= k
    <3> HIDE DEF x
    <3> QED BY <1>1, <1>2, <1>3, <2>2, <2>3, CountsRight
  <2> HIDE DEF r
  <2> QED BY <2>4
<1>6. ASSUME g >= (k + 1) * u, 4 * (k + 1) * jit < u PROVE k <= r /\ r \in Nat
  <2>1. x >= y - jit
    <3>1. g >= y + u
      BY <1>2, <1>6
    <3> HIDE DEF y
    <3> QED BY <1>1, <1>2, <3>1
  <2>2. r \in Int /\ k <= r
    <3> HIDE DEF x
    <3> QED BY <1>1, <1>2, <1>3, <1>6, <2>1, CountsRight
  <2> HIDE DEF r
  <2> QED BY <2>2
<1> QED BY <1>4, <1>5, <1>6 DEF u, h, gap

\* The runs of ones and zeros are told, and the silence adds zeros.
LEMMA PcmWrites ==
  ASSUME NEW d, Timed(d), d.kind = "PCM", ~d.slow, NEW tr \in Seq(Pulses),
         NEW m \in Seq({0, 1}), Len(m) > 0,
         Len(m) + GapLimit(d) \div d.long <= MaxRowBits, NEW e, InLevels(d, m, tr, e)
  PROVE  \E s, P : Writes(d, tr, s, P) /\ IsPrefix0(m, s)
<1> DEFINE l == Len(tr)
           c == Symbols(tr)
           k == Len(m) - e[c]
           max == GapLimit(d) \div d.long
           w == BitWidth(d, tr)
           lows == BitsIn(LastGap(tr) + d.short - d.long, w.n, w.l)
           z == IF lows > max THEN max ELSE lows
           s == [i \in 1..e[c] + z |-> IF i <= Len(m) THEN m[i] ELSE 0]
           at == [j \in 1..l |-> e[2 * j - 1]]
           t == [j \in 1..l |-> 0]
<1>1. /\ l > 0 /\ e \in [1..c -> 0..Len(m)] /\ e[1] = 0
      /\ \A j \in Inside(tr) :
            e[j] <= e[j + 1] /\ \A i \in e[j] + 1..e[j + 1] : m[i] = j % 2
      /\ \A i \in e[c] + 1..Len(m) : m[i] = 0
      /\ ~NRZ(d) =>
            \A j \in 1..l :
                Units(e, 2 * j - 1) = 1 /\ Dist(tr[j].p, d.short) <= PcmTolerance(d)
      /\ \A j \in 1..l - 1 :
            /\ Units(e, 2 * j) * d.long <= GapLimit(d)
            /\ tr[j].g <= d.reset /\ tr[j].g <= GapLimit(d)
      /\ LastGap(tr) > d.reset /\ LastGap(tr) >= (k + 1) * d.long
      /\ k * d.long <= GapLimit(d) /\ LastGap(tr) >= 3 * d.long
  BY DEF InLevels, Runs
<1>21. PICK jit \in 0..d.short : OffBy(d, m, tr, e, jit)
  BY DEF InLevels
<1>22. /\ jit \in Nat /\ 4 * (k + 1) * jit < d.long
       /\ \A j \in 1..l : Steady(tr[j].p, Units(e, 2 * j - 1), d.short, jit)
       /\ \A j \in 1..l - 1 : Steady(tr[j].g + d.short, Units(e, 2 * j) + 1, d.long, jit)
  <2>1. d.short \in Nat
    BY DeviceTypes
  <2> QED BY <1>21, <2>1 DEF OffBy
<1>23. /\ w.n \in Nat \ {0} /\ w.s \in Nat \ {0} /\ w.l \in Nat \ {0}
       /\ CloseTo(w.n, w.s, d.short, jit) /\ CloseTo(w.n, w.l, d.long, jit)
       /\ d.short \in Nat
  <2>1. Runs(m, tr, e) /\ ~NRZ(d) => \A j \in 1..Len(tr) : Units(e, 2 * j - 1) = 1
    BY <1>1 DEF InLevels
  <2>2. Runs(m, tr, e) /\ d.short \in Nat
    BY DeviceTypes DEF InLevels
  <2> HIDE DEF w
  <2> QED BY <1>1, <1>21, <1>22, <2>1, <2>2, TunedRight DEF w
<1> HIDE DEF w
<1>2. /\ l \in Nat \ {0} /\ Len(m) \in Nat /\ c \in Nat \ {0} /\ e[c] \in 0..Len(m)
      /\ LastGap(tr) \in Nat /\ Limit(d, tr) = l /\ k \in Nat
  BY <1>1, LastSymbol, LenProperties DEF Limit, SymbolKinds
<1>3. max \in Nat /\ k <= max /\ k <= lows /\ lows \in Nat
  <2> DEFINE g == LastGap(tr)
  <2>1. g \in Nat /\ g >= (k + 1) * d.long /\ k * d.long <= GapLimit(d)
    BY <1>1, <1>2
  <2> HIDE DEF g, k
  <2> QED BY <1>2, <1>22, <1>23, <2>1, PcmGap DEF g
<1>4. z \in Nat /\ k <= z /\ z <= max
  <2> HIDE DEF lows, max, k
  <2> QED BY <1>3
<1>5. s \in Seq({0, 1}) /\ Len(s) = e[c] + z
  <2>1. e[c] + z \in Nat
    BY <1>2, <1>4
  <2>2. \A i \in 1..e[c] + z : i <= Len(m) => m[i] \in {0, 1}
    BY <1>2, ElementOfSeq
  <2>3. s \in [1..e[c] + z -> {0, 1}]
    BY <2>2
  <2>4. s \in Seq({0, 1})
    BY <2>1, <2>3, SeqDef
  <2>5. DOMAIN s = 1..e[c] + z /\ DOMAIN s = 1..Len(s) /\ Len(s) \in Nat
    BY <2>3, <2>4, LenProperties
  <2> HIDE DEF s, z
  <2> QED BY <2>1, <2>4, <2>5
<1>6. \A i \in 1..Len(s) : s[i] = IF i <= Len(m) THEN m[i] ELSE 0
  BY <1>5
<1>7. Len(s) >= Len(m) /\ Len(s) > 0 /\ Len(s) <= MaxRowBits /\ Len(s) \in Nat
  <2>1. MaxRowBits \in Nat
    BY BufferAssumption DEF MaxRowBits
  <2> DEFINE v == e[c]
  <2>2. v \in Nat /\ v <= Len(m)
    BY <1>2
  <2>4. k = Len(m) - v
    OBVIOUS
  <2>5. Len(s) = v + z
    BY <1>5
  <2>3. Len(m) + max <= MaxRowBits /\ Len(m) \in Nat /\ Len(m) > 0
    BY <1>2
  <2> HIDE DEF z, max, k, v, s
  <2> QED BY <1>2, <1>3, <1>4, <2>1, <2>2, <2>3, <2>4, <2>5
<1> HIDE DEF s, z, k
<1>8. IsPrefix0(m, s)
  BY <1>6, <1>7 DEF IsPrefix0
<1>9. \A j \in 1..l : at[j] = e[2 * j - 1] /\ t[j] = 0 /\ at[j] \in 0..Len(s)
  <2> SUFFICES ASSUME NEW j \in 1..l PROVE e[2 * j - 1] \in 0..Len(s)
    OBVIOUS
  <2>1. 2 * j - 1 \in 1..c
    BY PulseSymbols
  <2>2. e[2 * j - 1] \in 0..Len(m)
    BY <1>1, <2>1
  <2> QED BY <1>2, <1>7, <2>2
<1> HIDE DEF at, t
<1>10. Start(d, tr) = To(BitCalls(s, 0, at[1]), 1, t[1])
  <2>1. 1 \in 1..l /\ at[1] = 0 /\ t[1] = 0 /\ 0 \in 0..Len(s) /\ 0 \in 0..Len(s)
    BY <1>1, <1>2, <1>7, <1>9
  <2>2. BitCalls(s, 0, 0) = << >>
    BY <1>5, <2>1, BitCallsTypes
  <2> QED BY <2>1, <2>2 DEF Start, When
<1>11. \A j \in 1..l : ~Corrupt(d, tr[j]) /\ tr[j] \in Pulses
  <2> SUFFICES ASSUME NEW j \in 1..l PROVE ~Corrupt(d, tr[j]) /\ tr[j] \in Pulses
    OBVIOUS
  <2>1. d.tol \in Nat /\ d.long \in Nat /\ d.short \in Nat
    BY DeviceTypes
  <2>5. tr[j].p \in Nat
    BY PulseTypes
  <2>6. PcmTolerance(d) \in Nat
    BY <2>1 DEF PcmTolerance
  <2>2. PcmTolerance(d) \in Nat /\ Dist(tr[j].p, d.short) \in Nat
    <3> DEFINE p == tr[j].p
               u == d.short
    <3>1. p \in Nat /\ u \in Nat
      BY <2>1, <2>5
    <3> HIDE DEF p, u
    <3>2. Dist(p, u) \in Nat
      BY <3>1 DEF Dist
    <3> QED BY <2>6, <3>2 DEF p, u
  <2>3. d.short # d.long => ~(Dist(tr[j].p, d.short) > PcmTolerance(d))
    BY <1>1, <2>2 DEF NRZ
  <2>4. tr[j] \in Pulses
    BY ElementOfSeq
  <2> QED BY <2>3, <2>4 DEF Corrupt
<1>12. ASSUME NEW j \in 1..l - 1
       PROVE  /\ at[j] <= at[j + 1]
              /\ Slice(d, tr, j, t[j]) = To(BitCalls(s, at[j], at[j + 1]), j + 1, t[j + 1])
  <2> DEFINE a == e[2 * j - 1]
             b == e[2 * j]
             f == e[2 * j + 1]
             x == tr[j]
  <2>1. /\ j \in 1..l /\ j < l /\ j # l
        /\ 2 * j - 1 \in 1..c /\ 2 * j \in 1..c /\ 2 * j + 1 \in 1..c
        /\ 2 * j - 1 \in Inside(tr) /\ 2 * j \in Inside(tr)
        /\ (2 * j - 1) % 2 = 1 /\ (2 * j) % 2 = 0
        /\ j + 1 \in 1..l /\ 2 * (j + 1) - 1 = 2 * j + 1 /\ 2 * j - 1 + 1 = 2 * j
    <3>1. j \in 1..l /\ j < l
      BY <1>2
    <3> QED BY <3>1, PulseSymbols
  <2>2. /\ a \in 0..Len(m) /\ b \in 0..Len(m) /\ f \in 0..Len(m)
        /\ a <= b /\ b <= f
        /\ \A i \in a + 1..b : m[i] = 1
        /\ \A i \in b + 1..f : m[i] = 0
        /\ Units(e, 2 * j - 1) = b - a /\ Units(e, 2 * j) = f - b
    BY <1>1, <2>1 DEF Units
  <2>3. /\ at[j] = a /\ at[j + 1] = f /\ t[j] = 0 /\ t[j + 1] = 0
    BY <1>9, <2>1
  <2>4. /\ x \in Pulses /\ x.g \in Nat /\ ~Corrupt(d, x)
        /\ x.p \in Nat /\ Steady(x.p, b - a, d.short, jit)
        /\ Steady(x.g + d.short, f - b + 1, d.long, jit)
        /\ (f - b) * d.long <= GapLimit(d)
        /\ x.g <= d.reset /\ x.g <= GapLimit(d)
    BY <1>1, <1>11, <1>22, <2>1, <2>2, PulseTypes
  <2> HIDE DEF a, b, f, x
  <2>5. a \in 0..Len(s) /\ b \in a..Len(s) /\ f \in b..Len(s) /\ f - b \in Nat
    BY <1>2, <1>7, <2>2
  <2>6. /\ \A i \in a + 1..b : s[i] = 1
        /\ \A i \in b + 1..f : s[i] = 0
    <3>1. /\ \A i \in a + 1..b : i \in 1..Len(s) /\ i <= Len(m)
          /\ \A i \in b + 1..f : i \in 1..Len(s) /\ i <= Len(m)
      BY <1>2, <1>7, <2>2
    <3> QED BY <1>6, <2>2, <3>1
  <2>13. BitsIn(x.p, w.n, w.s) = b - a
    <3> DEFINE h == b - a
               p == x.p
    <3>1. h \in Nat /\ p \in Nat /\ Steady(p, h, d.short, jit)
      BY <2>2, <2>4
    <3> HIDE DEF h, p
    <3> DEFINE v == w.n
               i == w.s
    <3>3. /\ v \in Nat \ {0} /\ i \in Nat \ {0} /\ CloseTo(v, i, d.short, jit)
          /\ d.short \in Nat /\ jit \in Nat
      BY <1>22, <1>23
    <3> HIDE DEF v, i
    <3>2. BitsIn(p, v, i) = h
      BY <3>1, <3>3, PcmPulse
    <3> QED BY <3>2 DEF h, p, v, i
  <2>7. LET lows2 == BitsIn(x.g + d.short - d.long, w.n, w.l)
            max2 == GapLimit(d) \div d.long
        IN  f - b = IF lows2 > max2 THEN max2 ELSE lows2
    <3> DEFINE h == f - b
               g == x.g
    <3>1. /\ h \in Nat /\ g \in Nat /\ h * d.long <= GapLimit(d)
          /\ Steady(g + d.short, h + 1, d.long, jit)
      BY <2>4, <2>5
    <3> HIDE DEF h, g
    <3>2. BitsIn(g + d.short - d.long, w.n, w.l) = h /\ h <= GapLimit(d) \div d.long
          /\ GapLimit(d) \div d.long \in Nat
      BY <1>22, <1>23, <3>1, PcmGap
    <3> QED BY <3>1, <3>2 DEF h, g
  <2>8. PcmBits(d, x, w) = BitCalls(s, a, f) /\ BitCalls(s, a, f) \in Seq(Calls)
    <3>1. PcmBits(d, x, w) = Repeat(b - a, Bit(1)) \o Repeat(f - b, Bit(0))
      BY <2>7, <2>13 DEF PcmBits
    <3>2. s \in Seq({0, 1})
      BY <1>5
    <3>3. /\ Repeat(b - a, Bit(1)) \o Repeat(f - b, Bit(0)) = BitCalls(s, a, f)
          /\ BitCalls(s, a, f) \in Seq(Calls)
      BY <2>5, <2>6, <3>2, PcmTells
    <3> QED BY <3>1, <3>3, Zenon
  <2>9. ~(x.g > GapLimit(d) /\ x.g <= d.reset) /\ ~AtEnd(d, tr, j)
    <3> DEFINE g == x.g
    <3>1. /\ GapLimit(d) \in Nat /\ d.reset \in Nat /\ g \in Nat
          /\ g <= d.reset /\ g <= GapLimit(d) /\ g = tr[j].g
      BY <2>4, DeviceTypes DEF x
    <3> HIDE DEF g
    <3>2. ~(g > GapLimit(d)) /\ ~(g > d.reset)
      BY <3>1
    <3>3. ~AtEnd(d, tr, j)
      BY <2>1, <3>1, <3>2 DEF AtEnd
    <3> QED BY <3>2, <3>3 DEF g
  <2>10. Pcm(d, tr, j) = To(BitCalls(s, a, f) \o << >> \o << >>, j + 1, 0)
    BY <2>4, <2>8, <2>9 DEF Pcm, When, x, w
  <2>11. BitCalls(s, a, f) \o << >> \o << >> = BitCalls(s, a, f)
    BY <2>8, ConcatEmptySeq
  <2>12. at[j] <= at[j + 1]
    BY <2>2, <2>3
  <2> QED BY <2>3, <2>10, <2>11, <2>12 DEF Slice
<1>13. Slice(d, tr, l, t[l]) = To(BitCalls(s, at[l], Len(s)) \o <<Do("endData", 1)>>, l + 1, 0)
  <2> DEFINE a == e[2 * l - 1]
             b == e[c]
             x == tr[l]
  <2>1. /\ l \in 1..l
        /\ 2 * l - 1 \in 1..c /\ 2 * l - 1 \in Inside(tr)
        /\ (2 * l - 1) % 2 = 1 /\ 2 * l - 1 + 1 = c
    <3>1. l \in 1..l
      BY <1>2
    <3> QED BY <1>2, <3>1, PulseSymbols
  <2>2. /\ a \in 0..Len(m) /\ b \in 0..Len(m) /\ a <= b
        /\ \A i \in a + 1..b : m[i] = 1
        /\ Units(e, 2 * l - 1) = b - a
    BY <1>1, <1>2, <2>1 DEF Units
  <2>3. at[l] = a /\ t[l] = 0
    BY <1>9, <2>1
  <2>4. /\ x \in Pulses /\ x.g = LastGap(tr) /\ ~Corrupt(d, x)
        /\ x.p \in Nat /\ Steady(x.p, b - a, d.short, jit) /\ x.g > d.reset
    BY <1>1, <1>11, <1>22, <2>1, <2>2, PulseTypes DEF LastGap
  <2> HIDE DEF a, b, x
  <2>5. a \in 0..Len(s) /\ b \in a..Len(s) /\ Len(s) \in b..Len(s) /\ Len(s) - b = z
    <3>1. Len(s) = b + z
      BY <1>5 DEF b
    <3> QED BY <1>2, <1>4, <1>7, <2>2, <3>1
  <2>6. /\ \A i \in a + 1..b : s[i] = 1
        /\ \A i \in b + 1..Len(s) : s[i] = 0
    <3>1. /\ \A i \in a + 1..b : i \in 1..Len(s) /\ i <= Len(m)
          /\ \A i \in b + 1..Len(s) : i \in 1..Len(s) /\ (i <= Len(m) => i \in b + 1..Len(m))
      BY <1>2, <1>7, <2>2
    <3> QED BY <1>1, <1>6, <2>2, <3>1 DEF b
  <2>12. BitsIn(x.p, w.n, w.s) = b - a
    <3> DEFINE h == b - a
               p == x.p
    <3>1. h \in Nat /\ p \in Nat /\ Steady(p, h, d.short, jit)
      BY <2>2, <2>4
    <3> HIDE DEF h, p
    <3> DEFINE v == w.n
               i == w.s
    <3>3. /\ v \in Nat \ {0} /\ i \in Nat \ {0} /\ CloseTo(v, i, d.short, jit)
          /\ d.short \in Nat /\ jit \in Nat
      BY <1>22, <1>23
    <3> HIDE DEF v, i
    <3>2. BitsIn(p, v, i) = h
      BY <3>1, <3>3, PcmPulse
    <3> QED BY <3>2 DEF h, p, v, i
  <2>7. LET lows2 == BitsIn(x.g + d.short - d.long, w.n, w.l)
            max2 == GapLimit(d) \div d.long
        IN  Len(s) - b = IF lows2 > max2 THEN max2 ELSE lows2
    BY <2>4, <2>5 DEF z
  <2>8. PcmBits(d, x, w) = BitCalls(s, a, Len(s)) /\ BitCalls(s, a, Len(s)) \in Seq(Calls)
    <3>1. PcmBits(d, x, w) = Repeat(b - a, Bit(1)) \o Repeat(Len(s) - b, Bit(0))
      BY <2>7, <2>12 DEF PcmBits
    <3>2. s \in Seq({0, 1})
      BY <1>5
    <3>3. /\ Repeat(b - a, Bit(1)) \o Repeat(Len(s) - b, Bit(0)) = BitCalls(s, a, Len(s))
          /\ BitCalls(s, a, Len(s)) \in Seq(Calls)
      BY <2>5, <2>6, <3>2, PcmTells
    <3> QED BY <3>1, <3>3, Zenon
  <2>9. ~(x.g > GapLimit(d) /\ x.g <= d.reset) /\ AtEnd(d, tr, l)
    <3>1. x.g \in Nat /\ d.reset \in Nat
      BY <1>2, <2>4, DeviceTypes
    <3> QED BY <2>4, <3>1 DEF AtEnd, x
  <2>10. Pcm(d, tr, l) = To(BitCalls(s, a, Len(s)) \o << >> \o <<Do("endData", 1)>>, l + 1, 0)
    BY <2>4, <2>8, <2>9 DEF Pcm, When, x, w
  <2>11. BitCalls(s, a, Len(s)) \o << >> = BitCalls(s, a, Len(s))
    BY <2>8, ConcatEmptySeq
  <2> QED BY <2>3, <2>10, <2>11 DEF Slice
<1>14. Ending(s, <<Do("endData", 1)>>)
  BY EndingBy DEF Ends
<1> HIDE DEF l, c
<1>15. \E P : Writes(d, tr, s, P)
  <2>1. \A j \in 1..l : at[j] \in 0..Len(s)
    BY <1>9
  <2>2. \E f : /\ Ending(s, f)
               /\ Slice(d, tr, l, t[l]) = To(BitCalls(s, at[l], Len(s)) \o f, l + 1, 0)
    BY <1>13, <1>14
  <2> QED BY <1>2, <1>5, <1>7, <1>10, <1>12, <2>1, <2>2, TurnByTurn
<1> QED BY <1>8, <1>15

\* The calls of one pulse.
LEMMA NrzsTells ==
  ASSUME NEW u \in Nat \ {0}, NEW p \in Nat, NEW s \in Seq({0, 1}),
         NEW a \in 0..Len(s), NEW b \in a + 1..Len(s),
         (b - a - 1) * u <= p, p < (b - a - 1 + 1) * u, b - a - 1 > 0 => p > u,
         \A i \in a + 1..b : s[i] = IF i < b THEN 1 ELSE 0
  PROVE  When(p > u, Repeat(p \div u, Bit(1)) \o <<Bit(0)>>) \o When(p < u, <<Bit(0)>>)
            = BitCalls(s, a, b)
<1> DEFINE k == b - a - 1
           c == b - 1
<1>1. /\ Len(s) \in Nat /\ a \in Nat /\ b \in Nat /\ k \in Nat
      /\ c \in a..Len(s) /\ c \in Nat /\ c < Len(s) /\ c + 1 = b /\ c - a = k
      /\ b \in c..Len(s)
  BY LenProperties
<1>2. s[c + 1] = 0
  BY <1>1
<1>3. <<Bit(0)>> = BitCalls(s, c, b)
  BY <1>1, <1>2, OneCall
<1>4. /\ k * u <= p /\ p < k * u + u /\ k * u \in Nat
      /\ k > 0 => p > u
  BY <1>1
<1>5. CASE k = 0
  <2>1. c = a /\ p < u /\ ~(p > u)
    BY <1>1, <1>4, <1>5
  <2>2. << >> \o <<Bit(0)>> = <<Bit(0)>>
    OBVIOUS
  <2> HIDE DEF c, k
  <2> QED BY <1>3, <2>1, <2>2 DEF When
<1>6. CASE k > 0
  <2>1. p > u /\ ~(p < u)
    BY <1>4, <1>6
  <2>2. p \div u = k
    <3>1. k \in Int /\ p \in Int /\ k * u <= p /\ p < k * u + u
      BY <1>1, <1>4
    <3> HIDE DEF k, c
    <3> QED BY <3>1, DivIs
  <2>3. Repeat(k, Bit(1)) = BitCalls(s, a, c)
    <3>1. \A i \in a + 1..c : s[i] = 1
      BY <1>1
    <3>2. Repeat(c - a, Bit(1)) = BitCalls(s, a, c)
      BY <1>1, <3>1, RunCalls
    <3> QED BY <1>1, <3>2
  <2>4. BitCalls(s, a, c) \o BitCalls(s, c, b) = BitCalls(s, a, b)
    BY <1>1, TwoStretches
  <2>5. BitCalls(s, a, b) \in Seq(Calls)
    <3>1. b \in a..Len(s)
      BY <1>1
    <3> QED BY <3>1, BitCallsTypes
  <2>6. BitCalls(s, a, b) \o << >> = BitCalls(s, a, b)
    BY <2>5, ConcatEmptySeq
  <2> HIDE DEF c, k
  <2>7. Repeat(p \div u, Bit(1)) \o <<Bit(0)>> = BitCalls(s, a, b)
    BY <1>3, <2>2, <2>3, <2>4
  <2> QED BY <2>1, <2>6, <2>7 DEF When
<1>7. k = 0 \/ k > 0
  BY <1>1
<1> QED BY <1>5, <1>6, <1>7

\* A run of ones and the 0 behind it is a pulse.
LEMMA NrzsWrites ==
  ASSUME NEW d, Timed(d), d.kind = "NRZS", ~d.slow, NEW tr \in Seq(Pulses),
         NEW m \in Seq({0, 1}), Len(m) > 0, Len(m) <= MaxRowBits,
         NEW e, InGroups(d, m, tr, e)
  PROVE  \E P : Writes(d, tr, m, P)
<1> DEFINE l == Len(tr)
           at == [j \in 1..l |-> e[j]]
           t == [j \in 1..l |-> 0]
           f == <<Do("end", 0)>>
           Tells(j) == When(tr[j].p > d.short, Repeat(tr[j].p \div d.short, Bit(1)) \o <<Bit(0)>>)
                        \o When(tr[j].p < d.short, <<Bit(0)>>)
<1>1. /\ l > 0 /\ e \in [1..l + 1 -> 0..Len(m)] /\ e[1] = 0 /\ e[l + 1] = Len(m)
      /\ \A j \in 1..l :
            /\ Units(e, j) - 1 >= 0
            /\ \A i \in e[j] + 1..e[j + 1] : m[i] = IF i < e[j + 1] THEN 1 ELSE 0
            /\ (Units(e, j) - 1) * d.short <= tr[j].p
            /\ tr[j].p < (Units(e, j) - 1 + 1) * d.short
            /\ Units(e, j) - 1 > 0 => tr[j].p > d.short
      /\ \A j \in 1..l - 1 : tr[j].g < d.reset
  BY DEF InGroups
<1>2. l \in Nat \ {0} /\ Limit(d, tr) = l /\ Len(m) \in Nat
  BY <1>1, LenProperties DEF Limit, SymbolKinds
<1>3. d.short \in Nat \ {0} /\ d.reset \in Nat
  BY DeviceTypes DEF Timed
<1>4. \A j \in 1..l : at[j] = e[j] /\ t[j] = 0 /\ at[j] \in 0..Len(m)
  BY <1>1, <1>2
<1> HIDE DEF at, t
<1>5. ASSUME NEW j \in 1..l
      PROVE  /\ Tells(j) = BitCalls(m, e[j], e[j + 1])
             /\ BitCalls(m, e[j], e[j + 1]) \in Seq(Calls)
             /\ e[j] <= e[j + 1]
  <2> DEFINE a == e[j]
             b == e[j + 1]
             p == tr[j].p
             u == d.short
  <2>1. j \in 1..l + 1 /\ j + 1 \in 1..l + 1
    BY <1>2
  <2>2. /\ a \in 0..Len(m) /\ b \in 0..Len(m) /\ b - a - 1 >= 0
        /\ \A i \in a + 1..b : m[i] = IF i < b THEN 1 ELSE 0
        /\ (b - a - 1) * u <= p /\ p < (b - a - 1 + 1) * u
        /\ b - a - 1 > 0 => p > u
    BY <1>1, <2>1 DEF Units
  <2>3. u \in Nat \ {0} /\ p \in Nat
    BY <1>3, PulseTypes
  <2> HIDE DEF a, b, p, u
  <2>4. b \in a + 1..Len(m) /\ b \in a..Len(m) /\ a <= b
    BY <1>2, <2>2
  <2>5. When(p > u, Repeat(p \div u, Bit(1)) \o <<Bit(0)>>) \o When(p < u, <<Bit(0)>>)
            = BitCalls(m, a, b)
    BY <2>2, <2>3, <2>4, NrzsTells
  <2>6. BitCalls(m, a, b) \in Seq(Calls)
    BY <2>2, <2>4, BitCallsTypes
  <2> QED BY <2>4, <2>5, <2>6 DEF a, b, p, u
<1>6. Start(d, tr) = To(BitCalls(m, 0, at[1]), 1, t[1])
  <2>1. 1 \in 1..l /\ at[1] = 0 /\ t[1] = 0 /\ 0 \in 0..Len(m) /\ 0 \in 0..Len(m)
    BY <1>1, <1>2, <1>4
  <2>2. BitCalls(m, 0, 0) = << >>
    BY <2>1, BitCallsTypes
  <2> QED BY <2>1, <2>2 DEF Start, When
<1>7. ASSUME NEW j \in 1..l - 1
      PROVE  /\ at[j] <= at[j + 1]
             /\ Slice(d, tr, j, t[j]) = To(BitCalls(m, at[j], at[j + 1]), j + 1, t[j + 1])
  <2>1. j \in 1..l /\ j + 1 \in 1..l /\ j # l
    BY <1>2
  <2>2. at[j] = e[j] /\ at[j + 1] = e[j + 1] /\ t[j] = 0 /\ t[j + 1] = 0
    BY <1>4, <2>1
  <2>3. ~(j = Len(tr) \/ tr[j].g >= d.reset)
    <3> DEFINE g == tr[j].g
    <3>1. g \in Nat /\ g < d.reset
      BY <1>1, <2>1, PulseTypes
    <3> HIDE DEF g
    <3>2. ~(g >= d.reset)
      BY <1>3, <3>1
    <3> QED BY <2>1, <3>2 DEF g
  <2>4. Nrzs(d, tr, j) = To(Tells(j) \o << >>, j + 1, 0)
    BY <2>3 DEF Nrzs, When
  <2>5. Tells(j) = BitCalls(m, e[j], e[j + 1]) /\ e[j] <= e[j + 1]
        /\ Tells(j) \o << >> = Tells(j)
    <3> HIDE DEF Tells
    <3> QED BY <1>5, <2>1, ConcatEmptySeq
  <2> QED BY <2>2, <2>4, <2>5 DEF Slice
<1>8. Slice(d, tr, l, t[l]) = To(BitCalls(m, at[l], Len(m)) \o f, l + 1, 0)
  <2>1. l \in 1..l
    BY <1>2
  <2>2. at[l] = e[l] /\ t[l] = 0 /\ e[l + 1] = Len(m)
    BY <1>1, <1>4, <2>1
  <2>3. Tells(l) = BitCalls(m, e[l], Len(m))
    BY <1>5, <2>1, <2>2
  <2>4. Nrzs(d, tr, l) = To(Tells(l) \o f, l + 1, 0)
    BY DEF Nrzs, When
  <2> QED BY <2>2, <2>3, <2>4 DEF Slice
<1>9. Ending(m, f)
  BY EndingBy DEF Ends
<1> HIDE DEF l, f
<1>10. \A j \in 1..l : at[j] \in 0..Len(m)
  BY <1>4
<1>11. \E g : Ending(m, g) /\ Slice(d, tr, l, t[l]) = To(BitCalls(m, at[l], Len(m)) \o g, l + 1, 0)
  BY <1>8, <1>9
<1> QED BY <1>2, <1>6, <1>7, <1>10, <1>11, TurnByTurn

\* Two calls in a row.
LEMMA TwoCalls ==
  ASSUME NEW x \in Calls, NEW y \in Calls
  PROVE  /\ <<x>> \o <<y>> = <<x, y>> /\ <<x, y>> \in Seq(Calls) /\ <<x, y>> # << >>
         /\ Head(<<x, y>>) = x /\ Len(<<x, y>>) = 2 /\ <<x, y>>[2] = y
<1> DEFINE p == <<x>>
           q == <<y>>
           r == <<x, y>>
<1>1. p \in Seq(Calls) /\ Len(p) = 1 /\ p[1] = x /\ q \in Seq(Calls) /\ Len(q) = 1 /\ q[1] = y
  OBVIOUS
<1>2. r \in Seq(Calls) /\ Len(r) = 2 /\ r[1] = x /\ r[2] = y /\ Head(r) = x /\ r # << >>
  OBVIOUS
<1> HIDE DEF p, q, r
<1>3. p \o q \in Seq(Calls) /\ Len(p \o q) = 2 /\ (p \o q)[1] = x /\ (p \o q)[2] = y
  BY <1>1, ConcatProperties
<1>4. \A i \in 1..2 : (p \o q)[i] = r[i]
  BY <1>2, <1>3
<1>5. p \o q = r
  BY <1>2, <1>3, <1>4, SeqEqual
<1> QED BY <1>2, <1>5 DEF p, q, r

\* The pulses and gaps are the runs of ones and zeros, to the last bit.
LEMMA PiwmRawWrites ==
  ASSUME NEW d, Timed(d), d.kind = "PIWM_RAW", ~d.slow, NEW tr \in Seq(Pulses),
         NEW m \in Seq({0, 1}), Len(m) > 0, Len(m) <= MaxRowBits,
         Len(m) <= (BITBUF_ROWS - 1) * RowBits, NEW e, InSymbols(d, m, tr, e)
  PROVE  \E P : Writes(d, tr, m, P)
<1> DEFINE l == Symbols(tr)
           at == [j \in 1..l |-> e[j]]
           t == [j \in 1..l |-> 0]
           f == <<Row>> \o <<Do("endRows", 0)>>
<1>1. /\ Len(tr) > 0 /\ e \in [1..l -> 0..Len(m)] /\ e[1] = 0 /\ e[l] = Len(m)
      /\ \A j \in Inside(tr) :
            /\ e[j] <= e[j + 1]
            /\ \A i \in e[j] + 1..e[j + 1] : m[i] = j % 2
            /\ InUnits(Symbol(tr, j), Units(e, j), d.short)
            /\ Dist(Symbol(tr, j), Units(e, j) * d.short) < d.tol
            /\ Symbol(tr, j) <= d.long /\ Symbol(tr, j) <= d.reset
      /\ LastGap(tr) > d.long
  BY DEF InSymbols, Runs
<1>2. /\ l \in Nat \ {0} /\ Limit(d, tr) = l /\ Len(m) \in Nat
      /\ Symbol(tr, l) = LastGap(tr) /\ LastGap(tr) \in Nat /\ Inside(tr) = 1..l - 1
  BY <1>1, LastSymbol, LenProperties DEF Limit, SymbolKinds, Inside
<1>3. d.short \in Nat \ {0} /\ d.reset \in Nat /\ d.long \in Nat /\ d.tol \in Nat
  BY DeviceTypes DEF Timed
<1>4. \A j \in 1..l : at[j] = e[j] /\ t[j] = 0 /\ at[j] \in 0..Len(m)
  BY <1>1, <1>2
<1> HIDE DEF at, t
<1>5. Start(d, tr) = To(BitCalls(m, 0, at[1]), 1, t[1])
  <2>1. 1 \in 1..l /\ at[1] = 0 /\ t[1] = 0 /\ 0 \in 0..Len(m) /\ 0 \in 0..Len(m)
    BY <1>1, <1>2, <1>4
  <2>2. BitCalls(m, 0, 0) = << >>
    BY <2>1, BitCallsTypes
  <2> QED BY <2>1, <2>2 DEF Start, When
<1>6. ASSUME NEW j \in 1..l - 1
      PROVE  /\ at[j] <= at[j + 1]
             /\ Slice(d, tr, j, t[j]) = To(BitCalls(m, at[j], at[j + 1]), j + 1, t[j + 1])
  <2> DEFINE a == e[j]
             b == e[j + 1]
             w == Symbol(tr, j)
             u == d.short
             v == j % 2
             k == b - a
  <2>1. j \in Inside(tr) /\ j \in 1..l /\ j + 1 \in 1..l /\ j # l /\ v \in {0, 1}
    BY <1>2
  <2>2. at[j] = a /\ at[j + 1] = b /\ t[j] = 0 /\ t[j + 1] = 0
    BY <1>4, <2>1
  <2>3. /\ a \in 0..Len(m) /\ b \in 0..Len(m) /\ a <= b
        /\ \A i \in a + 1..b : m[i] = v
        /\ InUnits(w, k, u) /\ Dist(w, k * u) < d.tol
        /\ w <= d.long /\ w <= d.reset
        /\ k = b - a /\ k \in Int
    BY <1>1, <2>1 DEF Units
  <2>4. w \in Nat /\ u \in Nat \ {0} /\ u = d.short
    BY <1>3, <2>1, SymbolType
  <2> HIDE DEF a, b, w, u, v, k
  <2>5. b \in a..Len(m) /\ ~(w > d.long) /\ ~(w > d.reset)
    BY <1>2, <1>3, <2>3, <2>4
  <2>6. Near(d, w, Round(w, u) * u) /\ Repeat(Round(w, u), Bit(v)) = BitCalls(m, a, b)
    <3>1. w \in Int /\ 2 * Dist(w, k * u) < u
      BY <2>3, <2>4 DEF InUnits
    <3>2. Round(w, u) = k
      BY <2>3, <2>4, <3>1, RoundIs
    <3>3. a \in 0..Len(m) /\ b \in a..Len(m) /\ v \in {0, 1} /\ \A i \in a + 1..b : m[i] = v
      BY <2>1, <2>3, <2>5 DEF v
    <3>4. Repeat(b - a, Bit(v)) = BitCalls(m, a, b)
      BY <3>3, RunCalls
    <3>5. Near(d, w, k * u)
      BY <2>3 DEF Near
    <3> QED BY <2>3, <3>2, <3>4, <3>5
  <2>7. BitCalls(m, a, b) \in Seq(Calls) /\ BitCalls(m, a, b) \o << >> = BitCalls(m, a, b)
    BY <2>3, <2>5, BitCallsTypes, ConcatEmptySeq
  <2>8. SymbolsEnd(d, tr, j) = << >>
    BY <2>1, <2>5 DEF SymbolsEnd, When, w
  <2>9. PiwmRaw(d, tr, j) = To(BitCalls(m, a, b) \o << >>, j + 1, 0)
    BY <2>4, <2>5, <2>6, <2>8 DEF PiwmRaw, w, u, v
  <2> QED BY <2>2, <2>3, <2>7, <2>9 DEF Slice
<1>7. Slice(d, tr, l, t[l]) = To(BitCalls(m, at[l], Len(m)) \o f, l + 1, 0)
  <2>1. l \in 1..l
    BY <1>2
  <2>2. at[l] = Len(m) /\ t[l] = 0
    BY <1>1, <1>4, <2>1
  <2>3. BitCalls(m, Len(m), Len(m)) = << >>
    <3>1. Len(m) \in 0..Len(m) /\ Len(m) \in Len(m)..Len(m)
      BY <1>2
    <3> QED BY <3>1, BitCallsTypes
  <2>4. SymbolsEnd(d, tr, l) = <<Do("endRows", 0)>>
    BY DEF SymbolsEnd, When
  <2>5. PiwmRaw(d, tr, l) = To(f, l + 1, 0)
    BY <1>1, <1>2, <2>4 DEF PiwmRaw
  <2>6. f = << >> \o f
    OBVIOUS
  <2> QED BY <2>2, <2>3, <2>5, <2>6 DEF Slice
<1>8. Ending(m, f)
  <2> DEFINE x == Do("row", 0)
             y == Do("endRows", 0)
  <2>1. x \in Calls /\ y \in Calls
    BY DEF Do, Calls, OpNames, Ends
  <2>2. x.op = "row" /\ y.op \in Ends
    BY DEF Do, Ends
  <2>3. f = <<x>> \o <<y>>
    BY DEF Row
  <2> HIDE DEF f, x, y
  <2>4. f \in Seq(Calls) /\ f # << >> /\ Head(f) = x /\ Len(f) = 2 /\ f[2] = y
    BY <2>1, <2>3, TwoCalls
  <2> QED BY <2>2, <2>4 DEF Ending
<1> HIDE DEF l, f
<1>9. \A j \in 1..l : at[j] \in 0..Len(m)
  BY <1>4
<1>10. \E g : Ending(m, g) /\ Slice(d, tr, l, t[l]) = To(BitCalls(m, at[l], Len(m)) \o g, l + 1, 0)
  BY <1>7, <1>8
<1> QED BY <1>2, <1>5, <1>6, <1>9, <1>10, TurnByTurn

\* The calls of one bit.
LEMMA DmcTells ==
  ASSUME NEW d, Timed(d), d.short + 2 * d.tol <= d.long, d.long + 2 * d.tol <= d.reset,
         NEW tr \in Seq(Pulses), NEW k \in 1..Symbols(tr)
  PROVE  LET w == Symbol(tr, k)
             x == Symbol(tr, k + 1)
         IN  /\ Dist(w, d.short) < d.tol /\ k + 1 \in 1..Symbols(tr)
                    /\ Dist(x, d.short) < d.tol
                => Dmc(d, tr, k) = To(<<Bit(1)>>, k + 2, 0)
             /\ Dist(w, d.short) < d.tol /\ k + 1 \in 1..Symbols(tr) /\ x >= d.reset
                => Dmc(d, tr, k) = To(<<Bit(1)>>, k + 1, 0)
             /\ Dist(w, d.long) < d.tol => Dmc(d, tr, k) = To(<<Bit(0)>>, k + 1, 0)
             /\ w >= d.reset /\ d.tol > 0
                => Dmc(d, tr, k) = To(<<Do("endRows", 0)>>, k + 1, 0)
<1> DEFINE w == Symbol(tr, k)
           x == Symbol(tr, k + 1)
<1>1. /\ d.short \in Nat /\ d.long \in Nat /\ d.reset \in Nat /\ d.tol \in Nat
  BY DeviceTypes
<1>2. k \in Nat /\ Symbols(tr) \in Nat /\ w \in Nat /\ k + 1 + 1 = k + 2
  BY SymbolType, LenProperties DEF Symbols
<1>3. k + 1 \in 1..Symbols(tr) => x \in Nat
  BY SymbolType
<1>4. <<Bit(1)>> \o << >> = <<Bit(1)>>
  OBVIOUS
<1>5. ASSUME Dist(w, d.short) < d.tol, k + 1 \in 1..Symbols(tr), Dist(x, d.short) < d.tol
      PROVE  Dmc(d, tr, k) = To(<<Bit(1)>>, k + 2, 0)
  <2>1. Near(d, w, d.short) /\ k + 1 <= Symbols(tr)
    BY <1>2, <1>5 DEF Near
  <2>2. ~(Dist(x, d.short) > d.tol)
    BY <1>1, <1>3, <1>5 DEF Dist
  <2>3. SecondHalf(d, tr, k + 1) = To(<< >>, k + 2, 0)
    BY <1>2, <2>1, <2>2 DEF SecondHalf, When
  <2>4. SecondHalf(d, tr, k + 1).ops = << >> /\ SecondHalf(d, tr, k + 1).n = k + 2
    BY <2>3 DEF To
  <2> QED BY <1>4, <2>1, <2>4 DEF Dmc
<1>6. ASSUME Dist(w, d.short) < d.tol, k + 1 \in 1..Symbols(tr), x >= d.reset
      PROVE  Dmc(d, tr, k) = To(<<Bit(1)>>, k + 1, 0)
  <2>1. Near(d, w, d.short) /\ k + 1 <= Symbols(tr)
    BY <1>2, <1>6 DEF Near
  <2>2. d.tol > 0
    BY <1>1, <1>2, <1>6 DEF Dist
  <2>3. Dist(x, d.short) > d.tol /\ LongSilence(d, x)
    BY <1>1, <1>3, <1>6, <2>2 DEF Dist, LongSilence
  <2>4. SecondHalf(d, tr, k + 1) = To(<< >>, k + 1, 0)
    BY <2>1, <2>3 DEF SecondHalf, When
  <2>5. SecondHalf(d, tr, k + 1).ops = << >> /\ SecondHalf(d, tr, k + 1).n = k + 1
    BY <2>4 DEF To
  <2> QED BY <1>4, <2>1, <2>5 DEF Dmc
<1>7. ASSUME Dist(w, d.long) < d.tol PROVE Dmc(d, tr, k) = To(<<Bit(0)>>, k + 1, 0)
  <2>1. Near(d, w, d.long) /\ ~Near(d, w, d.short)
    BY <1>1, <1>2, <1>7 DEF Near, Dist
  <2> QED BY <2>1 DEF Dmc
<1>8. ASSUME w >= d.reset, d.tol > 0
      PROVE  Dmc(d, tr, k) = To(<<Do("endRows", 0)>>, k + 1, 0)
  <2>1. ~Near(d, w, d.long) /\ ~Near(d, w, d.short) /\ LongSilence(d, w)
    <3>1. w \in Nat /\ w >= d.reset
      BY <1>2, <1>8
    <3>2. d.tol > 0
      BY <1>8
    <3> HIDE DEF w
    <3> DEFINE a == d.short
               b == d.long
               z == d.reset
               y == d.tol
    <3>3. /\ a \in Nat /\ b \in Nat /\ z \in Nat /\ y \in Nat /\ y > 0
          /\ a + 2 * y <= b /\ b + 2 * y <= z /\ w \in Nat /\ w >= z
      BY <1>1, <3>1, <3>2
    <3> HIDE DEF a, b, z, y
    <3>4. ~(Dist(w, b) < y) /\ ~(Dist(w, a) < y) /\ w >= z - y
      BY <3>3 DEF Dist
    <3> QED BY <3>4 DEF Near, LongSilence, a, b, z, y
  <2> QED BY <2>1 DEF Dmc, When
<1> QED BY <1>5, <1>6, <1>7, <1>8

\* A 1 is two short symbols, a 0 a long one.
LEMMA DmcWrites ==
  ASSUME NEW d, Timed(d), d.kind = "DMC", ~d.slow, NEW tr \in Seq(Pulses),
         NEW m \in Seq({0, 1}), Len(m) > 0, Len(m) <= MaxRowBits,
         NEW e, InPairs(d, m, tr, e)
  PROVE  \E P : Writes(d, tr, m, P)
<1> DEFINE c == Symbols(tr)
           l == Len(m)
           place(i) == [n |-> e[i], at |-> i - 1, t |-> 0]
           P == {place(i) : i \in 1..l + 1}
           f == <<Do("endRows", 0)>>
<1>1. /\ Len(tr) > 0
      /\ d.short + 2 * d.tol <= d.long /\ d.long + 2 * d.tol <= d.reset
      /\ e \in [1..l + 1 -> 1..c] /\ e[1] = 1 /\ e[l + 1] = c
      /\ \A i \in 1..l : Units(e, i) = 1 + m[i] \/ (i = l /\ Units(e, i) = 1)
      /\ \A i \in 1..l : \A k \in e[i]..e[i + 1] - 1 :
            Dist(Symbol(tr, k), IF m[i] = 1 THEN d.short ELSE d.long) < d.tol
      /\ LastGap(tr) >= d.reset
  BY DEF InPairs
<1>2. /\ l \in Nat \ {0} /\ Limit(d, tr) = c /\ c \in Nat \ {0} /\ c \in 1..c
      /\ Symbol(tr, c) = LastGap(tr) /\ LastGap(tr) \in Nat
  BY <1>1, LastSymbol, LenProperties DEF Limit, SymbolKinds
<1>3. /\ d.short \in Nat /\ d.long \in Nat /\ d.reset \in Nat /\ d.tol \in Nat
  BY DeviceTypes
<1> HIDE DEF c
<1>4. ASSUME NEW i \in 1..l
      PROVE  /\ e[i] \in 1..c /\ e[i + 1] \in 1..c /\ i + 1 \in 1..l + 1 /\ i \in 1..l + 1
             /\ Slice(d, tr, e[i], 0) = To(BitCalls(m, i - 1, i), e[i + 1], 0)
             /\ d.tol > 0
  <2> DEFINE a == e[i]
             b == e[i + 1]
             w == Symbol(tr, a)
             x == Symbol(tr, a + 1)
  <2>1. i \in 1..l + 1 /\ i + 1 \in 1..l + 1 /\ i - 1 \in Nat /\ i - 1 < l /\ i - 1 + 1 = i
    BY <1>2
  <2>2. a \in 1..c /\ b \in 1..c /\ m[i] \in {0, 1}
    BY <1>1, <2>1, ElementOfSeq
  <2>3. <<Bit(m[i])>> = BitCalls(m, i - 1, i)
    BY <2>1, OneCall
  <2>4. /\ b - a = 1 + m[i] \/ (i = l /\ b - a = 1)
        /\ \A k \in a..b - 1 : Dist(Symbol(tr, k), IF m[i] = 1 THEN d.short ELSE d.long) < d.tol
    BY <1>1 DEF Units
  <2>5. w \in Nat
    BY <2>2, SymbolType DEF c
  <2>6. a \in a..b - 1 /\ a \in Nat /\ b \in Nat
    BY <1>2, <2>2, <2>4
  <2>7. Dist(w, IF m[i] = 1 THEN d.short ELSE d.long) < d.tol
    BY <2>4, <2>6
  <2>8. d.tol > 0
    BY <1>3, <2>2, <2>5, <2>7 DEF Dist
  <2>9. Slice(d, tr, a, 0) = Dmc(d, tr, a)
    BY DEF Slice
  <2>10. Dmc(d, tr, a) = To(<<Bit(m[i])>>, b, 0)
    <3>1. CASE m[i] = 1 /\ b - a = 2
      <4>1. a + 1 \in a..b - 1 /\ a + 1 \in 1..c /\ b = a + 2
        BY <1>2, <2>2, <3>1
      <4>2. Dist(x, d.short) < d.tol /\ Dist(w, d.short) < d.tol
        BY <2>4, <2>7, <3>1, <4>1
      <4>3. Dmc(d, tr, a) = To(<<Bit(1)>>, a + 2, 0)
        BY <1>1, <2>2, <4>1, <4>2, DmcTells DEF c
      <4> QED BY <3>1, <4>1, <4>3
    <3>2. CASE m[i] = 1 /\ i = l /\ b - a = 1
      <4>1. a + 1 = c /\ b = a + 1 /\ a + 1 \in 1..c
        BY <1>1, <1>2, <2>2, <3>2
      <4>2. x >= d.reset /\ Dist(w, d.short) < d.tol
        BY <1>1, <1>2, <2>7, <3>2, <4>1
      <4>3. Dmc(d, tr, a) = To(<<Bit(1)>>, a + 1, 0)
        BY <1>1, <2>2, <4>1, <4>2, DmcTells DEF c
      <4> QED BY <3>2, <4>1, <4>3
    <3>3. CASE m[i] = 0
      <4>1. b = a + 1
        BY <2>2, <2>4, <3>3
      <4>2. Dist(w, d.long) < d.tol
        BY <2>7, <3>3
      <4>3. Dmc(d, tr, a) = To(<<Bit(0)>>, a + 1, 0)
        BY <1>1, <2>2, <4>2, DmcTells DEF c
      <4> QED BY <3>3, <4>1, <4>3
    <3> QED BY <2>2, <2>4, <3>1, <3>2, <3>3
  <2> QED BY <2>1, <2>2, <2>3, <2>8, <2>9, <2>10
<1>5. Slice(d, tr, c, 0) = To(f, c + 1, 0)
  <2>1. 1 \in 1..l
    BY <1>2
  <2>2. d.tol > 0
    BY <1>4, <2>1
  <2>3. Dmc(d, tr, c) = To(f, c + 1, 0)
    BY <1>1, <1>2, <2>2, DmcTells DEF c
  <2> QED BY <2>3 DEF Slice
<1>6. Ending(m, f) /\ << >> \o f = f
  BY EndingBy DEF Ends
<1> HIDE DEF f
<1>7. ASSUME NEW p \in P
      PROVE  /\ p.n \in 1..c /\ p.at \in 0..l
             /\ \/ \E q \in P : /\ p.at <= q.at
                                /\ Slice(d, tr, p.n, p.t) = To(BitCalls(m, p.at, q.at), q.n, q.t)
                \/ \E g : /\ Ending(m, g)
                          /\ Slice(d, tr, p.n, p.t) = To(BitCalls(m, p.at, l) \o g, c + 1, 0)
  <2>1. PICK i \in 1..l + 1 : p = place(i)
    OBVIOUS
  <2>2. p.n = e[i] /\ p.at = i - 1 /\ p.t = 0 /\ e[i] \in 1..c /\ i - 1 \in 0..l
    BY <1>1, <1>2, <2>1
  <2>3. CASE i # l + 1
    <3>1. i \in 1..l /\ i + 1 \in 1..l + 1 /\ i + 1 - 1 = i
      BY <1>2, <2>3
    <3> DEFINE q == place(i + 1)
    <3>2. q \in P
      BY <3>1
    <3>3. q.n = e[i + 1] /\ q.at = i /\ q.t = 0
      BY <3>1
    <3>4. Slice(d, tr, e[i], 0) = To(BitCalls(m, i - 1, i), e[i + 1], 0)
      BY <1>4, <3>1
    <3>5. i - 1 <= i
      BY <3>1
    <3> HIDE DEF q, P, place
    <3> QED BY <2>2, <3>2, <3>3, <3>4, <3>5
  <2>4. CASE i = l + 1
    <3>1. p.n = c /\ p.at = l /\ p.t = 0
      BY <1>1, <1>2, <2>2, <2>4
    <3>2. BitCalls(m, l, l) = << >>
      <4>1. l \in 0..l /\ l \in l..l
        BY <1>2
      <4> QED BY <4>1, BitCallsTypes
    <3>3. Slice(d, tr, p.n, p.t) = To(BitCalls(m, p.at, l) \o f, c + 1, 0)
      BY <1>5, <1>6, <3>1, <3>2
    <3> QED BY <1>6, <2>2, <3>3
  <2> QED BY <2>2, <2>3, <2>4
<1>8. \E p \in P : Start(d, tr) = To(BitCalls(m, 0, p.at), p.n, p.t)
  <2> DEFINE p == place(1)
  <2>1. 1 \in 1..l + 1 /\ 0 \in 0..l /\ 0 \in 0..0 /\ 1 - 1 = 0
    BY <1>2
  <2>2. p \in P
    BY <2>1
  <2>3. p.n = 1 /\ p.at = 0 /\ p.t = 0
    BY <1>1, <2>1
  <2>4. BitCalls(m, 0, 0) = << >>
    BY <2>1, BitCallsTypes
  <2> HIDE DEF p, P, place
  <2>5. Start(d, tr) = To(<< >>, 1, 0)
    BY DEF Start, When
  <2> QED BY <2>2, <2>3, <2>4, <2>5
<1> HIDE DEF P
<1> QED BY <1>2, <1>7, <1>8 DEF Writes

\* The halves of the bits.
LEMMA HalfBitsAre ==
  ASSUME NEW m \in Seq({0, 1})
  PROVE  /\ HalfBits(m) \in Seq({0, 1}) /\ Len(HalfBits(m)) = 2 * Len(m)
         /\ \A j \in 1..Len(m) : /\ HalfBits(m)[2 * j - 1] = m[j]
                                 /\ HalfBits(m)[2 * j] = 1 - m[j]
                                 /\ m[j] \in {0, 1}
<1> DEFINE h == HalfBits(m)
           l == Len(m)
<1>1. l \in Nat /\ 2 * l \in Nat /\ \A j \in 1..l : m[j] \in {0, 1}
  BY LenProperties, ElementOfSeq
<1>2. h = [i \in 1..2 * l |-> IF i % 2 = 1 THEN m[(i + 1) \div 2] ELSE 1 - m[i \div 2]]
  BY DEF HalfBits
<1>3. ASSUME NEW i \in 1..2 * l PROVE h[i] \in {0, 1}
  <2>1. CASE i % 2 = 1
    <3>1. (i + 1) \div 2 \in 1..l
      BY <1>1, <2>1
    <3>2. h[i] = m[(i + 1) \div 2]
      BY <1>2, <2>1
    <3> HIDE DEF h
    <3> QED BY <1>1, <3>1, <3>2
  <2>2. CASE i % 2 # 1
    <3>1. i \div 2 \in 1..l
      BY <1>1, <2>2
    <3>2. h[i] = 1 - m[i \div 2]
      BY <1>2, <2>2
    <3>3. m[i \div 2] \in {0, 1}
      BY <1>1, <3>1
    <3> HIDE DEF h
    <3> QED BY <3>2, <3>3
  <2> QED BY <2>1, <2>2
<1>4. ASSUME NEW j \in 1..l PROVE h[2 * j - 1] = m[j] /\ h[2 * j] = 1 - m[j]
  <2>1. /\ 2 * j - 1 \in 1..2 * l /\ (2 * j - 1) % 2 = 1 /\ (2 * j - 1 + 1) \div 2 = j
        /\ 2 * j \in 1..2 * l /\ (2 * j) % 2 # 1 /\ (2 * j) \div 2 = j
    BY <1>1
  <2> HIDE DEF h
  <2> QED BY <1>2, <2>1
<1>5. DOMAIN h = 1..2 * l
  BY <1>2
<1>6. h \in [1..2 * l -> {0, 1}]
  <2> HIDE DEF l
  <2>1. h = [i \in 1..2 * l |-> h[i]]
    BY <1>2, <1>5
  <2> HIDE DEF h
  <2> QED BY <1>3, <2>1
<1> HIDE DEF h
<1>7. h \in Seq({0, 1})
  BY <1>1, <1>6, SeqDef
<1>8. Len(h) = 2 * l
  <2>1. DOMAIN h = 1..Len(h) /\ Len(h) \in Nat
    BY <1>7, LenProperties
  <2> HIDE DEF l
  <2> QED BY <1>1, <1>5, <2>1
<1> QED BY <1>1, <1>4, <1>7, <1>8 DEF h

\* How many bits have begun when x halves are over.
LEMMA BitOfHalf ==
  ASSUME NEW x \in Nat
  PROVE  LET j == (x + 1) \div 2
         IN  j \in Nat /\ (x % 2 = 1 => x = 2 * j - 1) /\ (x % 2 # 1 => x = 2 * j)
  OBVIOUS

\* An edge in the middle of a bit is told from one between two bits.
LEMMA McTells ==
  ASSUME NEW d, Timed(d), NEW m \in Seq({0, 1}), NEW v \in {0, 1},
         NEW q \in 0..2 * Len(m), NEW x \in q..2 * Len(m), x - q \in {1, 2},
         \A i \in q + 1..x : HalfBits(m)[i] = v,
         NEW w \in Nat, NEW t \in Nat, InHalf(d, w, x - q),
         IF q % 2 = 1 THEN t = 0 ELSE InHalf(d, t, 1)
  PROVE  LET a == (q + 1) \div 2
             b == (x + 1) \div 2
         IN  /\ a \in 0..Len(m) /\ b \in a..Len(m)
             /\ When(DataEdge(d, w + t), <<Bit(v)>>) = BitCalls(m, a, b)
             /\ DataEdge(d, w + t) <=> x % 2 = 1
             /\ x % 2 # 1 => w + t = w /\ InHalf(d, w, 1)
<1> DEFINE l == Len(m)
           a == (q + 1) \div 2
           b == (x + 1) \div 2
           h == HalfBits(m)
<1>1. /\ l \in Nat /\ q \in Nat /\ x \in Nat /\ q <= 2 * l /\ x <= 2 * l /\ q <= x
      /\ d.short \in Nat
  BY LenProperties, DeviceTypes
<1>2. /\ a \in Nat /\ (q % 2 = 1 => q = 2 * a - 1) /\ (q % 2 # 1 => q = 2 * a)
      /\ b \in Nat /\ (x % 2 = 1 => x = 2 * b - 1) /\ (x % 2 # 1 => x = 2 * b)
  BY <1>1, BitOfHalf
<1>3. \A j \in 1..l : h[2 * j - 1] = m[j] /\ h[2 * j] = 1 - m[j] /\ m[j] \in {0, 1}
  BY HalfBitsAre
<1> HIDE DEF a, b, h, l
<1>4. CASE x % 2 = 1
  <2>1. x = 2 * b - 1 /\ x \in q + 1..x
    BY <1>1, <1>2, <1>4
  <2>2. \/ q % 2 = 1 /\ b = a + 1 /\ x - q = 2
        \/ q % 2 # 1 /\ b = a + 1 /\ x - q = 1
    BY <1>1, <1>2, <2>1
  <2>3. b \in 1..l /\ b = a + 1
    BY <1>1, <1>2, <2>1, <2>2
  <2>4. m[b] = v
    <3>1. h[x] = v
      BY <2>1 DEF h
    <3> QED BY <1>3, <2>1, <2>3, <3>1
  <2>5. DataEdge(d, w + t)
    <3>1. CASE q % 2 = 1 /\ x - q = 2
      <4>1. t = 0 /\ 3 * d.short < 2 * w
        BY <3>1 DEF InHalf
      <4> QED BY <1>1, <4>1 DEF DataEdge
    <3>2. CASE q % 2 # 1 /\ x - q = 1
      <4>1. 3 * d.short < 4 * w /\ 3 * d.short < 4 * t
        BY <3>2 DEF InHalf
      <4> QED BY <1>1, <4>1 DEF DataEdge
    <3> QED BY <2>2, <3>1, <3>2
  <2>6. a \in Nat /\ a < Len(m) /\ a \in 0..Len(m) /\ b \in a..Len(m)
    BY <1>1, <1>2, <2>3 DEF l
  <2>7. <<Bit(v)>> = BitCalls(m, a, b)
    BY <2>3, <2>4, <2>6, OneCall
  <2> QED BY <1>4, <2>5, <2>6, <2>7 DEF When, a, b
<1>5. CASE x % 2 # 1
  <2>1. x = 2 * b
    BY <1>2, <1>5
  <2>2. q % 2 = 1
    <3> SUFFICES ASSUME q % 2 # 1 PROVE FALSE
      OBVIOUS
    <3>1. q = 2 * a /\ b = a + 1
      BY <1>1, <1>2, <2>1
    <3>2. 2 * b - 1 \in q + 1..x /\ 2 * b \in q + 1..x /\ b \in 1..l
      BY <1>1, <1>2, <2>1, <3>1
    <3>3. h[2 * b - 1] = v /\ h[2 * b] = v
      BY <3>2 DEF h
    <3>4. m[b] = v /\ 1 - m[b] = v
      BY <1>3, <3>2, <3>3
    <3> QED BY <3>4
  <2>3. b = a /\ x - q = 1 /\ t = 0
    BY <1>1, <1>2, <2>1, <2>2
  <2>4. InHalf(d, w, 1) /\ w + t = w /\ 2 * w <= 3 * d.short
    BY <2>3 DEF InHalf
  <2>5. ~DataEdge(d, w + t)
    <3>1. ~(2 * w > 3 * d.short)
      BY <1>1, <2>4
    <3> QED BY <2>4, <3>1 DEF DataEdge
  <2>6. a \in 0..Len(m) /\ b \in a..Len(m)
    BY <1>1, <1>2, <2>1, <2>3 DEF l
  <2>7. BitCalls(m, a, b) = << >>
    BY <2>3, <2>6, BitCallsTypes
  <2> QED BY <1>5, <2>4, <2>5, <2>6, <2>7 DEF When, a, b
<1> QED BY <1>4, <1>5

\* A 0 is a gap and a pulse, a 1 a pulse and a gap.
LEMMA McWrites ==
  ASSUME NEW d, Timed(d), d.kind = "MC", ~d.slow, NEW tr \in Seq(Pulses),
         NEW m \in Seq({0, 1}), Len(m) > 0, Len(m) <= MaxRowBits,
         NEW e, InHalves(d, m, tr, e)
  PROVE  \E P : Writes(d, tr, m, P)
<1> DEFINE l == Len(tr)
           c == Symbols(tr)
           h == HalfBits(m)
           Begun(x) == (x + 1) \div 2
           at == [j \in 1..l |-> Begun(e[2 * j - 1])]
           t == [j \in 1..l |-> IF e[2 * j - 1] % 2 = 1 THEN 0 ELSE tr[j - 1].g]
           f == <<Do("endRows", 1), Bit(0)>>
<1>1. /\ d.tol = 0 /\ m[1] = 0 /\ l > 0 /\ e \in [1..c -> 0..Len(h)] /\ e[1] = 1
      /\ \A k \in Inside(tr) :
            /\ e[k] <= e[k + 1] /\ \A i \in e[k] + 1..e[k + 1] : h[i] = k % 2
            /\ Units(e, k) \in {1, 2} /\ InHalf(d, Symbol(tr, k), Units(e, k))
      /\ \A i \in e[c] + 1..Len(h) : h[i] = 0
      /\ \A j \in 1..l - 1 : tr[j].g <= d.reset
  BY DEF InHalves, Runs
<1>2. /\ Len(h) = 2 * Len(m) /\ Len(m) \in Nat
      /\ \A j \in 1..Len(m) : h[2 * j - 1] = m[j] /\ h[2 * j] = 1 - m[j] /\ m[j] \in {0, 1}
  BY HalfBitsAre, LenProperties
<1> HIDE DEF h
<1>3. l \in Nat \ {0} /\ Limit(d, tr) = l /\ c \in Nat \ {0} /\ c \in 1..c
  BY <1>1, LastSymbol, LenProperties DEF Limit, SymbolKinds
<1>4. d.short \in Nat /\ d.reset \in Nat
  BY DeviceTypes
\* One symbol.
<1>5. ASSUME NEW k \in Inside(tr), k \in 1..c, k + 1 \in 1..c, NEW s \in Nat,
             IF e[k] % 2 = 1 THEN s = 0 ELSE InHalf(d, s, 1)
      PROVE  /\ Begun(e[k]) \in 0..Len(m) /\ Begun(e[k + 1]) \in Begun(e[k])..Len(m)
             /\ When(DataEdge(d, Symbol(tr, k) + s), <<Bit(k % 2)>>)
                    = BitCalls(m, Begun(e[k]), Begun(e[k + 1]))
             /\ DataEdge(d, Symbol(tr, k) + s) <=> e[k + 1] % 2 = 1
             /\ e[k + 1] % 2 # 1 => /\ Symbol(tr, k) + s = Symbol(tr, k)
                                    /\ InHalf(d, Symbol(tr, k), 1)
             /\ Symbol(tr, k) \in Nat
  <2> DEFINE q == e[k]
             x == e[k + 1]
             w == Symbol(tr, k)
             v == k % 2
  <2>1. /\ q \in 0..2 * Len(m) /\ x \in 0..2 * Len(m) /\ q <= x
        /\ \A i \in q + 1..x : h[i] = v
        /\ x - q \in {1, 2} /\ InHalf(d, w, x - q)
    BY <1>1, <1>2, <1>5 DEF Units
  <2>2. w \in Nat /\ v \in {0, 1}
    BY <1>3, <1>5, SymbolType
  <2>3. IF q % 2 = 1 THEN s = 0 ELSE InHalf(d, s, 1)
    BY <1>5
  <2> HIDE DEF q, x, w, v
  <2>4. x \in q..2 * Len(m)
    BY <1>2, <2>1
  <2>5. \A i \in q + 1..x : HalfBits(m)[i] = v
    BY <2>1 DEF h
  <2>6. /\ Begun(q) \in 0..Len(m) /\ Begun(x) \in Begun(q)..Len(m)
        /\ When(DataEdge(d, w + s), <<Bit(v)>>) = BitCalls(m, Begun(q), Begun(x))
        /\ DataEdge(d, w + s) <=> x % 2 = 1
        /\ x % 2 # 1 => w + s = w /\ InHalf(d, w, 1)
    BY <2>1, <2>2, <2>3, <2>4, <2>5, McTells
  <2> QED BY <2>2, <2>6 DEF q, x, w, v
<1> HIDE DEF Begun
<1>6. \A j \in 1..l : /\ at[j] = Begun(e[2 * j - 1])
                      /\ t[j] = IF e[2 * j - 1] % 2 = 1 THEN 0 ELSE tr[j - 1].g
  OBVIOUS
<1> HIDE DEF at, t
\* What is remembered at the beginning of a turn.
<1>7. ASSUME NEW j \in 1..l
      PROVE  t[j] \in Nat /\ IF e[2 * j - 1] % 2 = 1 THEN t[j] = 0 ELSE InHalf(d, t[j], 1)
  <2>1. CASE j = 1
    <3>1. 2 * j - 1 = 1 /\ e[1] % 2 = 1
      BY <1>1, <2>1
    <3> QED BY <1>6, <3>1
  <2>2. CASE j # 1
    <3> DEFINE i == j - 1
    <3>1. i \in 1..l - 1 /\ i \in 1..l /\ i < l /\ 2 * i + 1 = 2 * j - 1 /\ i + 1 = j
      BY <1>3, <2>2
    <3> HIDE DEF i
    <3>2. /\ 2 * i \in Inside(tr) /\ 2 * i - 1 \in Inside(tr) /\ Symbol(tr, 2 * i) = tr[i].g
          /\ 2 * i \in 1..c /\ 2 * i + 1 \in 1..c /\ tr[i].g \in Nat
      BY <3>1, PulseSymbols, PulseTypes
    <3>3. CASE e[2 * j - 1] % 2 = 1
      BY <1>6, <3>3
    <3>4. CASE e[2 * j - 1] % 2 # 1
      <4>1. t[j] = tr[i].g
        BY <1>6, <3>4 DEF i
      <4>2. InHalf(d, tr[i].g, 1)
        <5> DEFINE q == e[2 * i]
                   x == e[2 * i + 1]
                   b == (x + 1) \div 2
        <5>1. /\ q \in 0..2 * Len(m) /\ x \in 0..2 * Len(m) /\ q <= x /\ x - q \in {1, 2}
              /\ \A n0 \in q + 1..x : h[n0] = (2 * i) % 2
              /\ InHalf(d, tr[i].g, x - q) /\ x % 2 # 1
          BY <1>1, <1>2, <3>1, <3>2, <3>4 DEF Units
        <5>2. (2 * i) % 2 = 0
          BY <3>1
        <5> HIDE DEF q, x
        <5>3. b \in Nat /\ x = 2 * b
          BY <1>2, <5>1, BitOfHalf
        <5> HIDE DEF b
        <5>4. x - q # 2
          <6> SUFFICES ASSUME x - q = 2 PROVE FALSE
            OBVIOUS
          <6>1. b \in 1..Len(m) /\ 2 * b \in q + 1..x /\ 2 * b - 1 \in q + 1..x
            BY <1>2, <5>1, <5>3
          <6>2. h[2 * b] = 0 /\ h[2 * b - 1] = 0
            BY <5>1, <5>2, <6>1
          <6>3. m[b] = 0 /\ 1 - m[b] = 0
            BY <1>2, <6>1, <6>2
          <6> QED BY <6>3
        <5> QED BY <5>1, <5>4
      <4> QED BY <3>2, <3>4, <4>1, <4>2
    <3> QED BY <3>3, <3>4
  <2> QED BY <2>1, <2>2
\* The pulse of a turn.
<1>8. ASSUME NEW j \in 1..l
      PROVE  LET u == Falling(d, tr[j], t[j])
                 a == at[j]
                 b == Begun(e[2 * j])
             IN  /\ a \in 0..Len(m) /\ b \in a..Len(m)
                 /\ u.ops = BitCalls(m, a, b)
                 /\ u.t \in Nat /\ IF e[2 * j] % 2 = 1 THEN u.t = 0 ELSE InHalf(d, u.t, 1)
  <2> DEFINE k == 2 * j - 1
             s == t[j]
             w == tr[j].p
             u == Falling(d, tr[j], s)
  <2>1. /\ k \in Inside(tr) /\ k \in 1..c /\ k + 1 \in 1..c /\ k + 1 = 2 * j
        /\ Symbol(tr, k) = w /\ k % 2 = 1 /\ w \in Nat
    <3>1. j \in Nat /\ k + 1 = 2 * j
      BY <1>3
    <3>2. /\ 2 * j - 1 \in Inside(tr) /\ 2 * j - 1 \in 1..c /\ 2 * j \in 1..c
          /\ Symbol(tr, 2 * j - 1) = w /\ (2 * j - 1) % 2 = 1
      BY PulseSymbols
    <3>3. w \in Nat
      BY PulseTypes
    <3> QED BY <3>1, <3>2, <3>3
  <2>2. at[j] = Begun(e[k])
    BY <1>6
  <2>3. s \in Nat /\ IF e[k] % 2 = 1 THEN s = 0 ELSE InHalf(d, s, 1)
    BY <1>7
  <2> HIDE DEF k, s, w
  <2>4. /\ Begun(e[k]) \in 0..Len(m) /\ Begun(e[k + 1]) \in Begun(e[k])..Len(m)
        /\ When(DataEdge(d, w + s), <<Bit(1)>>) = BitCalls(m, Begun(e[k]), Begun(e[k + 1]))
        /\ DataEdge(d, w + s) <=> e[k + 1] % 2 = 1
        /\ e[k + 1] % 2 # 1 => w + s = w /\ InHalf(d, w, 1)
    BY <1>5, <2>1, <2>3
  <2>5. u = IF DataEdge(d, w + s) THEN [ops |-> <<Bit(1)>>, t |-> 0]
            ELSE [ops |-> << >>, t |-> s + w]
    BY <1>1 DEF Falling, Invalid, w
  <2>6. u.ops = When(DataEdge(d, w + s), <<Bit(1)>>)
        /\ u.t = IF DataEdge(d, w + s) THEN 0 ELSE s + w
    BY <2>5 DEF When
  <2>7. s + w = w + s
    BY <2>1, <2>3
  <2> HIDE DEF u
  <2>8. u.t \in Nat /\ IF e[k + 1] % 2 = 1 THEN u.t = 0 ELSE InHalf(d, u.t, 1)
    <3>1. CASE DataEdge(d, w + s)
      BY <2>4, <2>6, <3>1
    <3>2. CASE ~DataEdge(d, w + s)
      <4>1. u.t = w /\ e[k + 1] % 2 # 1 /\ InHalf(d, w, 1)
        BY <2>4, <2>6, <2>7, <3>2
      <4> QED BY <2>1, <4>1
    <3> QED BY <3>1, <3>2
  <2> QED BY <2>1, <2>2, <2>4, <2>6, <2>8 DEF u, s
<1>9. ASSUME NEW j \in 1..l - 1
      PROVE  /\ at[j] <= at[j + 1]
             /\ Slice(d, tr, j, t[j]) = To(BitCalls(m, at[j], at[j + 1]), j + 1, t[j + 1])
  <2> DEFINE k == 2 * j
             u == Falling(d, tr[j], t[j])
             s == u.t
             w == tr[j].g
             a == at[j]
             b == Begun(e[k])
             z == Begun(e[k + 1])
  <2>1. /\ j \in 1..l /\ j < l /\ j # l /\ j + 1 \in 1..l /\ j + 1 - 1 = j
        /\ 2 * (j + 1) - 1 = k + 1
    BY <1>3
  <2>2. /\ k \in Inside(tr) /\ k \in 1..c /\ k + 1 \in 1..c
        /\ Symbol(tr, k) = w /\ k % 2 = 0 /\ w \in Nat
    BY <2>1, PulseSymbols, PulseTypes
  <2>3. /\ a \in 0..Len(m) /\ b \in a..Len(m) /\ u.ops = BitCalls(m, a, b)
        /\ s \in Nat /\ IF e[k] % 2 = 1 THEN s = 0 ELSE InHalf(d, s, 1)
    BY <1>8, <2>1
  <2>4. /\ at[j + 1] = z
        /\ t[j + 1] = IF e[k + 1] % 2 = 1 THEN 0 ELSE w
    <3>1. /\ at[j + 1] = Begun(e[2 * (j + 1) - 1])
          /\ t[j + 1] = IF e[2 * (j + 1) - 1] % 2 = 1 THEN 0 ELSE tr[j + 1 - 1].g
      BY <1>6, <2>1
    <3> QED BY <2>1, <3>1
  <2>5. ~AtEnd(d, tr, j)
    <3>1. w <= d.reset
      BY <1>1
    <3> HIDE DEF w
    <3>2. ~(w > d.reset)
      BY <1>4, <2>2, <3>1
    <3> QED BY <2>1, <3>2 DEF AtEnd, w
  <2> HIDE DEF k, s, w
  <2>6. /\ b \in 0..Len(m) /\ z \in b..Len(m)
        /\ When(DataEdge(d, w + s), <<Bit(0)>>) = BitCalls(m, b, z)
        /\ DataEdge(d, w + s) <=> e[k + 1] % 2 = 1
        /\ e[k + 1] % 2 # 1 => w + s = w
    BY <1>5, <2>2, <2>3
  <2> HIDE DEF u, a, b, z
  <2>7. Slice(d, tr, j, t[j]) = IF DataEdge(d, w + s) THEN To(u.ops \o <<Bit(0)>>, j + 1, 0)
                                ELSE To(u.ops, j + 1, s + w)
    BY <2>5 DEF Slice, Manchester, u, s, w
  <2>8. /\ a <= z /\ BitCalls(m, a, b) \in Seq(Calls)
        /\ BitCalls(m, a, b) \o BitCalls(m, b, z) = BitCalls(m, a, z)
        /\ BitCalls(m, a, b) \o << >> = BitCalls(m, a, b)
    <3>1. a \in Nat /\ b \in Nat /\ z \in Nat /\ a <= b /\ b <= z
      BY <1>2, <2>3, <2>6
    <3>2. BitCalls(m, a, b) \in Seq(Calls)
      BY <2>3, BitCallsTypes
    <3>3. BitCalls(m, a, b) \o BitCalls(m, b, z) = BitCalls(m, a, z)
      BY <2>3, <2>6, TwoStretches
    <3> QED BY <3>1, <3>2, <3>3, ConcatEmptySeq
  <2>9. CASE DataEdge(d, w + s)
    <3>1. <<Bit(0)>> = BitCalls(m, b, z) /\ t[j + 1] = 0
      BY <2>4, <2>6, <2>9 DEF When
    <3> QED BY <2>3, <2>4, <2>7, <2>8, <2>9, <3>1 DEF a
  <2>10. CASE ~DataEdge(d, w + s)
    <3>1. << >> = BitCalls(m, b, z) /\ t[j + 1] = w /\ w + s = w
      BY <2>4, <2>6, <2>10 DEF When
    <3>2. s + w = w
      BY <2>2, <2>3, <3>1
    <3> QED BY <2>3, <2>4, <2>7, <2>8, <2>10, <3>1, <3>2 DEF a
  <2> QED BY <2>9, <2>10
<1>10. Slice(d, tr, l, t[l]) = To(BitCalls(m, at[l], Len(m)) \o f, l + 1, 0)
  <2> DEFINE u == Falling(d, tr[l], t[l])
             x == e[c]
  <2>1. l \in 1..l /\ 2 * l = c /\ AtEnd(d, tr, l)
    BY <1>3 DEF AtEnd, Symbols
  <2>2. u.ops = BitCalls(m, at[l], Begun(x))
    BY <1>8, <2>1
  <2>3. Begun(x) = Len(m)
    <3>1. x \in 0..2 * Len(m) /\ \A i \in x + 1..2 * Len(m) : h[i] = 0
      BY <1>1, <1>2, <1>3
    <3> HIDE DEF x
    <3>2. Len(m) \in 1..Len(m)
      BY <1>2
    <3>3. ~(x <= 2 * Len(m) - 2)
      <4> SUFFICES ASSUME x <= 2 * Len(m) - 2 PROVE FALSE
        OBVIOUS
      <4>1. 2 * Len(m) \in x + 1..2 * Len(m) /\ 2 * Len(m) - 1 \in x + 1..2 * Len(m)
        BY <1>2, <3>1
      <4>2. h[2 * Len(m)] = 0 /\ h[2 * Len(m) - 1] = 0
        BY <3>1, <4>1
      <4>3. m[Len(m)] = 0 /\ 1 - m[Len(m)] = 0
        BY <1>2, <3>2, <4>2
      <4> QED BY <4>3
    <3> QED BY <1>2, <3>1, <3>3 DEF Begun
  <2> HIDE DEF u
  <2>4. Manchester(d, tr, l, t[l]) = To(u.ops \o f, l + 1, 0)
    BY <2>1 DEF Manchester, u
  <2> QED BY <2>2, <2>3, <2>4 DEF Slice
<1>11. Start(d, tr) = To(BitCalls(m, 0, at[1]), 1, t[1])
  <2>1. 1 \in 1..l /\ 2 * 1 - 1 = 1 /\ (1 + 1) \div 2 = 1 /\ e[1] % 2 = 1
    BY <1>1, <1>3
  <2>2. at[1] = 1 /\ t[1] = 0
    <3>1. at[1] = Begun(e[1]) /\ t[1] = 0
      BY <1>6, <2>1
    <3> QED BY <1>1, <2>1, <3>1 DEF Begun
  <2>3. 0 \in Nat /\ 0 < Len(m) /\ 0 + 1 = 1
    BY <1>2
  <2>4. <<Bit(0)>> = BitCalls(m, 0, 1)
    BY <1>1, <2>3, OneCall
  <2> QED BY <2>2, <2>4 DEF Start, When
<1>12. Ending(m, f)
  <2> DEFINE x == Do("endRows", 1)
             y == Bit(0)
  <2>1. x \in Calls /\ y \in Calls
    BY DEF Do, Bit, Calls, OpNames, Ends
  <2>2. x.op \in Ends
    BY DEF Do, Ends
  <2> HIDE DEF x, y
  <2>3. f = <<x, y>>
    BY DEF x, y
  <2> HIDE DEF f
  <2>4. f \in Seq(Calls) /\ f # << >> /\ Head(f) = x
    BY <2>1, <2>3, TwoCalls
  <2> QED BY <2>2, <2>4 DEF Ending
<1> HIDE DEF l, f
<1>13. \A j \in 1..l : at[j] \in 0..Len(m)
  BY <1>8
<1>14. \E g : Ending(m, g) /\ Slice(d, tr, l, t[l]) = To(BitCalls(m, at[l], Len(m)) \o g, l + 1, 0)
  BY <1>10, <1>12
<1> QED BY <1>3, <1>9, <1>11, <1>13, <1>14, TurnByTurn

\* m fits into the buffer: with the zeros of the silence, or with a row begun
\* behind it.
HasRoom(d, m) ==
    /\ Len(m) <= MaxRowBits
    /\ d.kind = "PCM" => Len(m) + GapLimit(d) \div d.long <= MaxRowBits
    /\ d.kind = "PIWM_RAW" => Len(m) <= (BITBUF_ROWS - 1) * RowBits

\* Whatever the line code is.
LEMMA SentWrites ==
  ASSUME NEW d, Timed(d), NEW tr \in Seq(Pulses), NEW m, Sends(d, m, tr), HasRoom(d, m)
  PROVE  \E s, P : /\ Writes(d, tr, s, P)
                   /\ IF d.kind = "PCM" THEN IsPrefix0(m, s) ELSE s = m
<1>1. PICK e : SendsBy(d, m, tr, e)
  BY DEF Sends
<1>2. m \in Seq({0, 1}) /\ Len(m) > 0 /\ ~d.slow
  BY <1>1 DEF SendsBy
<1>3. CASE InLevels(d, m, tr, e)
  <2>1. d.kind = "PCM"
    BY <1>3 DEF InLevels
  <2>2. \E s, P : Writes(d, tr, s, P) /\ IsPrefix0(m, s)
    BY <1>2, <1>3, <2>1, PcmWrites DEF HasRoom
  <2> QED BY <2>1, <2>2
<1>4. CASE ~InLevels(d, m, tr, e)
  <2> SUFFICES d.kind # "PCM" /\ \E P : Writes(d, tr, m, P)
    OBVIOUS
  <2>1. CASE InLengths(d, m, tr)
    <3>1. d.kind \in {"PPM", "PWM", "PIWM_DC"}
      BY <2>1 DEF InLengths, LengthKinds
    <3> QED BY <1>2, <2>1, <3>1, PpmWrites, PwmWrites, PiwmDcWrites DEF HasRoom
  <2>2. CASE InSymbols(d, m, tr, e)
    <3>1. d.kind = "PIWM_RAW"
      BY <2>2 DEF InSymbols
    <3> QED BY <1>2, <2>2, <3>1, PiwmRawWrites DEF HasRoom
  <2>3. CASE InHalves(d, m, tr, e)
    <3>1. d.kind = "MC"
      BY <2>3 DEF InHalves
    <3> QED BY <1>2, <2>3, <3>1, McWrites DEF HasRoom
  <2>4. CASE InGroups(d, m, tr, e)
    <3>1. d.kind = "NRZS"
      BY <2>4 DEF InGroups
    <3> QED BY <1>2, <2>4, <3>1, NrzsWrites DEF HasRoom
  <2>5. CASE InPairs(d, m, tr, e)
    <3>1. d.kind = "DMC"
      BY <2>5 DEF InPairs
    <3> QED BY <1>2, <2>5, <3>1, DmcWrites DEF HasRoom
  <2> QED BY <1>1, <1>4, <2>1, <2>2, <2>3, <2>4, <2>5 DEF SendsBy
<1> QED BY <1>3, <1>4

\* A message that is sent in a line code is the first row that is delivered.
THEOREM RoundTripSent ==
  Spec => [](phase = "slice" /\ pkg.type # "code" /\ Sends(Device, pkg.msg, pkg.tr)
                /\ HasRoom(Device, pkg.msg) => RoundTrip)
<1> DEFINE Delivered ==
             \A s, P : Writing(s, P) /\ phase = "slice" /\ todo = << >> /\ n > Turns => first = s
           Safe == phase = "slice" /\ pkg.type # "code" /\ Sends(Device, pkg.msg, pkg.tr)
                      /\ HasRoom(Device, pkg.msg) => RoundTrip
<1>1. ASSUME DispatchInv, WorkInv, Delivered PROVE Safe
  <2> DEFINE Back == IF Device.kind = "PCM" THEN IsPrefix0(pkg.msg, first)
                     ELSE first = pkg.msg
  <2> SUFFICES ASSUME phase = "slice", pkg.type # "code", Sends(Device, pkg.msg, pkg.tr),
                      HasRoom(Device, pkg.msg), todo = << >>, n > Turns
               PROVE  Back
    <3>1. RoundTrip <=> (phase = "slice" /\ todo = << >> /\ n > Turns /\ pkg.msg # << >> => Back)
      BY DEF RoundTrip
    <3> HIDE DEF Back
    <3> QED BY <3>1
  <2>1. Timed(Device)
    BY <1>1, DeviceRuns
  <2>2. pkg.tr \in Seq(Pulses)
    BY <1>1, PackageTypes DEF WorkInv, Running
  <2>3. PICK s, P : /\ Writes(Device, pkg.tr, s, P)
                    /\ IF Device.kind = "PCM" THEN IsPrefix0(pkg.msg, s) ELSE s = pkg.msg
    BY <2>1, <2>2, SentWrites
  <2>4. first = s
    BY <1>1, <2>3 DEF Writing
  <2> QED BY <2>3, <2>4
<1> HIDE DEF Delivered, Safe
<1>2. Spec => []Delivered
  BY Written DEF Delivered
<1>3. Spec => []Safe
  BY <1>1, <1>2, DispatchSafe, WorkSafe, PTL
<1> QED BY <1>3 DEF Safe

=============================================================================
