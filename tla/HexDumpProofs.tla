----------------------------- MODULE HexDumpProofs -----------------------------
(***************************************************************************)
(* Theorems about the hexadecimal dump, for a frame of any length.         *)
(***************************************************************************)
EXTENDS HexDump, TLAPS

CellValue ==
    [kind : {"blank", "unwritten", "high", "low", "char"}, byte : Int]

(* The byte of the line whose turn writes cell c; no turn writes cell 48.  *)
slot(c) == IF c >= 49 THEN c - 49 ELSE c \div 3

(* What cell c shows in a line that starts at byte base. *)
shows(c, base, size) ==
    LET p == Place(c) IN
    IF p = Blank \/ base + p.byte >= size THEN Blank
                                          ELSE Byte(p.kind, base + p.byte)

-----------------------------------------------------------------------------
(* The inductive invariant: besides the lines that are out, it says which  *)
(* cells of the line being made are right already, and nothing of the      *)
(* others: they may hold the line before.                                  *)
line_start == i - (i % 16)

DumpTypeOK ==
    /\ pc \in {"bytes", "blanks", "done"}
    /\ i \in Nat
    /\ j \in 0..16
    /\ str \in [Cells -> CellValue]
    /\ lines \in Nat

WrittenCellsAreRight ==
    /\ pc = "bytes" => \A c \in Cells :
          slot(c) < i % 16 => str[c] = shows(c, line_start, i)
    /\ pc = "blanks" =>
          /\ 0 < i % 16 /\ i % 16 <= j
          /\ \A c \in Cells : slot(c) < j => str[c] = shows(c, line_start, i)

HexInv ==
    /\ DumpTypeOK
    /\ WrittenCellsAreRight
    /\ EveryByteIsDumped
    /\ LinesShowTheirBytes

-----------------------------------------------------------------------------
(* Arithmetic of lines of 16. *)
LEMMA LineOfByte ==
    ASSUME NEW k \in Nat
    PROVE  /\ k % 16 \in 0..15
           /\ k \div 16 \in Nat
           /\ k = 16 * (k \div 16) + (k % 16)
OBVIOUS

LEMMA LineOfNextByte ==
    ASSUME NEW k \in Nat
    PROVE  /\ (k + 1) % 16 = IF k % 16 = 15 THEN 0 ELSE (k % 16) + 1
           /\ (k + 1) \div 16 = (k \div 16) + IF k % 16 = 15 THEN 1 ELSE 0
OBVIOUS

(* The four cells of a slot. *)
LEMMA CellsOfSlot ==
    ASSUME NEW c \in Cells, NEW r \in 0..15
    PROVE  slot(c) = r <=> c \in {3 * r, 3 * r + 1, 3 * r + 2, 49 + r}
BY DEF Cells, slot

LEMMA SlotOfCell ==
    ASSUME NEW c \in Cells
    PROVE  slot(c) \in 0..16 /\ (slot(c) = 16 <=> c = 48)
BY DEF Cells, slot

(* What a cell shows, in terms of its slot. *)
LEMMA ShowsOfSlot ==
    ASSUME NEW c \in Cells, NEW base \in Int, NEW size \in Int
    PROVE  shows(c, base, size) =
              IF Place(c) = Blank \/ base + slot(c) >= size
              THEN Blank ELSE Byte(Place(c).kind, base + slot(c))
<1>1. Place(c) # Blank => Place(c).byte = slot(c)
  BY DEF Place, Blank, slot, Cells
<1> HIDE DEF Place, slot
<1>2. QED
  BY <1>1 DEF shows

(* Cell 48 belongs to no byte. *)
LEMMA ShowsNothing ==
    ASSUME NEW base \in Int, NEW size \in Int
    PROVE  /\ shows(48, base, size) = Blank
           /\ shows(47, base, size) = Blank
BY DEF shows, Place, Blank

(* What a cell shows does not depend on the bytes after its own. *)
LEMMA ShowsSame ==
    ASSUME NEW c \in Cells, NEW base \in Int, NEW m \in Int, NEW n \in Int,
           slot(c) = 16 \/ (base + slot(c) < m /\ base + slot(c) < n)
    PROVE  shows(c, base, m) = shows(c, base, n)
<1>1. CASE slot(c) = 16
  BY <1>1, SlotOfCell, ShowsNothing
<1>2. CASE slot(c) # 16
  <2>1. slot(c) \in Int /\ base + slot(c) < m /\ base + slot(c) < n
    BY <1>2, SlotOfCell
  <2>2. ~ (base + slot(c) >= m) /\ ~ (base + slot(c) >= n)
    BY <2>1
  <2>3. QED
    BY <2>2, ShowsOfSlot
<1>3. QED
  BY <1>1, <1>2

LEMMA LineShows ==
    ASSUME NEW n \in Int, NEW size \in Int
    PROVE  Line(n, size) = [c \in Cells |-> shows(c, 16 * (n - 1), size)]
BY DEF Line, shows, LineSize

(* A full line is the same however long the frame is. *)
LEMMA FullLineStays ==
    ASSUME NEW n \in Int, NEW k \in Int, NEW m \in Int, 16 * n <= k, 16 * n <= m
    PROVE  Line(n, k) = Line(n, m)
<1>1. ASSUME NEW c \in Cells
      PROVE  shows(c, 16 * (n - 1), k) = shows(c, 16 * (n - 1), m)
  <2>1. slot(c) = 16 \/ slot(c) \in 0..15
    BY SlotOfCell
  <2> DEFINE base == 16 * (n - 1)
  <2>2. base \in Int /\ base + 15 < k /\ base + 15 < m
    OBVIOUS
  <2> HIDE DEF base
  <2>3. slot(c) = 16 \/ (base + slot(c) < k /\ base + slot(c) < m)
    BY <2>1, <2>2
  <2>4. shows(c, base, k) = shows(c, base, m)
    BY <2>2, <2>3, ShowsSame
  <2>5. QED
    BY <2>4 DEF base
<1>2. QED
  BY <1>1, LineShows

-----------------------------------------------------------------------------
(* What the three updates of the line do, slot by slot. *)
CellInLine == [Cells -> CellValue]

LEMMA CellValues ==
    /\ Blank \in CellValue
    /\ Unwritten \in CellValue
    /\ \A kind \in {"high", "low", "char"}, k \in Int : Byte(kind, k) \in CellValue
BY DEF Blank, Unwritten, Byte, CellValue

LEMMA WithByteWrites ==
    ASSUME NEW k \in Nat, str \in CellInLine
    PROVE  /\ with_byte(k) \in CellInLine
           /\ \A c \in Cells :
                 with_byte(k)[c] = IF slot(c) = k % 16
                                   THEN shows(c, k - (k % 16), k + 1) ELSE str[c]
<1>1. PICK r \in 0..15 : r = k % 16
  BY LineOfByte
<1>2. PICK base \in Int : base = k - (k % 16) /\ base + r = k
  BY <1>1
<1> DEFINE a1 == r * 3
           a2 == r * 3 + 1
           a3 == r * 3 + 2
           a4 == r + 49
           g  == with_byte(k)
<1>3. /\ a1 \in Cells /\ a2 \in Cells /\ a3 \in Cells /\ a4 \in Cells
      /\ a1 # a2 /\ a1 # a3 /\ a1 # a4 /\ a2 # a3 /\ a2 # a4 /\ a3 # a4
  BY DEF Cells
<1>4. g = [str EXCEPT ![a1] = Byte("high", k), ![a2] = Byte("low", k),
                      ![a3] = Blank, ![a4] = Byte("char", k)]
  BY <1>1 DEF with_byte, text_column
<1>5. \A c \in Cells : slot(c) = r <=> c = a1 \/ c = a2 \/ c = a3 \/ c = a4
  BY CellsOfSlot
<1>6. /\ Place(a1) = Byte("high", r) /\ Place(a2) = Byte("low", r)
      /\ Place(a3) = Blank /\ Place(a4) = Byte("char", r)
  BY DEF Place, Byte, Blank
<1> HIDE DEF a1, a2, a3, a4, g
<1>7. /\ Byte("high", k) \in CellValue /\ Byte("low", k) \in CellValue
      /\ Byte("char", k) \in CellValue /\ Blank \in CellValue
  BY CellValues
<1>8. /\ g \in CellInLine
      /\ g[a1] = Byte("high", k) /\ g[a2] = Byte("low", k)
      /\ g[a3] = Blank /\ g[a4] = Byte("char", k)
      /\ \A c \in Cells : c # a1 /\ c # a2 /\ c # a3 /\ c # a4 => g[c] = str[c]
  BY <1>3, <1>4, <1>7 DEF CellInLine
<1>9. ~ (base + r >= k + 1)
  BY <1>2
<1>10. /\ Byte("high", r) # Blank /\ Byte("high", r).kind = "high"
       /\ Byte("low", r) # Blank /\ Byte("low", r).kind = "low"
       /\ Byte("char", r) # Blank /\ Byte("char", r).kind = "char"
  BY DEF Byte, Blank
<1>11. ASSUME NEW c \in Cells, slot(c) = r
       PROVE  g[c] = shows(c, base, k + 1)
  <2>1. shows(c, base, k + 1) = IF Place(c) = Blank THEN Blank
                                                    ELSE Byte(Place(c).kind, k)
    <3>1. k + 1 \in Int
      OBVIOUS
    <3>2. QED
      BY <1>2, <1>9, <1>11, <3>1, ShowsOfSlot
  <2>2. c = a1 \/ c = a2 \/ c = a3 \/ c = a4
    BY <1>5, <1>11
  <2>3. QED
    BY <1>6, <1>8, <1>10, <2>1, <2>2
<1>12. QED
  BY <1>1, <1>2, <1>5, <1>8, <1>11 DEF g

LEMMA BlankedWrites ==
    ASSUME NEW base \in Int, NEW size \in Int, str \in CellInLine,
           j \in 0..15, base + j >= size
    PROVE  /\ blanked \in CellInLine
           /\ \A c \in Cells : blanked[c] = IF slot(c) = j
                                             THEN shows(c, base, size) ELSE str[c]
<1> DEFINE a1 == j * 3
           a2 == j * 3 + 1
           a3 == j * 3 + 2
           a4 == j + 49
<1>1. a1 \in Cells /\ a2 \in Cells /\ a3 \in Cells /\ a4 \in Cells
  BY DEF Cells
<1>2. blanked = [str EXCEPT ![a1] = Blank, ![a2] = Blank, ![a3] = Blank, ![a4] = Blank]
  BY DEF blanked, text_column
<1>3. \A c \in Cells : slot(c) = j <=> c = a1 \/ c = a2 \/ c = a3 \/ c = a4
  BY CellsOfSlot
<1> HIDE DEF a1, a2, a3, a4
<1>4. /\ blanked \in CellInLine
      /\ \A c \in Cells : blanked[c] = IF c = a1 \/ c = a2 \/ c = a3 \/ c = a4
                                        THEN Blank ELSE str[c]
  BY <1>1, <1>2, CellValues DEF CellInLine
<1>5. \A c \in Cells : slot(c) = j => shows(c, base, size) = Blank
  BY ShowsOfSlot
<1>6. QED
  BY <1>3, <1>4, <1>5

(* A line whose sixteen slots are right is the line the dump should have.  *)
LEMMA SeparatedIsLine ==
    ASSUME NEW f \in CellInLine, NEW n \in Int, NEW size \in Int,
           \A c \in Cells : slot(c) < 16 => f[c] = shows(c, 16 * (n - 1), size)
    PROVE  separated(f) = Line(n, size)
<1> DEFINE base == 16 * (n - 1)
<1>1. shows(48, base, size) = Blank
  BY ShowsNothing
<1>2. shows(47, base, size) = Blank
  BY ShowsNothing
<1> HIDE DEF base
<1>3. \A c \in Cells : slot(c) < 16 => f[c] = shows(c, base, size)
  BY DEF base
<1>4. \A c \in Cells : c # 48 => slot(c) < 16
  BY SlotOfCell
<1>5. \A c \in Cells : separated(f)[c] = shows(c, base, size)
  BY <1>1, <1>2, <1>3, <1>4 DEF separated, CellInLine
<1>6. separated(f) \in [Cells -> CellValue]
  BY CellValues DEF separated, CellInLine
<1>7. separated(f) = [c \in Cells |-> shows(c, base, size)]
  BY <1>5, <1>6
<1>8. QED
  BY <1>7, LineShows DEF base

LEMMA SeparatedIsInLine ==
    ASSUME NEW f \in CellInLine
    PROVE  separated(f) \in CellInLine
BY CellValues DEF separated, CellInLine

-----------------------------------------------------------------------------
(* The invariant is inductive. *)
LEMMA HexStart == Init => HexInv
<1> SUFFICES ASSUME Init PROVE HexInv
  OBVIOUS
<1>1. str \in [Cells -> CellValue]
  BY CellValues DEF Init
<1>2. i = 0 /\ i % 16 = 0 /\ i \div 16 = 0
  BY DEF Init
<1>3. \A c \in Cells : ~ (slot(c) < 0)
  BY SlotOfCell
<1>4. QED
  BY <1>1, <1>2, <1>3 DEF Init, HexInv, DumpTypeOK, WrittenCellsAreRight,
     EveryByteIsDumped, LinesShowTheirBytes, LineSize

(* The byte read now fills its own slot and leaves the others right. *)
LEMMA ByteFillsSlot ==
    ASSUME HexInv, pc = "bytes"
    PROVE  /\ with_byte(i) \in CellInLine
           /\ \A c \in Cells : slot(c) <= i % 16 =>
                 with_byte(i)[c] = shows(c, line_start, i + 1)
<1>1. /\ i \in Nat /\ str \in CellInLine
      /\ \A c \in Cells : slot(c) < i % 16 => str[c] = shows(c, line_start, i)
  BY DEF HexInv, DumpTypeOK, WrittenCellsAreRight, CellInLine
<1>2. /\ with_byte(i) \in CellInLine
      /\ \A c \in Cells : with_byte(i)[c] = IF slot(c) = i % 16
                                             THEN shows(c, line_start, i + 1)
                                             ELSE str[c]
  BY <1>1, WithByteWrites DEF line_start
<1>3. /\ i % 16 \in 0..15 /\ line_start \in Int /\ line_start + (i % 16) = i
  BY <1>1, LineOfByte DEF line_start
<1>4. ASSUME NEW c \in Cells, slot(c) < i % 16
      PROVE  shows(c, line_start, i) = shows(c, line_start, i + 1)
  <2>1. slot(c) \in Int /\ line_start + slot(c) < i /\ line_start + slot(c) < i + 1
    BY <1>1, <1>3, <1>4, SlotOfCell
  <2>2. i \in Int /\ i + 1 \in Int
    BY <1>1
  <2>3. QED
    BY <1>3, <2>1, <2>2, ShowsSame
<1>5. \A c \in Cells : slot(c) <= i % 16 => slot(c) < i % 16 \/ slot(c) = i % 16
  BY <1>1, <1>3, SlotOfCell
<1>6. QED
  BY <1>1, <1>2, <1>4, <1>5

LEMMA ByteTurnKeeps ==
    ASSUME HexInv, ByteTurn
    PROVE  HexInv'
<1>1. /\ pc = "bytes" /\ pc' = "bytes" /\ i \in Nat /\ j \in 0..16 /\ j' = j
      /\ lines \in Nat /\ lines = i \div 16 /\ i' = i + 1
  BY DEF HexInv, DumpTypeOK, ByteTurn, EveryByteIsDumped, LineSize
<1>2. /\ with_byte(i) \in CellInLine
      /\ \A c \in Cells : slot(c) <= i % 16 =>
            with_byte(i)[c] = shows(c, line_start, i + 1)
  BY <1>1, ByteFillsSlot
<1>3. /\ i % 16 \in 0..15 /\ line_start \in Int
      /\ line_start = 16 * lines /\ line_start + (i % 16) = i
  BY <1>1, LineOfByte DEF line_start
<1>4. CASE full_line(i)
  <2>1. /\ i % 16 = 15 /\ i' % 16 = 0 /\ i' \div 16 = lines + 1
    BY <1>1, <1>3, <1>4, LineOfNextByte DEF full_line
  <2>2. /\ out' = separated(with_byte(i)) /\ lines' = lines + 1
        /\ str' = [out' EXCEPT ![0] = Blank]
    BY <1>4 DEF ByteTurn, emit
  <2>3. \A c \in Cells : slot(c) < 16 => slot(c) <= i % 16
    BY <2>1, SlotOfCell
  <2>4. line_start = 16 * (lines' - 1) /\ lines' \in Int /\ i + 1 \in Int
    BY <1>1, <1>3, <2>2
  <2>5. out' = Line(lines', i + 1)
    BY <1>2, <2>2, <2>3, <2>4, SeparatedIsLine
  <2>6. str' \in CellInLine
    <3>1. out' \in CellInLine
      BY <1>2, <2>2, SeparatedIsInLine
    <3>2. QED
      BY <2>2, <3>1, CellValues DEF CellInLine
  <2>7. \A c \in Cells : ~ (slot(c) < i' % 16)
    BY <2>1, SlotOfCell
  <2>8. DumpTypeOK'
    BY <1>1, <2>2, <2>6 DEF DumpTypeOK, CellInLine
  <2>9. EveryByteIsDumped' /\ LinesShowTheirBytes'
    BY <1>1, <2>1, <2>2, <2>5 DEF EveryByteIsDumped, LinesShowTheirBytes, LineSize
  <2>10. QED
    BY <1>1, <2>7, <2>8, <2>9 DEF HexInv, WrittenCellsAreRight
<1>5. CASE ~ full_line(i)
  <2>1. /\ i' % 16 = (i % 16) + 1 /\ i' \div 16 = lines
    BY <1>1, <1>3, <1>5, LineOfNextByte DEF full_line
  <2>2. /\ str' = with_byte(i) /\ out' = out /\ lines' = lines
    BY <1>5 DEF ByteTurn
  <2>3. line_start' = line_start
    BY <1>1, <2>1 DEF line_start
  <2>4. \A c \in Cells : slot(c) < (i % 16) + 1 => slot(c) <= i % 16
    BY <1>1, <1>3, SlotOfCell
  <2>5. WrittenCellsAreRight'
    <3>1. \A c \in Cells : slot(c) < i' % 16 => str'[c] = shows(c, line_start, i + 1)
      BY <1>2, <2>1, <2>2, <2>4
    <3>2. QED
      BY <1>1, <2>3, <3>1 DEF WrittenCellsAreRight
  <2>6. DumpTypeOK'
    BY <1>1, <1>2, <2>2 DEF DumpTypeOK, CellInLine
  <2>7. EveryByteIsDumped'
    BY <1>1, <2>1, <2>2 DEF EveryByteIsDumped, LineSize
  <2>8. LinesShowTheirBytes'
    <3>1. 16 * lines <= i /\ 16 * lines <= i + 1 /\ lines \in Int
          /\ i \in Int /\ i + 1 \in Int
      BY <1>1, <1>3
    <3>2. Line(lines, i) = Line(lines, i + 1)
      BY <3>1, FullLineStays
    <3>3. QED
      BY <1>1, <2>2, <3>2 DEF HexInv, LinesShowTheirBytes
  <2>9. QED
    BY <2>5, <2>6, <2>7, <2>8 DEF HexInv
<1>6. QED
  BY <1>4, <1>5

LEMMA BytesDoneKeeps ==
    ASSUME HexInv, BytesDone
    PROVE  HexInv'
<1>1. /\ pc = "bytes" /\ i \in Nat /\ i % 16 \in 0..15 /\ j \in 0..16
      /\ i' = i /\ str' = str /\ out' = out /\ lines' = lines
      /\ str \in [Cells -> CellValue] /\ lines \in Nat
      /\ lines = i \div 16
  BY LineOfByte DEF HexInv, DumpTypeOK, BytesDone, EveryByteIsDumped, LineSize
<1>2. \A c \in Cells : slot(c) < i % 16 => str[c] = shows(c, line_start, i)
  BY <1>1 DEF HexInv, WrittenCellsAreRight
<1>3. CASE i % 16 > 0
  <2>1. pc' = "blanks" /\ j' = i % 16
    BY <1>3 DEF BytesDone, partial_line
  <2>2. QED
    BY <1>1, <1>2, <1>3, <2>1 DEF HexInv, DumpTypeOK, WrittenCellsAreRight,
       EveryByteIsDumped, LinesShowTheirBytes, line_start
<1>4. CASE ~ (i % 16 > 0)
  <2>1. pc' = "done" /\ j' = j
    BY <1>4 DEF BytesDone, partial_line
  <2>2. EveryByteIsDumped'
    BY <1>1, <1>4, <2>1 DEF EveryByteIsDumped, LineSize
  <2>3. QED
    BY <1>1, <2>1, <2>2 DEF HexInv, DumpTypeOK, WrittenCellsAreRight,
       LinesShowTheirBytes
<1>5. QED
  BY <1>3, <1>4

LEMMA BlankTurnKeeps ==
    ASSUME HexInv, BlankTurn
    PROVE  HexInv'
<1>1. /\ pc = "blanks" /\ pc' = "blanks" /\ i \in Nat /\ i % 16 \in 0..15
      /\ j \in 0..15 /\ j' = j + 1 /\ 0 < i % 16 /\ i % 16 <= j
      /\ i' = i /\ str' = blanked /\ out' = out /\ lines' = lines
      /\ str \in CellInLine /\ lines \in Nat
  BY LineOfByte DEF HexInv, DumpTypeOK, BlankTurn, WrittenCellsAreRight,
     CellInLine, LineSize
<1>2. \A c \in Cells : slot(c) < j => str[c] = shows(c, line_start, i)
  BY <1>1 DEF HexInv, WrittenCellsAreRight
<1>3. line_start \in Int /\ i \in Int /\ line_start + j >= i
  BY <1>1 DEF line_start
<1>4. /\ blanked \in CellInLine
      /\ \A c \in Cells : blanked[c] = IF slot(c) = j
                                        THEN shows(c, line_start, i) ELSE str[c]
  BY <1>1, <1>3, BlankedWrites
<1>5. \A c \in Cells : slot(c) < j' => slot(c) < j \/ slot(c) = j
  BY <1>1, SlotOfCell
<1>6. \A c \in Cells : slot(c) < j' => str'[c] = shows(c, line_start, i)
  BY <1>1, <1>2, <1>4, <1>5
<1>7. line_start' = line_start
  BY <1>1 DEF line_start
<1>8. WrittenCellsAreRight'
  BY <1>1, <1>6, <1>7 DEF WrittenCellsAreRight
<1>9. DumpTypeOK'
  BY <1>1, <1>4 DEF DumpTypeOK, CellInLine
<1>10. EveryByteIsDumped' /\ LinesShowTheirBytes'
  BY <1>1 DEF HexInv, EveryByteIsDumped, LinesShowTheirBytes
<1>11. QED
  BY <1>8, <1>9, <1>10 DEF HexInv

LEMMA BlanksDoneKeeps ==
    ASSUME HexInv, BlanksDone
    PROVE  HexInv'
<1>1. /\ pc = "blanks" /\ pc' = "done" /\ i \in Nat /\ 0 < i % 16 /\ j = 16
      /\ i' = i /\ j' = j /\ str' = separated(str) /\ out' = separated(str)
      /\ lines' = lines + 1 /\ str \in CellInLine /\ lines \in Nat
      /\ lines = i \div 16
  BY DEF HexInv, DumpTypeOK, BlanksDone, WrittenCellsAreRight, EveryByteIsDumped,
     CellInLine, LineSize, emit
<1>2. \A c \in Cells : slot(c) < 16 => str[c] = shows(c, line_start, i)
  BY <1>1 DEF HexInv, WrittenCellsAreRight
<1>3. line_start = 16 * (lines' - 1) /\ lines' \in Int /\ i \in Int
  BY <1>1, LineOfByte DEF line_start
<1>4. out' = Line(lines', i)
  BY <1>1, <1>2, <1>3, SeparatedIsLine
<1>5. str' \in CellInLine
  BY <1>1, SeparatedIsInLine
<1>6. DumpTypeOK'
  BY <1>1, <1>5 DEF DumpTypeOK, CellInLine
<1>7. EveryByteIsDumped' /\ LinesShowTheirBytes'
  BY <1>1, <1>4 DEF EveryByteIsDumped, LinesShowTheirBytes, LineSize
<1>8. QED
  BY <1>1, <1>6, <1>7 DEF HexInv, WrittenCellsAreRight

LEMMA HexStep == HexInv /\ [Next]_vars => HexInv'
<1> SUFFICES ASSUME HexInv, [Next]_vars PROVE HexInv'
  OBVIOUS
<1>1. CASE UNCHANGED vars
  BY <1>1 DEF vars, HexInv, DumpTypeOK, WrittenCellsAreRight, EveryByteIsDumped,
     LinesShowTheirBytes, line_start
<1>2. QED
  BY <1>1, ByteTurnKeeps, BytesDoneKeeps, BlankTurnKeeps, BlanksDoneKeeps DEF Next

LEMMA HexInvariant == Spec => []HexInv
BY HexStart, HexStep, PTL DEF Spec

-----------------------------------------------------------------------------
(* Every line of a dump shows exactly the bytes it stands for, whatever    *)
(* the length of the frame (packet_hexdump_to_string, packet.c).           *)
THEOREM DumpShowsTheBytes == Spec => []LinesShowTheirBytes
<1>1. HexInv => LinesShowTheirBytes
  BY DEF HexInv
<1>2. QED
  BY <1>1, HexInvariant, PTL

(* A dump leaves no byte out: the lines are as many as the bytes need.     *)
THEOREM DumpIsComplete == Spec => []EveryByteIsDumped
<1>1. HexInv => EveryByteIsDumped
  BY DEF HexInv
<1>2. QED
  BY <1>1, HexInvariant, PTL

(* HEXDUMP_LENGTH is enough for exactly the frames of up to 976 bytes.     *)
THEOREM DumpFitsItsBuffer == Spec => []DumpFits
<1>1. HexInv => DumpFits
  <2> SUFFICES ASSUME HexInv, pc = "done"
               PROVE  lines * LineLength + 1 <= HEXDUMP_LENGTH <=> i <= 976
    BY DEF DumpFits
  <2>1. /\ i \in Nat /\ lines \in Nat
        /\ lines = i \div 16 + (IF i % 16 > 0 THEN 1 ELSE 0)
    BY DEF HexInv, DumpTypeOK, EveryByteIsDumped, LineSize
  <2>2. lines <= 61 <=> i <= 976
    BY <2>1, LineOfByte
  <2>3. QED
    BY <2>1, <2>2 DEF LineLength, HEXDUMP_LENGTH
<1>2. QED
  BY <1>1, HexInvariant, PTL
=============================================================================
