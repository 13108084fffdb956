-------------------------------- MODULE HexDump --------------------------------
(***************************************************************************)
(* The hexadecimal dump of a frame in the details pane                     *)
(* (packet_hexdump_to_string in packet.c; packet_hexdump is the same       *)
(* program and prints each line).                                          *)
(*                                                                         *)
(* One array str serves every line.  It is not initialised, a line         *)
(* overwrites the cells of the line before it, and a last line that is not *)
(* full must blank the rest.  A cell holds a digit or the character of a   *)
(* byte, named by the place of the byte in the frame.  A turn of a loop is *)
(* one action; where the frame ends is left open until the loop gets there.*)
(***************************************************************************)
EXTENDS Integers

CONSTANT MaxLength  \* bound of the model: bytes in the longest frame

ASSUME LengthAssumption == MaxLength \in Nat

VARIABLES
    pc,     \* "bytes" and "blanks" are the loops; "done"
    i,      \* the counter of the first loop
    j,      \* that of the second, in 0..16
    str,    \* the line being made, cell by cell
    out,    \* the line added to out last, or the empty function
    lines   \* the number of lines in out

vars == <<pc, i, j, str, out, lines>>

LineSize == 16      \* bytes in a line
Cells == 0..64      \* str without its terminator
line_indented == 78     \* mutation: "%-12c", as packet_hexdump indents it
LineLength == 67    \* a blank, the 65 cells and a newline
HEXDUMP_LENGTH == 4096

Blank == [kind |-> "blank", byte |-> -1]
Unwritten == [kind |-> "unwritten", byte |-> -1]
Byte(kind, k) == [kind |-> kind, byte |-> k]

NoLine == [c \in {} |-> Blank]

Init ==
    /\ pc = "bytes"
    /\ i = 0
    /\ j = 0
    /\ str = [c \in Cells |-> Unwritten]
    /\ out = NoLine
    /\ lines = 0

-----------------------------------------------------------------------------
text_column(k) == k + 49

(* The two digits of byte k, the blank after them, and its character. *)
with_byte(k) ==
    [str EXCEPT ![(k % 16) * 3]     = Byte("high", k),
                ![(k % 16) * 3 + 1] = Byte("low", k),
                ![(k % 16) * 3 + 2] = Blank,
                ![text_column(k % 16)] = Byte("char", k)]

separated(line) == [line EXCEPT ![47] = Blank, ![48] = Blank]

(* sprintf and strcat: the finished line goes to the end of out. *)
emit(line) ==
    /\ out' = separated(line)
    /\ lines' = lines + 1

full_line(k) == (k + 1) % 16 = 0

ByteTurn ==
    /\ pc = "bytes"
    /\ i < MaxLength
    /\ i' = i + 1
    /\ IF full_line(i)
       THEN /\ emit(with_byte(i))
            /\ str' = [out' EXCEPT ![0] = Blank]
       ELSE /\ str' = with_byte(i)
            /\ UNCHANGED <<out, lines>>
    /\ UNCHANGED <<pc, j>>

more_than_one_left == i % 16 > 1  \* mutation: off by one
partial_line == i % 16 > 0

(* The frame ends here.  An empty one has left at the head already. *)
BytesDone ==
    /\ pc = "bytes"
    /\ IF partial_line THEN pc' = "blanks" /\ j' = i % 16
                       ELSE pc' = "done" /\ UNCHANGED j
    /\ UNCHANGED <<i, str, out, lines>>

blanked_digits_only ==  \* mutation: the text column keeps the old characters
    [str EXCEPT ![j * 3] = Blank, ![j * 3 + 1] = Blank, ![j * 3 + 2] = Blank]

blanked ==
    [str EXCEPT ![j * 3] = Blank, ![j * 3 + 1] = Blank, ![j * 3 + 2] = Blank,
                ![text_column(j)] = Blank]

BlankTurn ==
    /\ pc = "blanks"
    /\ j < LineSize
    /\ str' = blanked
    /\ j' = j + 1
    /\ UNCHANGED <<pc, i, out, lines>>

BlanksDone ==
    /\ pc = "blanks"
    /\ j = LineSize
    /\ emit(str)
    /\ str' = separated(str)
    /\ pc' = "done"
    /\ UNCHANGED <<i, j>>

Next == ByteTurn \/ BytesDone \/ BlankTurn \/ BlanksDone

Spec == Init /\ [][Next]_vars

-----------------------------------------------------------------------------
(* The place of cell c in a line: the byte of the line and what of it, or  *)
(* a separator.                                                            *)
Place(c) ==
    IF c >= 49 THEN [kind |-> "char", byte |-> c - 49]
    ELSE IF c >= 47 \/ c % 3 = 2 THEN Blank
    ELSE [kind |-> IF c % 3 = 0 THEN "high" ELSE "low", byte |-> c \div 3]

(* Line n (from 1) of the dump of a frame of size bytes. *)
Line(n, size) ==
    [c \in Cells |->
        LET p == Place(c)
            k == LineSize * (n - 1) + p.byte
        IN  IF p = Blank \/ k >= size THEN Blank ELSE Byte(p.kind, k)]

(* Every line of a dump shows exactly the bytes it stands for, digits and  *)
(* characters, and blanks after the last byte of the frame: no cell of the *)
(* line before is left over and none that was never written is shown.      *)
LinesShowTheirBytes ==
    lines > 0 => out = Line(lines, i)

(* The dump is complete: a whole number of lines is out for the bytes read *)
(* so far, and one more for a last line that is not full.                  *)
EveryByteIsDumped ==
    lines = i \div LineSize + (IF pc = "done" /\ i % LineSize > 0 THEN 1 ELSE 0)

(* The buffer that packet_monitor and packet_control allocate holds a dump *)
(* with its terminator exactly when the frame has at most 976 bytes: 61    *)
(* lines.  (The longest frame data_callback receives has 1028.)            *)
DumpFits == pc = "done" => (lines * LineLength + 1 <= HEXDUMP_LENGTH <=> i <= 976)
===============================================================================
