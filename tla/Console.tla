------------------------------- MODULE Console -------------------------------
(***************************************************************************)
(* The console driver of kern/console.c.  A console is a record: mem, the  *)
(* characters and colours of its memory by position; lsb and msb, the two  *)
(* cursor registers of the CRTC; color, g_terminal_color.  The operations  *)
(* return the console they leave.                                          *)
(***************************************************************************)
EXTENDS Integers

CONSTANTS
  CONSOLE_WIDTH, CONSOLE_HEIGHT,
  C_BYTE,        \* the number of values of a cursor register
  Color          \* the colours a character can have

C_CONSOLE_SIZE == CONSOLE_WIDTH * CONSOLE_HEIGHT
C_HIDDEN_OFFSET == C_CONSOLE_SIZE

ASSUME ConsoleAssumption ==
  /\ CONSOLE_WIDTH \in Nat \ {0} /\ CONSOLE_HEIGHT \in Nat \ {0}
  /\ C_BYTE \in Nat \ {0} /\ Color # {}
  /\ C_CONSOLE_SIZE + C_HIDDEN_OFFSET <= C_BYTE * C_BYTE

Positions == 0 .. C_CONSOLE_SIZE - 1

DEFAULT_COLOR == CHOOSE c \in Color : TRUE

(* C_DEFAULT_TERMINAL_CHAR in C_DEFAULT_TERMINAL_COLOR. *)
BLANK == <<"blank", DEFAULT_COLOR>>

in_bounds(row, col) ==
  row \in 0 .. CONSOLE_HEIGHT - 1 /\ col \in 0 .. CONSOLE_WIDTH - 1

get_hpos_status(hpos) ==
  CASE hpos \in C_HIDDEN_OFFSET .. C_CONSOLE_SIZE + C_HIDDEN_OFFSET - 1 -> "HIDDEN"
    [] hpos \in Positions -> "SHOWN"
    [] OTHER -> "invalid"

get_hardware_cursor(con) == con.msb * C_BYTE + con.lsb

set_hardware_cursor(con, hpos) ==
  [con EXCEPT !.lsb = hpos % C_BYTE, !.msb = (hpos \div C_BYTE) % C_BYTE]

row_col_to_lpos(row, col) == row * CONSOLE_WIDTH + col

hardware_to_logical(hpos) ==
  IF get_hpos_status(hpos) = "HIDDEN" THEN hpos - C_HIDDEN_OFFSET ELSE hpos

logical_to_hardware(lpos, hidden) ==
  IF hidden = "HIDDEN" THEN lpos + C_HIDDEN_OFFSET ELSE lpos

(* get_cursor, through lpos_to_row_col. *)
Lpos(con) == hardware_to_logical(get_hardware_cursor(con))
CursorRow(con) == Lpos(con) \div CONSOLE_WIDTH
CursorCol(con) == Lpos(con) % CONSOLE_WIDTH

(* A position that is out of bounds changes nothing. *)
set_cursor(con, row, col) ==
  IF ~in_bounds(row, col) THEN con
  ELSE set_hardware_cursor(con, logical_to_hardware(row_col_to_lpos(row, col),
         get_hpos_status(get_hardware_cursor(con))))

draw_char(con, row, col, cell) ==
  IF ~in_bounds(row, col) THEN con
  ELSE [con EXCEPT !.mem[row_col_to_lpos(row, col)] = cell]

scroll_console(con) ==
  [con EXCEPT !.mem = [p \in Positions |->
     IF p + CONSOLE_WIDTH \in Positions THEN @[p + CONSOLE_WIDTH] ELSE BLANK]]

set_term_color(con, color) == [con EXCEPT !.color = color]

hide_cursor(con) ==
  LET hpos == get_hardware_cursor(con)
  IN  IF get_hpos_status(hpos) = "SHOWN"
        THEN set_hardware_cursor(con, hpos + C_HIDDEN_OFFSET) ELSE con

show_cursor(con) ==
  LET hpos == get_hardware_cursor(con)
  IN  IF get_hpos_status(hpos) = "HIDDEN"
        THEN set_hardware_cursor(con, hpos - C_HIDDEN_OFFSET) ELSE con

clear_console(con) ==
  set_cursor([con EXCEPT !.mem = [p \in Positions |-> BLANK]], 0, 0)

-----------------------------------------------------------------------------
PutNewLine(con) ==
  LET row == CursorRow(con)
  IN  IF row + 1 = CONSOLE_HEIGHT
        THEN set_cursor(scroll_console(con), row, 0)
        ELSE set_cursor(con, row + 1, 0)

(* The character before the cursor, on the row above when the cursor is in *)
(* the first column; nothing at the top left corner.                       *)
PutBackspace(con) ==
  LET row == CursorRow(con)
      col == CursorCol(con)
      Erase(r, c) == set_cursor(draw_char(con, r, c, BLANK), r, c)
  IN  CASE col # 0 -> Erase(row, col - 1)
        [] col = 0 /\ row # 0 -> Erase(row - 1, CONSOLE_WIDTH - 1)
        [] OTHER -> con

(* Mutant: the last slot of a line does not end it on the last row. *)
PutCharStay(con, ch) ==
  LET row == CursorRow(con)
      col == CursorCol(con)
      drawn == draw_char(con, row, col, <<ch, con.color>>)
  IN  CASE col # CONSOLE_WIDTH - 1 -> set_cursor(drawn, row, col + 1)
        [] col = CONSOLE_WIDTH - 1 /\ row = CONSOLE_HEIGHT - 1 -> set_cursor(drawn, row, 0)
        [] OTHER -> set_cursor(drawn, row + 1, 0)

PutChar(con, ch) ==
  LET row == CursorRow(con)
      col == CursorCol(con)
      drawn == draw_char(con, row, col, <<ch, con.color>>)
  IN  CASE col # CONSOLE_WIDTH - 1 -> set_cursor(drawn, row, col + 1)
        [] col = CONSOLE_WIDTH - 1 /\ row = CONSOLE_HEIGHT - 1 ->
             scroll_console(set_cursor(drawn, row, 0))
        [] OTHER -> set_cursor(drawn, row + 1, 0)

putbyte(con, ch) ==
  CASE ch = "newline" -> PutNewLine(con)
    [] ch = "return" -> set_cursor(con, CursorRow(con), 0)
    [] ch = "backspace" -> PutBackspace(con)
    [] OTHER -> PutChar(con, ch)

(* What the firmware leaves, after clear_console. *)
ConsoleInit ==
  clear_console([mem |-> [p \in Positions |-> BLANK], lsb |-> 0, msb |-> 0,
                 color |-> DEFAULT_COLOR])

=============================================================================
