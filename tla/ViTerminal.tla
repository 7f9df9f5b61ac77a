------------------------------- MODULE ViTerminal -------------------------------
(***************************************************************************)
(* The terminal of viOS: the grid of characters, its cursor and its status *)
(* line (terminal.c), the keys (input.c), the keyboard (kb.c, irq.c) and   *)
(* the first process (init.c), which prints to the terminal while          *)
(* keyboard interrupts come between any two of its steps.  The interrupt   *)
(* handler runs with interrupts off: a key is one step.  A step of the     *)
(* first process is a statement that reads or writes what both use, with   *)
(* the tests on the way to it.  total_lines++ is one instruction of an     *)
(* i386; a row whose copying a key interrupts is copied by that key too,   *)
(* as it is still marked; the row and the column of the cursor are saved,  *)
(* restored, moved to the status line and passed on in one step each.      *)
(*                                                                         *)
(* A line has Width columns and the screen Height rows, of which the last  *)
(* one is overwritten with the status line.  The grid is one array, as in  *)
(* memory: what is behind the end of a line is in the next one.            *)
(***************************************************************************)
EXTENDS Integers, FiniteSets, Sequences, TLC

CONSTANTS Width, Height,    \* VGA_WIDTH and VGA_HEIGHT
          Banner,           \* the characters that the first process prints
          Codes,            \* the keys of the keyboard that are pressed
          Typed,            \* the characters that are typed in insert mode
          MaxLines          \* of total_lines: further keys are left out

ASSUME ScreenAssumption == Width \in Nat \ {0} /\ Height \in Nat \ {0}
\* What insert mode takes for a command is not a character.
ASSUME TypedAssumption == Typed \cap {"Esc", "Backspace", "Enter", "\n"} = {}

VARIABLES term,     \* the static variables of terminal.c, vga.c and kb.c
          pc,       \* what the first process is doing; "idle" in the end
          line,     \* the row that its term_flush has come to
          text,     \* what its printf has still to print
          save,     \* its saved cursor, or <<>>
          keys,     \* the keys since it began its last character
          outside   \* whether it has put a character behind the end of a line

vars == <<term, pc, line, text, save, keys, outside>>

Nul == "NUL"
Cell == 0 .. Width * Height - 1
At(row, col) == row * Width + col
Row(row) == At(row, 0) .. At(row, Width - 1)
StatusRow == Height - 1

-----------------------------------------------------------------------------
(* vga.c and the drawing of terminal.c.                                    *)

\* term_flush copies the dirty rows and moves the cursor of the hardware.
CopyDirty(t) ==
    [t EXCEPT !.vga = [c \in Cell |-> IF c \div Width \in t.dirty THEN t.buffer[c] ELSE @[c]],
              !.dirty = {}]
vga_set_cursor_pos(t, row, col) == [t EXCEPT !.hw = <<row, col>>]
term_flush(t) == vga_set_cursor_pos(CopyDirty(t), t.row, t.col)

Blank(t) == [t EXCEPT !.buffer = [c \in Cell |-> IF c \in Row(StatusRow) THEN " " ELSE @[c]]]

\* What the status line says, as two characters.
StatusText(t) == <<t.mode, ToString(<<t.row, t.col, t.total>>)>>
StatusLine(t) == [c \in Row(StatusRow) |->
                     IF c - At(StatusRow, 0) < 2 THEN StatusText(t)[c - At(StatusRow, 0) + 1]
                     ELSE " "]

\* Drawn by a handler: nobody sees the cursor in the status line.
term_draw_statusline(t) ==
    [t EXCEPT !.buffer = [c \in Cell |-> IF c \in Row(StatusRow) THEN StatusLine(t)[c] ELSE @[c]],
              !.dirty = @ \cup {StatusRow}]
term_update(t) == term_flush(term_draw_statusline(t))

-----------------------------------------------------------------------------
(* The editing of terminal.c.                                              *)

Least(S, else) == IF S = {} THEN else ELSE CHOOSE n \in S : \A m \in S : n <= m
Most(S, else) == IF S = {} THEN else ELSE CHOOSE n \in S : \A m \in S : n >= m

term_get_cur_memline_len(t) ==
    Least({n \in 0 .. Width - 1 : t.buffer[At(t.row, n)] = Nul}, Width)

\* The new line in a handler.
LineDown(t) == [t EXCEPT !.row = @ + 1, !.total = @ + 1, !.dirty = @ \cup {t.row + 1}]

\* Behind the last column the cursor goes on at the next line, except if it
\* was behind it already.
Wrapped(t) == IF t.col # Width THEN t ELSE LineDown([t EXCEPT !.col = 0])

\* Shifting one character too few.
Shifted_Short(t) ==
    LET len == term_get_cur_memline_len(t) IN
    IF len # t.col + 1 /\ len + 1 < Width
    THEN [c \in Cell |-> IF c \in At(t.row, t.col) + 1 .. At(t.row, len) - 1 THEN t.buffer[c - 1]
                         ELSE t.buffer[c]]
    ELSE t.buffer

\* Before the last character of a line and in a full one nothing is shifted.
Shifted(t) ==
    LET len == term_get_cur_memline_len(t) IN
    IF len # t.col + 1 /\ len + 1 < Width
    THEN [c \in Cell |-> IF c \in At(t.row, t.col) + 1 .. At(t.row, len) THEN t.buffer[c - 1]
                         ELSE t.buffer[c]]
    ELSE t.buffer

\* Not marking the row.
Inserted_NotMarked(t, ch) ==
    [t EXCEPT !.buffer = [Shifted(t) EXCEPT ![At(t.row, t.col)] = ch], !.col = @ + 1]

Inserted(t, ch) ==
    [t EXCEPT !.buffer = [Shifted(t) EXCEPT ![At(t.row, t.col)] = ch],
              !.col = @ + 1, !.dirty = @ \cup {t.row}]
term_inschar(t, ch) == IF ch = "\n" THEN LineDown([t EXCEPT !.col = 0]) ELSE Wrapped(Inserted(t, ch))

term_del_char(t, dir) ==
    LET from == At(t.row, t.col) + (IF dir = "FWD" THEN 0 ELSE -1)
        last == At(t.row, Width - 1)
    IN IF t.col = 0 /\ dir = "BWD" THEN t
       ELSE [t EXCEPT !.buffer = [c \in Cell |-> IF c = last THEN Nul
                                                 ELSE IF c \in from .. last - 1 THEN @[c + 1]
                                                 ELSE @[c]],
                      !.col = IF dir = "BWD" THEN @ - 1 ELSE @,
                      !.dirty = @ \cup {t.row}]

aiswspace(ch) == ch \in {" ", Nul}
term_not_aiswspace(ch) == ~aiswspace(ch)
term_under_aiaplhanum(ch) == ch \notin {" ", Nul, ","}

Accepts(cmp, ch) == CASE cmp = "aiswspace" -> aiswspace(ch)
                      [] cmp = "term_not_aiswspace" -> term_not_aiswspace(ch)
                      [] cmp = "term_under_aiaplhanum" -> term_under_aiaplhanum(ch)

\* Over white space, then over what cmp accepts; the cursor stops on the
\* last character accepted, or beside where it was.
term_skip_word(t, dir, cmp) ==
    LET step == IF dir = "FWD" THEN 1 ELSE -1
        Ahead(y) == IF dir = "FWD" THEN y .. Width - 1 ELSE 0 .. (IF y < Width THEN y ELSE Width - 1)
        End == IF dir = "FWD" THEN Width ELSE -1
        First(y, skip) ==     \* where the loop from y stops
            IF y \notin 0 .. Width - 1 THEN y
            ELSE IF dir = "FWD" THEN Least({n \in Ahead(y) : ~Accepts(skip, t.buffer[At(t.row, n)])}, End)
            ELSE Most({n \in Ahead(y) : ~Accepts(skip, t.buffer[At(t.row, n)])}, End)
        y1 == First(t.col + step, "aiswspace")
        y2 == First(y1, cmp)
    IN IF (t.col = Width - 1 /\ dir = "FWD") \/ (t.col = 0 /\ dir = "BWD") THEN t
       ELSE [t EXCEPT !.col = IF y2 = t.col + step THEN y2 ELSE y2 - step]

term_skip_to_last_char(t) == [t EXCEPT !.col = term_get_cur_memline_len(t)]

\* MIN is not in parentheses: the loop ends at a character, whatever the line.
\* In a grid that is blank from there on it ends far behind what is Inside.
term_skip_to_first_char(t) ==
    [t EXCEPT !.col = IF term_get_cur_memline_len(t) = 0 THEN 0
                      ELSE Least({n \in 0 .. Width * Height - 1 - At(t.row, 0) :
                                      ~aiswspace(t.buffer[At(t.row, n)])}, Width + 2)]

term_cursor_left(t, n) == [t EXCEPT !.col = IF @ <= n THEN 0 ELSE @ - n]
term_cursor_right(t, n) == [t EXCEPT !.col = IF @ + n < Width - 1 THEN @ + n ELSE Width - 1]
term_cursor_up(t, n) == [t EXCEPT !.row = IF @ <= n THEN 0 ELSE @ - n]
term_cursor_down(t, n) == [t EXCEPT !.row = IF @ + n < t.total THEN @ + n ELSE t.total]

-----------------------------------------------------------------------------
(* input.c: the cases fall through from s to a to i, b to e and B to E.    *)

InsertMode(t) == term_update([t EXCEPT !.mode = "INSERT"])

handle_normal_mode(t, in) ==
    CASE in = "s" -> InsertMode(term_cursor_right(term_del_char(t, "FWD"), 0))
      [] in = "a" -> InsertMode(term_cursor_right(t, 1))
      [] in = "i" -> InsertMode(t)
      [] in = "h" -> term_cursor_left(t, 1)
      [] in = "j" -> term_cursor_down(t, 1)
      [] in = "k" -> term_cursor_up(t, 1)
      [] in = "l" -> term_cursor_right(t, 1)
      [] in = "x" -> term_del_char(t, "FWD")
      [] in = "b" -> term_skip_word(t, "BWD", "term_under_aiaplhanum")
      [] in = "e" -> term_skip_word(t, "FWD", "term_under_aiaplhanum")
      [] in = "B" -> term_skip_word(t, "BWD", "term_not_aiswspace")
      [] in = "E" -> term_skip_word(t, "FWD", "term_not_aiswspace")
      [] in = "$" -> term_skip_to_last_char(t)
      [] in = "_" -> term_skip_to_first_char(t)
      [] OTHER -> t

handle_insert_mode(t, in) ==
    CASE in = "Esc" -> term_update([t EXCEPT !.mode = "NORMAL"])
      [] in = "Backspace" -> term_del_char(t, "BWD")
      [] in = "Enter" -> term_inschar(t, "\n")
      [] OTHER -> term_inschar(t, in)

handle_input(t, in) ==
    term_update(IF t.mode = "NORMAL" THEN handle_normal_mode(t, in) ELSE handle_insert_mode(t, in))

-----------------------------------------------------------------------------
(* kb.c                                                                    *)

Shifts == [code \in {"4", "-", "b", "e", "s", "a", "i", "h", "j", "k", "l", "x"} |->
               CASE code = "4" -> "$" [] code = "-" -> "_" [] code = "b" -> "B"
                 [] code = "e" -> "E" [] code = "s" -> "S" [] code = "a" -> "A"
                 [] code = "i" -> "I" [] code = "h" -> "H" [] code = "j" -> "J"
                 [] code = "k" -> "K" [] code = "l" -> "L" [] code = "x" -> "X"]
kbdus(shift, code) == IF shift /\ code \in DOMAIN Shifts THEN Shifts[code] ELSE code

\* What the bounds admit: in insert mode only some of the characters, and none
\* behind the end of a line, from where it would go to the next row, which is
\* not marked ...
Admitted(t, in) ==
    t.mode = "INSERT" => \/ in \in {"Esc", "Backspace", "Enter"}
                         \/ in \in Typed \cup {Nul} /\ t.col < Width
\* ... and not a line or a column more.
Inside(t) == t.row < Height /\ t.total <= MaxLines /\ t.col <= Width + 1

\* keyboard_handler for a key other than shift.
Key(code) ==
    /\ keys = 0 \/ pc = "idle"
    /\ Admitted(term, kbdus(term.shift, code))
    /\ \E t \in {handle_input(term, kbdus(term.shift, code))} : Inside(t) /\ term' = t
    /\ keys' = 1
    /\ UNCHANGED <<pc, line, text, save, outside>>

\* The left shift key is pressed or released.
Shift ==
    /\ "Shift" \in Codes /\ (keys = 0 \/ pc = "idle")
    /\ term' = [term EXCEPT !.shift = ~@]
    /\ keys' = IF pc = "idle" THEN keys ELSE 1
    /\ UNCHANGED <<pc, line, text, save, outside>>

-----------------------------------------------------------------------------
(* vios_init_proc: term_init, then printf, character by character.         *)

Goto(next) == pc' = next

\* term_init empties the buffer, and marks all rows.
Clear ==
    /\ pc = "clear"
    /\ term' = [term EXCEPT !.buffer = [c \in Cell |-> Nul]]
    /\ Goto("mark all") /\ UNCHANGED <<line, text, save, keys, outside>>
MarkAll ==
    /\ pc = "mark all"
    /\ term' = [term EXCEPT !.dirty = 0 .. Height - 1]
    /\ Goto("blank") /\ UNCHANGED <<line, text, save, keys, outside>>

\* term_draw_statusline saves the cursor and moves it to the status line.
BlankStatus ==
    /\ pc = "blank"
    /\ term' = Blank(term)
    /\ save' = <<term.row, term.col>>
    /\ Goto("move") /\ UNCHANGED <<line, text, keys, outside>>
Move ==
    /\ pc = "move"
    /\ term' = [term EXCEPT !.row = StatusRow, !.col = 0]
    /\ text' = StatusText([term EXCEPT !.row = save[1], !.col = save[2]])
    /\ Goto("mark") /\ UNCHANGED <<line, save, keys, outside>>

\* term_write marks the row of the cursor, and term_putchar puts the character
\* there, moves the cursor and marks its row again.
Mark ==
    /\ pc = "mark"
    /\ term' = [term EXCEPT !.dirty = @ \cup {term.row}]
    /\ keys' = 0
    /\ Goto("put") /\ UNCHANGED <<line, text, save, outside>>
Put ==
    /\ pc = "put" /\ At(term.row, term.col) \in Cell
    /\ term' = IF Head(text) = "\n" THEN [term EXCEPT !.col = 0]
               ELSE [term EXCEPT !.buffer[At(term.row, term.col)] = Head(text)]
    /\ outside' = (outside \/ (Head(text) # "\n" /\ term.col >= Width))
    /\ Goto(IF Head(text) = "\n" THEN "down" ELSE "advance")
    /\ UNCHANGED <<line, text, save, keys>>
Advance ==
    /\ pc = "advance"
    /\ term' = [term EXCEPT !.col = @ + 1]
    /\ Goto("mark again") /\ UNCHANGED <<line, text, save, keys, outside>>

\* A new line: the cursor goes down, the line is counted, its row is marked.
Down ==
    /\ pc \in {"down", "wrap down"} /\ term.row + 1 < Height
    /\ term' = [term EXCEPT !.row = @ + 1]
    /\ Goto(IF pc = "down" THEN "count" ELSE "wrap mark")
    /\ UNCHANGED <<line, text, save, keys, outside>>
Count_OnlyWrapped ==     \* the lines that the text ends itself not counted
    /\ pc \in {"count", "wrap count"}
    /\ term' = IF pc = "count" THEN term ELSE [term EXCEPT !.total = @ + 1]
    /\ Goto(IF pc = "count" THEN "mark again" ELSE "flush")
    /\ UNCHANGED <<line, text, save, keys, outside>>
Count ==
    /\ pc \in {"count", "wrap count"}
    /\ term' = [term EXCEPT !.total = @ + 1]
    /\ Goto(IF pc = "count" THEN "mark again" ELSE "flush")
    /\ UNCHANGED <<line, text, save, keys, outside>>
MarkAgain ==
    /\ pc \in {"mark again", "wrap mark"}
    /\ term' = [term EXCEPT !.dirty = @ \cup {term.row}]
    /\ Goto(IF pc = "mark again" THEN "wrap" ELSE "wrap count")
    /\ UNCHANGED <<line, text, save, keys, outside>>

\* Behind the last column a new line begins, which is marked before it counts.
Wrap ==
    /\ pc = "wrap"
    /\ IF term.col = Width THEN term' = [term EXCEPT !.col = 0] /\ Goto("wrap down")
       ELSE term' = term /\ Goto("flush")
    /\ UNCHANGED <<line, text, save, keys, outside>>

\* term_flush copies the rows that are marked, each before it is unmarked; then
\* it moves the hardware's cursor to where the cursor was when it was read.
CopyRow ==
    /\ pc = "flush"
    /\ \E row \in term.dirty \cap (line .. Height - 1) :
           /\ term.dirty \cap (line .. row - 1) = {}
           /\ term' = [term EXCEPT !.vga = [c \in Cell |-> IF c \div Width = row THEN term.buffer[c]
                                                          ELSE @[c]]]
           /\ line' = row
    /\ Goto("unmark") /\ UNCHANGED <<text, save, keys, outside>>
UnmarkRow ==
    /\ pc = "unmark"
    /\ term' = [term EXCEPT !.dirty = @ \ {line}]
    /\ line' = line + 1
    /\ Goto("flush") /\ UNCHANGED <<text, save, keys, outside>>
Flushed ==
    /\ pc = "flush" /\ term.dirty \cap (line .. Height - 1) = {}
    /\ save' = save \o <<term.row, term.col>> /\ line' = 0
    /\ Goto("cursor") /\ UNCHANGED <<term, text, keys, outside>>

\* The next character; after the last one of the status line its end, after
\* term_init, which has none left, the banner.
HardwareCursor ==
    /\ pc = "cursor"
    /\ term' = vga_set_cursor_pos(term, save[Len(save) - 1], save[Len(save)])
    /\ save' = SubSeq(save, 1, Len(save) - 2)
    /\ text' = IF text = <<>> THEN Banner ELSE Tail(text)
    /\ Goto(IF text' # <<>> THEN "mark" ELSE IF Len(save) = 4 THEN "restore" ELSE "idle")
    /\ keys' = IF pc' = "idle" THEN 0 ELSE keys
    /\ UNCHANGED <<line, outside>>

\* The end of term_draw_statusline, before the flush of term_update.
Restore ==
    /\ pc = "restore"
    /\ term' = [term EXCEPT !.row = save[1], !.col = save[2], !.dirty = @ \cup {StatusRow}]
    /\ save' = <<>>
    /\ Goto("flush") /\ UNCHANGED <<line, text, keys, outside>>

-----------------------------------------------------------------------------
\* kernel_main has enabled the interrupts.
Init ==
    /\ term = [buffer |-> [c \in Cell |-> Nul], vga |-> [c \in Cell |-> "?"], dirty |-> {},
               row |-> 0, col |-> 0, total |-> 0, mode |-> "NORMAL", hw |-> <<0, 0>>,
               shift |-> FALSE]
    /\ pc = "clear" /\ line = 0 /\ text = <<>> /\ save = <<>> /\ keys = 0 /\ outside = FALSE

InitProc == \/ Clear \/ MarkAll \/ BlankStatus \/ Move
            \/ Mark \/ Put \/ Advance \/ Down \/ Count \/ MarkAgain \/ Wrap
            \/ CopyRow \/ UnmarkRow \/ Flushed \/ HardwareCursor \/ Restore

Next == InitProc \/ Shift \/ \E code \in Codes \ {"Shift"} : Key(code)

Spec == Init /\ [][Next]_vars

-----------------------------------------------------------------------------
\* However the keys came between the steps of the first process (one per
\* character at most): once it is idle and a key was handled, the screen
\* shows the buffer, the hardware's cursor is the terminal's, and the status
\* line gives the mode, the cursor and the lines as they are (term_flush,
\* term_draw_statusline).  Except if the process has put a character behind
\* the end of a line, which is in a row that is not marked.
ScreenCurrent ==
    pc = "idle" /\ keys = 1 /\ ~outside =>
        /\ term.vga = term.buffer /\ term.dirty = {}
        /\ term.hw = <<term.row, term.col>>
        /\ \A c \in Row(StatusRow) : term.vga[c] = StatusLine(term)[c]

\* The cursor is never below the lines that total_lines counts, to which
\* term_cursor_down confines it: no interleaving of the first process and the
\* keys counts a line less than the cursor went down.
LinesCounted == pc = "idle" => term.row <= term.total

\* A backspace takes back the character typed before it, whatever was typed
\* before that, with what it shifted (term_inschar, term_del_char): in a line
\* with two free columns and no gap, but not before its last character.
TypingUndone ==
    [][\A ch \in Typed :
           /\ pc = "idle" /\ term.mode = "INSERT" /\ Key(ch)
           /\ term.row # StatusRow
           /\ LET len == term_get_cur_memline_len(term)
              IN /\ len \in 0 .. Width - 2 /\ term.col \in 0 .. len /\ term.col + 1 # len
                 /\ \A c \in At(term.row, len) .. At(term.row, Width - 1) : term.buffer[c] = Nul
           => LET after == term_del_char(term', "BWD")
              IN /\ after.row = term.row /\ after.col = term.col
                 /\ \A c \in Cell \ Row(StatusRow) : after.buffer[c] = term.buffer[c]]_vars
=============================================================================
