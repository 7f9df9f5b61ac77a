----------------------------- MODULE ViTerminal_proofs -----------------------------
(***************************************************************************)
(* LinesCounted, TypingUndone and ScreenCurrent for every size of the      *)
(* screen, every banner and all keys.  The operations of the terminal are  *)
(* shown one by one to keep its record together and the cursor among the   *)
(* lines; while the first process has moved the cursor to the status line, *)
(* the cursor it has saved is among them.  The backspace is a statement    *)
(* about one array, in which the line begins at some place before the      *)
(* status line.  For the screen every operation is shown to mark the rows  *)
(* that it changes, so that a key leaves nothing behind.                   *)
(***************************************************************************)
EXTENDS ViTerminal, SequenceTheorems, WellFoundedInduction, TLAPS

Fields == {"buffer", "vga", "dirty", "row", "col", "total", "mode", "hw", "shift"}

\* What every operation of the terminal relies on.
Term(t) == /\ t = [f \in Fields |-> t[f]] /\ t.row \in Nat /\ t.total \in Nat
           /\ t.buffer = [c \in Cell |-> t.buffer[c]]

\* An operation may count lines but forgets none, and keeps the cursor among
\* the lines that are counted, or one line below if it is there.
Keeps(t, u) == /\ Term(u) /\ u.total >= t.total
               /\ t.row <= t.total => u.row <= u.total
               /\ t.row <= t.total + 1 => u.row <= u.total + 1

LEMMA KeepsAll ==
  ASSUME NEW t, NEW u, NEW w, Term(t), Keeps(t, u), Keeps(u, w)
  PROVE  Keeps(t, w)
BY DEF Keeps, Term


LEMMA Same ==
  ASSUME NEW t, Term(t), NEW u, u = [f \in Fields |-> u[f]],
         u.row = t.row, u.total = t.total, u.buffer = [c \in Cell |-> u.buffer[c]]
  PROVE  Keeps(t, u)
BY DEF Keeps, Term

\* The operations that change neither the row nor the lines.
LEMMA Elsewhere ==
  ASSUME NEW t, Term(t), NEW x, NEW y
  PROVE  /\ Keeps(t, [t EXCEPT !.col = x]) /\ Keeps(t, [t EXCEPT !.mode = x])
         /\ Keeps(t, [t EXCEPT !.shift = x]) /\ Keeps(t, [t EXCEPT !.dirty = x])
         /\ Keeps(t, CopyDirty(t)) /\ Keeps(t, vga_set_cursor_pos(t, x, y))
         /\ Keeps(t, term_draw_statusline(t)) /\ Keeps(t, Blank(t))
         /\ Keeps(t, Inserted(t, x)) /\ Keeps(t, term_del_char(t, x))
<1>1. Keeps(t, [t EXCEPT !.col = x]) /\ Keeps(t, [t EXCEPT !.mode = x])
  BY DEF Keeps, Term, Fields
<1>2. Keeps(t, [t EXCEPT !.shift = x]) /\ Keeps(t, [t EXCEPT !.dirty = x])
  BY DEF Keeps, Term, Fields
<1>3. Keeps(t, CopyDirty(t))
  <2> DEFINE u == CopyDirty(t)
  <2>1. u = [f \in Fields |-> u[f]]
    BY DEF Term, CopyDirty
  <2>2. u.row = t.row /\ u.total = t.total
    BY DEF Term, Fields, CopyDirty
  <2>3. u.buffer = [c \in Cell |-> u.buffer[c]]
    BY DEF Term, Fields, CopyDirty
  <2> HIDE DEF u
  <2>4. Keeps(t, u)
    BY <2>1, <2>2, <2>3, Same
  <2> QED
    BY <2>4 DEF u
<1>4. Keeps(t, vga_set_cursor_pos(t, x, y))
  BY DEF Keeps, Term, Fields, vga_set_cursor_pos
<1>5. Keeps(t, term_draw_statusline(t))
  <2> DEFINE u == term_draw_statusline(t)
  <2>1. u = [f \in Fields |-> u[f]]
    BY DEF Term, term_draw_statusline
  <2>2. u.row = t.row /\ u.total = t.total
    BY DEF Term, Fields, term_draw_statusline
  <2>3. u.buffer = [c \in Cell |-> u.buffer[c]]
    BY DEF Term, Fields, term_draw_statusline
  <2> HIDE DEF u
  <2>4. Keeps(t, u)
    BY <2>1, <2>2, <2>3, Same
  <2> QED
    BY <2>4 DEF u
<1>6. Keeps(t, Blank(t))
  <2> DEFINE u == Blank(t)
  <2>1. u = [f \in Fields |-> u[f]]
    BY DEF Term, Blank
  <2>2. u.row = t.row /\ u.total = t.total
    BY DEF Term, Fields, Blank
  <2>3. u.buffer = [c \in Cell |-> u.buffer[c]]
    BY DEF Term, Fields, Blank
  <2> HIDE DEF u
  <2>4. Keeps(t, u)
    BY <2>1, <2>2, <2>3, Same
  <2> QED
    BY <2>4 DEF u
<1>7. Keeps(t, Inserted(t, x))
  <2> DEFINE u == Inserted(t, x)
  <2>1. u = [f \in Fields |-> u[f]]
    BY DEF Term, Inserted, Shifted
  <2>2. u.row = t.row /\ u.total = t.total
    BY DEF Term, Fields, Inserted, Shifted
  <2>3. u.buffer = [c \in Cell |-> u.buffer[c]]
    BY DEF Term, Fields, Inserted, Shifted
  <2> HIDE DEF u
  <2>4. Keeps(t, u)
    BY <2>1, <2>2, <2>3, Same
  <2> QED
    BY <2>4 DEF u
<1>8. Keeps(t, term_del_char(t, x))
  <2> DEFINE u == term_del_char(t, x)
  <2>1. u = [f \in Fields |-> u[f]]
    BY DEF Term, term_del_char
  <2>2. u.row = t.row /\ u.total = t.total
    BY DEF Term, Fields, term_del_char
  <2>3. u.buffer = [c \in Cell |-> u.buffer[c]]
    BY DEF Term, Fields, term_del_char
  <2> HIDE DEF u
  <2>4. Keeps(t, u)
    BY <2>1, <2>2, <2>3, Same
  <2> QED
    BY <2>4 DEF u
<1> QED
  BY <1>1, <1>2, <1>3, <1>4, <1>5, <1>6, <1>7, <1>8

LEMMA FlushKeeps ==
  ASSUME NEW t, Term(t)
  PROVE  Keeps(t, term_flush(t)) /\ Keeps(t, term_update(t))
<1>1. \A v : Term(v) => Keeps(v, term_flush(v))
  <2> TAKE v
  <2> HAVE Term(v)
  <2> DEFINE u == CopyDirty(v)
  <2>1. Keeps(v, u)
    BY Elsewhere
  <2> HIDE DEF u
  <2>2. Term(u) /\ Keeps(u, vga_set_cursor_pos(u, v.row, v.col))
    BY <2>1, Elsewhere DEF Keeps
  <2>3. Keeps(v, vga_set_cursor_pos(u, v.row, v.col))
    BY <2>1, <2>2, KeepsAll
  <2> QED
    BY <2>3 DEF term_flush, u
<1> DEFINE u == term_draw_statusline(t)
<1>2. Keeps(t, u)
  BY Elsewhere
<1> HIDE DEF u
<1>3. Keeps(u, term_flush(u))
  BY <1>1, <1>2 DEF Keeps
<1>4. Keeps(t, term_flush(u))
  BY <1>2, <1>3, KeepsAll
<1> QED
  BY <1>1, <1>4 DEF term_update, u

\* A new line is counted with the row that it begins.
LEMMA DownKeeps ==
  ASSUME NEW t, Term(t)
  PROVE  Keeps(t, LineDown(t)) /\ Keeps(t, Wrapped(t))
<1>1. \A v : Term(v) => Keeps(v, LineDown(v))
  <2> TAKE v
  <2> HAVE Term(v)
  <2> DEFINE u == LineDown(v)
  <2>1. u = [f \in Fields |-> u[f]]
    BY DEF Term, LineDown
  <2>2. u.row = v.row + 1 /\ u.total = v.total + 1 /\ u.buffer = v.buffer
    BY DEF Term, Fields, LineDown
  <2> HIDE DEF u
  <2>3. Keeps(v, u)
    BY <2>1, <2>2 DEF Keeps, Term
  <2> QED
    BY <2>3 DEF u
<1> DEFINE u == [t EXCEPT !.col = 0]
<1>2. Keeps(t, u)
  BY Elsewhere
<1> HIDE DEF u
<1>3. Keeps(t, LineDown(u))
  <2>1. Keeps(u, LineDown(u))
    BY <1>1, <1>2 DEF Keeps
  <2> QED
    BY <1>2, <2>1, KeepsAll
<1>4. Keeps(t, t)
  BY DEF Keeps, Term
<1> QED
  BY <1>1, <1>3, <1>4 DEF Wrapped, u

LEMMA InscharKeeps ==
  ASSUME NEW t, Term(t), NEW ch
  PROVE  Keeps(t, term_inschar(t, ch))
<1>1. ASSUME NEW u, Keeps(t, u)
      PROVE  Keeps(t, LineDown(u)) /\ Keeps(t, Wrapped(u))
  <2>1. Keeps(u, LineDown(u)) /\ Keeps(u, Wrapped(u))
    BY <1>1, DownKeeps DEF Keeps
  <2>2. Keeps(t, LineDown(u))
    BY <1>1, <2>1, KeepsAll
  <2>3. Keeps(t, Wrapped(u))
    BY <1>1, <2>1, KeepsAll
  <2> QED
    BY <2>2, <2>3
<1>2. Keeps(t, [t EXCEPT !.col = 0]) /\ Keeps(t, Inserted(t, ch))
  BY Elsewhere
<1> QED
  BY <1>1, <1>2 DEF term_inschar

\* The cursor goes neither above the first line nor below the last one.
LEMMA MoveKeeps ==
  ASSUME NEW t, Term(t), NEW n \in Nat, NEW dir, NEW cmp
  PROVE  /\ Keeps(t, term_cursor_left(t, n)) /\ Keeps(t, term_cursor_right(t, n))
         /\ Keeps(t, term_cursor_up(t, n)) /\ Keeps(t, term_cursor_down(t, n))
         /\ Keeps(t, term_skip_to_last_char(t)) /\ Keeps(t, term_skip_to_first_char(t))
         /\ Keeps(t, term_skip_word(t, dir, cmp))
<1>1. Keeps(t, term_cursor_left(t, n)) /\ Keeps(t, term_cursor_right(t, n))
  BY DEF Keeps, Term, Fields, term_cursor_left, term_cursor_right
<1>2. Keeps(t, term_cursor_up(t, n))
  BY DEF Keeps, Term, Fields, term_cursor_up
<1>3. Keeps(t, term_cursor_down(t, n))
  BY DEF Keeps, Term, Fields, term_cursor_down
<1>4. \A x : Keeps(t, [t EXCEPT !.col = x])
  BY Elsewhere
<1>5. Keeps(t, t)
  BY DEF Keeps, Term
<1>6. Keeps(t, term_skip_to_last_char(t)) /\ Keeps(t, term_skip_to_first_char(t))
  BY <1>4, Zenon DEF term_skip_to_last_char, term_skip_to_first_char
<1>7. Keeps(t, term_skip_word(t, dir, cmp))
  BY <1>4, <1>5, Zenon DEF term_skip_word
<1> QED
  BY <1>1, <1>2, <1>3, <1>6, <1>7

LEMMA InputKeeps ==
  ASSUME NEW t, Term(t), NEW in
  PROVE  Keeps(t, handle_input(t, in))
<1>1. Keeps(t, t)
  BY DEF Keeps, Term
<1>2. ASSUME NEW u, Keeps(t, u)
      PROVE  Keeps(t, InsertMode(u)) /\ Keeps(t, term_update(u))
  <2>1. Keeps(u, [u EXCEPT !.mode = "INSERT"])
    BY <1>2, Elsewhere DEF Keeps
  <2>2. \A w : Keeps(t, w) => Keeps(t, term_update(w))
    <3> TAKE w
    <3> HAVE Keeps(t, w)
    <3>1. Keeps(w, term_update(w))
      BY FlushKeeps DEF Keeps
    <3> QED
      BY <3>1, KeepsAll
  <2>3. Keeps(t, [u EXCEPT !.mode = "INSERT"])
    BY <1>2, <2>1, KeepsAll
  <2> QED
    BY <1>2, <2>2, <2>3 DEF InsertMode
<1>3. Keeps(t, handle_normal_mode(t, in))
  <2>1. Keeps(t, InsertMode(term_cursor_right(term_del_char(t, "FWD"), 0)))
    <3> DEFINE u == term_del_char(t, "FWD")
    <3>1. Keeps(t, u)
      BY Elsewhere
    <3> HIDE DEF u
    <3>2. Keeps(u, term_cursor_right(u, 0))
      BY <3>1, MoveKeeps DEF Keeps
    <3>3. Keeps(t, term_cursor_right(u, 0))
      BY <3>1, <3>2, KeepsAll
    <3> QED
      BY <1>2, <3>3 DEF u
  <2>2. /\ Keeps(t, term_cursor_left(t, 1)) /\ Keeps(t, term_cursor_right(t, 1))
        /\ Keeps(t, term_cursor_up(t, 1)) /\ Keeps(t, term_cursor_down(t, 1))
        /\ Keeps(t, term_skip_to_last_char(t)) /\ Keeps(t, term_skip_to_first_char(t))
    <3>1. 1 \in Nat
      OBVIOUS
    <3> QED
      BY <3>1, MoveKeeps
  <2>3. \A dir, cmp : Keeps(t, term_skip_word(t, dir, cmp))
    <3>1. 1 \in Nat
      OBVIOUS
    <3> QED
      BY <3>1, MoveKeeps
  <2>4. Keeps(t, term_del_char(t, "FWD"))
    BY Elsewhere
  <2>5. Keeps(t, InsertMode(term_cursor_right(t, 1))) /\ Keeps(t, InsertMode(t))
    BY <1>1, <1>2, <2>2
  <2> QED
    BY <1>1, <2>1, <2>2, <2>3, <2>4, <2>5, Zenon DEF handle_normal_mode
<1>4. Keeps(t, handle_insert_mode(t, in))
  <2>1. Keeps(t, term_update([t EXCEPT !.mode = "NORMAL"]))
    BY <1>2, Elsewhere
  <2>2. Keeps(t, term_del_char(t, "BWD"))
    BY Elsewhere
  <2>3. \A ch : Keeps(t, term_inschar(t, ch))
    BY InscharKeeps
  <2> QED
    BY <2>1, <2>2, <2>3, Zenon DEF handle_insert_mode
<1> QED
  BY <1>2, <1>3, <1>4 DEF handle_input

-----------------------------------------------------------------------------
\* The steps of a character, from its mark to the flush behind it.
Printing == {"mark", "put", "advance", "down", "count", "mark again",
             "wrap", "wrap down", "wrap mark", "wrap count", "flush", "unmark"}

\* In a new line that is not counted yet the cursor may be below the last one.
Behind == IF pc \in {"count", "wrap mark", "wrap count"} THEN 1 ELSE 0

\* While the first process prints the status line, and has the cursor there,
\* the cursor that it will put back is among the lines.
LinesInv ==
    /\ Term(term)
    /\ \/ /\ pc \in {"clear", "mark all", "blank", "idle"} \cup Printing /\ save = <<>>
          /\ term.row <= term.total + Behind
       \/ /\ pc = "cursor" /\ save = <<save[1], save[2]>>
          /\ term.row <= term.total
       \/ /\ pc \in {"move", "restore"} \cup Printing
          /\ save = <<save[1], save[2]>> /\ save[1] \in Nat /\ save[1] <= term.total
       \/ /\ pc = "cursor" /\ save = <<save[1], save[2], save[3], save[4]>>
          /\ save[1] \in Nat /\ save[1] <= term.total

\* What is pushed on save and popped from it.
LEMMA Saved ==
  ASSUME NEW a, NEW b, NEW c, NEW d
  PROVE  /\ <<a, b>> \o <<c, d>> = <<a, b, c, d>>
         /\ SubSeq(<<a, b>>, 1, 0) = <<>>
         /\ SubSeq(<<a, b, c, d>>, 1, 2) = <<a, b>>
<1> DEFINE S == {a, b, c, d}
           p == <<a, b>>
           q == <<c, d>>
           w == <<a, b, c, d>>
<1>1. p \in Seq(S) /\ Len(p) = 2 /\ p[1] = a /\ p[2] = b
  OBVIOUS
<1>2. q \in Seq(S) /\ Len(q) = 2 /\ q[1] = c /\ q[2] = d
  OBVIOUS
<1>3. w \in Seq(S) /\ Len(w) = 4 /\ w[1] = a /\ w[2] = b /\ w[3] = c /\ w[4] = d
  OBVIOUS
<1> HIDE DEF p, q, w, S
<1>4. p \o q = w
  <2>1. /\ p \o q \in Seq(S) /\ Len(p \o q) = 4
        /\ \A i \in 1 .. 4 : (p \o q)[i] = IF i <= 2 THEN p[i] ELSE q[i - 2]
    <3>1. /\ p \o q \in Seq(S) /\ Len(p \o q) = Len(p) + Len(q)
          /\ \A i \in 1 .. Len(p) + Len(q) : (p \o q)[i] = IF i <= Len(p) THEN p[i] ELSE q[i - Len(p)]
      BY <1>1, <1>2, ConcatProperties
    <3>2. Len(p) + Len(q) = 4
      BY <1>1, <1>2
    <3> QED
      BY <1>1, <3>1, <3>2, Zenon
  <2>2. \A i \in 1 .. 4 : (p \o q)[i] = w[i]
    BY <1>1, <1>2, <1>3, <2>1
  <2> QED
    BY <1>3, <2>1, <2>2, SeqEqual
<1>5. SubSeq(p, 1, 0) = <<>>
  BY <1>1, SubSeqEmpty
<1>6. SubSeq(w, 1, 2) = p
  <2>1. SubSeq(w, 1, 2) \in Seq(S) /\ Len(SubSeq(w, 1, 2)) = 2
        /\ \A i \in 1 .. 2 : SubSeq(w, 1, 2)[i] = w[i]
    <3>1. \A i \in 1 .. 2 : w[i] \in S
      BY <1>1, <1>3
    <3> QED
      BY <1>3, <3>1, SubSeqProperties
  <2>2. \A i \in 1 .. 2 : SubSeq(w, 1, 2)[i] = p[i]
    BY <1>1, <1>3, <2>1
  <2> QED
    BY <1>1, <2>1, <2>2, SeqEqual
<1> QED
  BY <1>4, <1>5, <1>6 DEF p, q, w

LEMMA LinesStart ==
  Init => LinesInv
<1> SUFFICES ASSUME Init
             PROVE  LinesInv
  OBVIOUS
<1>1. Term(term)
  BY DEF Init, Term, Fields
<1>2. pc = "clear" /\ save = <<>> /\ term.row = 0 /\ term.total = 0
  BY DEF Init
<1> QED
  BY <1>1, <1>2 DEF LinesInv, Behind

LEMMA AtMost ==
  \A r, a, b \in Nat : r <= a /\ b >= a => r <= b
OBVIOUS

LEMMA PlusZero ==
  ASSUME NEW n \in Nat
  PROVE  n + 0 = n
OBVIOUS

\* A step that leaves save alone: of the first process, or a key.
LEMMA LinesKept ==
  ASSUME LinesInv, Keeps(term, term'), save' = save,
         \/ pc' = pc
         \/ pc = "clear" /\ pc' = "mark all"
         \/ pc = "mark all" /\ pc' = "blank"
         \/ pc \in Printing /\ pc' \in Printing /\ Behind' = Behind
  PROVE  LinesInv'
<1>1. /\ Term(term') /\ term'.total >= term.total /\ term.total \in Nat /\ term'.total \in Nat
      /\ term.row <= term.total => term'.row <= term'.total
      /\ term.row <= term.total + 1 => term'.row <= term'.total + 1
  BY DEF Keeps, LinesInv, Term
<1>2. \A r \in Nat : r <= term.total => r <= term'.total
  BY <1>1, AtMost, Zenon
<1>3. Behind \in {0, 1} /\ Behind' = Behind
  BY DEF Behind
<1>4. pc = "cursor" => Behind = 0
  BY DEF Behind
<1>5. term.row <= term.total + Behind => term'.row <= term'.total + Behind'
  <2>1. CASE Behind = 0
    <3>1. Behind = 0 /\ Behind' = 0
      BY <1>3, <2>1
    <3>2. term.total + 0 = term.total /\ term'.total + 0 = term'.total
      BY <1>1, PlusZero
    <3> QED
      BY <1>1, <3>1, <3>2, Zenon
  <2>2. CASE Behind = 1
    BY <1>1, <1>3, <2>2
  <2> QED
    BY <1>3, <2>1, <2>2
<1>6. CASE pc' = pc
  BY <1>1, <1>2, <1>5, <1>6 DEF LinesInv
<1>7. CASE pc \in {"clear", "mark all"} /\ pc' \in {"mark all", "blank"}
  <2>1. pc \notin Printing /\ pc \notin {"cursor", "move", "restore"}
    BY <1>7 DEF Printing
  <2> QED
    BY <1>1, <1>5, <1>7, <2>1 DEF LinesInv
<1>8. CASE pc \in Printing /\ pc' \in Printing
  <2>1. pc # "cursor"
    BY <1>8 DEF Printing
  <2> QED
    BY <1>1, <1>2, <1>5, <1>8, <2>1 DEF LinesInv
<1> QED
  BY <1>6, <1>7, <1>8

\* A step within a character that changes the row or the lines; save is kept,
\* and what is saved of the cursor stays among the lines.
LEMMA LinesDown ==
  ASSUME LinesInv, Term(term'), term'.total \in {term.total, term.total + 1}, save' = save,
         pc \in Printing, pc' \in Printing,
         term.row <= term.total + Behind => term'.row <= term'.total + Behind'
  PROVE  LinesInv'
<1>1. term.total \in Nat /\ term'.total \in Nat /\ term'.total >= term.total
  <2>1. Term(term) /\ term.total \in Nat
    BY DEF LinesInv, Term
  <2> QED
    BY <2>1
<1>2. \A r \in Nat : r <= term.total => r <= term'.total
  BY <1>1, AtMost, Zenon
<1>3. pc # "cursor"
  BY DEF Printing
<1> QED
  BY <1>2, <1>3 DEF LinesInv

LEMMA LinesStep ==
  LinesInv /\ [Next]_vars => LinesInv'
<1> SUFFICES ASSUME LinesInv, [Next]_vars
             PROVE  LinesInv'
  OBVIOUS
<1>1. Term(term) /\ term.row \in Nat /\ term.total \in Nat
  BY DEF LinesInv, Term
<1>2. CASE Clear
  <2>1. Keeps(term, term')
    <3> DEFINE b == [c \in Cell |-> Nul]
    <3>1. term' = [term EXCEPT !.buffer = b]
      BY <1>2 DEF Clear
    <3>2. term' = [f \in Fields |-> term'[f]] /\ term'.row = term.row /\ term'.total = term.total
      BY <1>1, <3>1 DEF Term, Fields
    <3>3. term'.buffer = [c \in Cell |-> term'.buffer[c]]
      BY <1>1, <3>1 DEF Term, Fields
    <3> QED
      BY <1>1, <3>2, <3>3, Same
  <2> QED
    BY <1>2, <2>1, LinesKept DEF Clear, Goto
<1>3. CASE MarkAll
  <2>1. Keeps(term, term')
    BY <1>1, <1>3, Elsewhere DEF MarkAll
  <2> QED
    BY <1>3, <2>1, LinesKept DEF MarkAll, Goto
<1>4. CASE BlankStatus
  <2>1. Keeps(term, term')
    BY <1>1, <1>4, Elsewhere DEF BlankStatus
  <2>2. pc = "blank" /\ pc' = "move" /\ save' = <<term.row, term.col>>
    BY <1>4 DEF BlankStatus, Goto
  <2>3. save' = <<save'[1], save'[2]>> /\ save'[1] = term.row
    BY <2>2
  <2>4. term.row <= term.total
    <3>1. pc \notin Printing /\ Behind = 0
      BY <2>2 DEF Printing, Behind
    <3> QED
      BY <1>1, <2>2, <3>1 DEF LinesInv
  <2>5. Term(term') /\ term'.total >= term.total /\ term'.total \in Nat
    BY <2>1 DEF Keeps, Term
  <2>6. save'[1] \in Nat /\ save'[1] <= term'.total
    BY <1>1, <2>3, <2>4, <2>5
  <2> QED
    BY <2>2, <2>3, <2>5, <2>6 DEF LinesInv
<1>5. CASE Move
  <2>1. /\ pc = "move" /\ pc' = "mark" /\ save' = save
        /\ term' = [term EXCEPT !.row = StatusRow, !.col = 0]
    BY <1>5 DEF Move, Goto
  <2>2. /\ term' = [f \in Fields |-> term'[f]] /\ term'.total = term.total
        /\ term'.row = StatusRow /\ term'.buffer = term.buffer
    BY <1>1, <2>1 DEF Term, Fields
  <2>3. StatusRow \in Nat
    BY ScreenAssumption DEF StatusRow
  <2>4. Term(term')
    BY <1>1, <2>2, <2>3 DEF Term
  <2>5. save = <<save[1], save[2]>> /\ save[1] \in Nat /\ save[1] <= term.total
    BY <2>1 DEF LinesInv, Printing
  <2>6. pc' \in Printing
    BY <2>1 DEF Printing
  <2> QED
    BY <2>1, <2>2, <2>4, <2>5, <2>6 DEF LinesInv
<1>6. CASE Mark
  <2>1. Keeps(term, term')
    BY <1>1, <1>6, Elsewhere DEF Mark
  <2>2. pc \in Printing /\ pc' \in Printing /\ Behind' = Behind /\ save' = save
    BY <1>6 DEF Mark, Goto, Printing, Behind
  <2> QED
    BY <2>1, <2>2, LinesKept
<1>7. CASE Put
  <2>1. Keeps(term, term')
    <3>1. CASE Head(text) = "\n"
      BY <1>1, <1>7, <3>1, Elsewhere DEF Put
    <3>2. CASE Head(text) # "\n"
      <4>1. term' = [term EXCEPT !.buffer[At(term.row, term.col)] = Head(text)]
        BY <1>7, <3>2 DEF Put
      <4>2. term' = [f \in Fields |-> term'[f]] /\ term'.row = term.row /\ term'.total = term.total
        BY <1>1, <4>1 DEF Term, Fields
      <4>3. term'.buffer = [c \in Cell |-> term'.buffer[c]]
        BY <1>1, <4>1 DEF Term, Fields
      <4> QED
        BY <1>1, <4>2, <4>3, Same
    <3> QED
      BY <3>1, <3>2
  <2>2. pc = "put" /\ pc' \in {"down", "advance"} /\ save' = save
    BY <1>7 DEF Put, Goto
  <2>3. pc \in Printing /\ pc' \in Printing /\ Behind' = Behind
    BY <2>2 DEF Printing, Behind
  <2> QED
    BY <2>1, <2>2, <2>3, LinesKept
<1>8. CASE Advance
  <2>1. Keeps(term, term')
    BY <1>1, <1>8, Elsewhere DEF Advance
  <2>2. pc \in Printing /\ pc' \in Printing /\ Behind' = Behind /\ save' = save
    BY <1>8 DEF Advance, Goto, Printing, Behind
  <2> QED
    BY <2>1, <2>2, LinesKept
<1>9. CASE Down
  <2>1. /\ pc \in {"down", "wrap down"} /\ pc' \in {"count", "wrap mark"} /\ save' = save
        /\ term' = [term EXCEPT !.row = @ + 1]
    BY <1>9 DEF Down, Goto
  <2>2. /\ term' = [f \in Fields |-> term'[f]] /\ term'.total = term.total
        /\ term'.row = term.row + 1 /\ term'.buffer = term.buffer
    BY <1>1, <2>1 DEF Term, Fields
  <2>3. Term(term')
    BY <1>1, <2>2 DEF Term
  <2>4. pc \in Printing /\ pc' \in Printing /\ Behind = 0 /\ Behind' = 1
    BY <2>1 DEF Printing, Behind
  <2>5. term.row <= term.total + Behind => term'.row <= term'.total + Behind'
    BY <1>1, <2>2, <2>4
  <2> QED
    BY <2>1, <2>2, <2>3, <2>4, <2>5, LinesDown
<1>10. CASE Count
  <2>1. /\ pc \in {"count", "wrap count"} /\ pc' \in {"mark again", "flush"} /\ save' = save
        /\ term' = [term EXCEPT !.total = @ + 1]
    BY <1>10 DEF Count, Goto
  <2>2. /\ term' = [f \in Fields |-> term'[f]] /\ term'.total = term.total + 1
        /\ term'.row = term.row /\ term'.buffer = term.buffer
    BY <1>1, <2>1 DEF Term, Fields
  <2>3. Term(term')
    BY <1>1, <2>2 DEF Term
  <2>4. pc \in Printing /\ pc' \in Printing /\ Behind = 1 /\ Behind' = 0
    BY <2>1 DEF Printing, Behind
  <2>5. term.row <= term.total + Behind => term'.row <= term'.total + Behind'
    BY <1>1, <2>2, <2>4
  <2> QED
    BY <2>1, <2>2, <2>3, <2>4, <2>5, LinesDown
<1>11. CASE MarkAgain
  <2>1. Keeps(term, term')
    BY <1>1, <1>11, Elsewhere DEF MarkAgain
  <2>2. /\ save' = save
        /\ \/ pc = "mark again" /\ pc' = "wrap"
           \/ pc = "wrap mark" /\ pc' = "wrap count"
    BY <1>11 DEF MarkAgain, Goto
  <2>3. pc \in Printing /\ pc' \in Printing /\ Behind' = Behind
    BY <2>2 DEF Printing, Behind
  <2> QED
    BY <2>1, <2>2, <2>3, LinesKept
<1>12. CASE Wrap
  <2>1. Keeps(term, term')
    <3>1. Keeps(term, term)
      BY <1>1 DEF Keeps
    <3>2. term' \in {term, [term EXCEPT !.col = 0]}
      BY <1>12 DEF Wrap
    <3>3. Keeps(term, [term EXCEPT !.col = 0])
      BY <1>1, Elsewhere
    <3> QED
      BY <3>1, <3>2, <3>3
  <2>2. pc = "wrap" /\ pc' \in {"wrap down", "flush"} /\ save' = save
    BY <1>12 DEF Wrap, Goto
  <2>3. pc \in Printing /\ pc' \in Printing /\ Behind' = Behind
    BY <2>2 DEF Printing, Behind
  <2> QED
    BY <2>1, <2>2, <2>3, LinesKept
<1>13. CASE CopyRow
  <2>1. Keeps(term, term')
    <3>1. PICK row : term' = [term EXCEPT !.vga = [c \in Cell |-> IF c \div Width = row THEN term.buffer[c]
                                                                  ELSE @[c]]]
      BY <1>13 DEF CopyRow
    <3>2. term' = [f \in Fields |-> term'[f]] /\ term'.row = term.row /\ term'.total = term.total
          /\ term'.buffer = term.buffer
      BY <1>1, <3>1 DEF Term, Fields
    <3> QED
      BY <1>1, <3>2, Same DEF Term
  <2>2. pc \in Printing /\ pc' \in Printing /\ Behind' = Behind /\ save' = save
    BY <1>13 DEF CopyRow, Goto, Printing, Behind
  <2> QED
    BY <2>1, <2>2, LinesKept
<1>14. CASE UnmarkRow
  <2>1. Keeps(term, term')
    BY <1>1, <1>14, Elsewhere DEF UnmarkRow
  <2>2. pc \in Printing /\ pc' \in Printing /\ Behind' = Behind /\ save' = save
    BY <1>14 DEF UnmarkRow, Goto, Printing, Behind
  <2> QED
    BY <2>1, <2>2, LinesKept
<1>15. CASE Flushed
  <2>1. pc = "flush" /\ pc' = "cursor" /\ save' = save \o <<term.row, term.col>> /\ term' = term
    BY <1>15 DEF Flushed, Goto
  <2>2. CASE save = <<>> /\ term.row <= term.total + Behind
    <3>1. save' = <<save'[1], save'[2]>>
      BY <2>1, <2>2
    <3>2. term.row <= term.total
      BY <1>1, <2>1, <2>2 DEF Behind
    <3> QED
      BY <1>1, <2>1, <3>1, <3>2 DEF LinesInv
  <2>3. CASE save = <<save[1], save[2]>> /\ save[1] \in Nat /\ save[1] <= term.total
    <3>1. save' = <<save[1], save[2], term.row, term.col>>
      BY <2>1, <2>3, Saved, Zenon
    <3>2. save' = <<save'[1], save'[2], save'[3], save'[4]>> /\ save'[1] = save[1]
      BY <3>1
    <3> QED
      BY <1>1, <2>1, <2>3, <3>2 DEF LinesInv
  <2> QED
    BY <2>1, <2>2, <2>3 DEF LinesInv
<1>16. CASE HardwareCursor
  <2>1. Keeps(term, term')
    BY <1>1, <1>16, Elsewhere DEF HardwareCursor
  <2>2. /\ Term(term') /\ term'.total \in Nat /\ term'.total >= term.total
        /\ term.row <= term.total => term'.row <= term'.total
    BY <2>1 DEF Keeps, Term
  <2>3. /\ pc = "cursor" /\ save' = SubSeq(save, 1, Len(save) - 2)
        /\ pc' \in {"mark", IF Len(save) = 4 THEN "restore" ELSE "idle"}
    BY <1>16 DEF HardwareCursor, Goto
  <2>4. CASE save = <<save[1], save[2]>> /\ term.row <= term.total
    <3>1. Len(save) = 2 /\ save' = <<>>
      <4>1. Len(save) = 2 /\ Len(save) - 2 = 0
        BY <2>4
      <4>2. save' = SubSeq(save, 1, 0)
        BY <2>3, <4>1, Zenon
      <4> QED
        BY <2>4, <4>1, <4>2, Saved, Zenon
    <3>2. pc' \in {"mark", "idle"}
      <4>1. Len(save) # 4
        BY <3>1
      <4> QED
        BY <2>3, <4>1
    <3>3. term'.row <= term'.total + Behind'
      <4>1. term'.row <= term'.total /\ Behind' = 0
        BY <2>2, <2>4, <3>2 DEF Behind
      <4> QED
        BY <2>2, <4>1
    <3>4. pc' \in {"clear", "mark all", "blank", "idle"} \cup Printing
      BY <3>2 DEF Printing
    <3> QED
      BY <2>2, <3>1, <3>3, <3>4 DEF LinesInv
  <2>5. CASE /\ save = <<save[1], save[2], save[3], save[4]>>
             /\ save[1] \in Nat /\ save[1] <= term.total
    <3>1. Len(save) = 4 /\ save' = <<save[1], save[2]>>
      <4>1. Len(save) = 4 /\ Len(save) - 2 = 2
        BY <2>5
      <4>2. save' = SubSeq(save, 1, 2)
        BY <2>3, <4>1, Zenon
      <4> QED
        BY <2>5, <4>1, <4>2, Saved, Zenon
    <3>2. save' = <<save'[1], save'[2]>> /\ save'[1] = save[1]
      BY <3>1
    <3>3. save'[1] \in Nat /\ save'[1] <= term'.total
      BY <1>1, <2>2, <2>5, <3>2
    <3>4. pc' \in {"move", "restore"} \cup Printing
      BY <2>3, <3>1 DEF Printing
    <3> QED
      BY <2>2, <3>2, <3>3, <3>4 DEF LinesInv
  <2>6. pc \notin {"move", "restore", "clear", "mark all", "blank", "idle"} \cup Printing
    BY <2>3 DEF Printing
  <2> QED
    BY <2>4, <2>5, <2>6 DEF LinesInv
<1>17. CASE Restore
  <2>1. /\ pc = "restore" /\ pc' = "flush" /\ save' = <<>>
        /\ term' = [term EXCEPT !.row = save[1], !.col = save[2], !.dirty = @ \cup {StatusRow}]
    BY <1>17 DEF Restore, Goto
  <2>2. save[1] \in Nat /\ save[1] <= term.total
    BY <2>1 DEF LinesInv, Printing
  <2>3. /\ term' = [f \in Fields |-> term'[f]] /\ term'.total = term.total
        /\ term'.row = save[1] /\ term'.buffer = term.buffer
    BY <1>1, <2>1 DEF Term, Fields
  <2>4. Term(term')
    BY <1>1, <2>2, <2>3 DEF Term
  <2>5. term'.row <= term'.total + Behind' /\ pc' \in Printing
    BY <1>1, <2>1, <2>2, <2>3 DEF Behind, Printing
  <2> QED
    BY <2>1, <2>4, <2>5 DEF LinesInv
<1>18. CASE Shift
  <2>1. Keeps(term, term')
    BY <1>1, <1>18, Elsewhere DEF Shift
  <2> QED
    BY <1>18, <2>1, LinesKept DEF Shift
<1>19. ASSUME NEW code \in Codes, Key(code)
       PROVE  LinesInv'
  <2>1. Keeps(term, term')
    BY <1>1, <1>19, InputKeeps DEF Key
  <2> QED
    BY <1>19, <2>1, LinesKept DEF Key
<1>20. CASE UNCHANGED vars
  BY <1>20 DEF vars, LinesInv, Behind
<1> QED
  BY <1>2, <1>3, <1>4, <1>5, <1>6, <1>7, <1>8, <1>9, <1>10, <1>11, <1>12, <1>13, <1>14, <1>15,
     <1>16, <1>17, <1>18, <1>19, <1>20
     DEF Next, InitProc

\* Whatever the size of the screen, the banner and the keys between its
\* characters: the cursor is never below the lines that are counted.
THEOREM CursorInLines ==
  Spec => []LinesCounted
<1>1. LinesInv => LinesCounted
  <2> SUFFICES ASSUME LinesInv, pc = "idle"
               PROVE  term.row <= term.total
    BY DEF LinesCounted
  <2>1. pc \notin {"cursor", "move", "restore"} \cup Printing /\ Behind = 0
    BY DEF Printing, Behind
  <2>2. term.row <= term.total + Behind /\ term.total \in Nat
    BY <2>1 DEF LinesInv, Term
  <2> QED
    BY <2>1, <2>2
<1> QED
  BY <1>1, LinesStart, LinesStep, PTL DEF Spec

-----------------------------------------------------------------------------
(* A character and the backspace behind it.                                *)

LEMMA Times ==
  ASSUME NEW a \in Nat, NEW b \in Nat, NEW w \in Nat, a < b
  PROVE  a * w + w <= b * w /\ a * w \in Nat /\ b * w \in Nat
<1>1. PICK d \in Nat : b = a + 1 + d
  <2>1. b - a - 1 \in Nat /\ b = a + 1 + (b - a - 1)
    OBVIOUS
  <2> QED
    BY <2>1
<1>2. a * w \in Nat /\ d * w \in Nat /\ b * w = a * w + w + d * w
  BY <1>1
<1>3. \A x, y, z \in Nat : z = x + w + y => x + w <= z /\ z \in Nat
  OBVIOUS
<1>4. b * w \in Nat
  OBVIOUS
<1> QED
  BY <1>2, <1>3, <1>4

\* The status line is drawn nowhere else.
LEMMA UpdateElsewhere ==
  ASSUME NEW t, Term(t)
  PROVE  LET u == term_update(t)
         IN /\ u.row = t.row /\ u.col = t.col
            /\ \A c \in Cell \ Row(StatusRow) : u.buffer[c] = t.buffer[c]
<1> DEFINE v == term_draw_statusline(t)
           w == CopyDirty(v)
           u == vga_set_cursor_pos(w, v.row, v.col)
<1>1. Term(v) /\ v.row = t.row /\ v.col = t.col
  <2>1. Keeps(t, v)
    BY Elsewhere
  <2>2. v.row = t.row /\ v.col = t.col
    BY DEF Term, Fields, term_draw_statusline
  <2> QED
    BY <2>1, <2>2 DEF Keeps
<1>2. \A c \in Cell \ Row(StatusRow) : v.buffer[c] = t.buffer[c]
  BY DEF Term, Fields, term_draw_statusline
<1>3. u.row = v.row /\ u.col = v.col /\ u.buffer = v.buffer
  <2> HIDE DEF v
  <2>1. w = [f \in Fields |-> w[f]] /\ w.row = v.row /\ w.col = v.col /\ w.buffer = v.buffer
    BY <1>1 DEF Term, Fields, CopyDirty
  <2> HIDE DEF w
  <2> QED
    BY <2>1 DEF Fields, vga_set_cursor_pos
<1>4. term_update(t) = u
  BY DEF term_update, term_flush
<1> HIDE DEF u, v
<1> QED
  BY <1>1, <1>2, <1>3, <1>4

LEMMA Insertable ==
  ASSUME NEW ch \in Typed, NEW shift
  PROVE  kbdus(shift, ch) \notin {"Esc", "Backspace", "Enter", "\n"}
<1>1. ch \notin {"Esc", "Backspace", "Enter", "\n"}
  BY TypedAssumption
<1>2. \A k \in DOMAIN Shifts : Shifts[k] \in
          {"$", "_", "B", "E", "S", "A", "I", "H", "J", "K", "L", "X"}
  BY DEF Shifts
<1> QED
  BY <1>1, <1>2 DEF kbdus

\* In one array, with the row at R, the line p and the character ch at col.
LEMMA ArrayUndone ==
  ASSUME NEW n \in Nat, NEW w \in Nat, NEW R \in Nat, NEW B \in Nat, R + w <= B, B + w = n,
         NEW len \in 0 .. w - 2, NEW col \in 0 .. len, NEW ch,
         NEW b0, NEW b1, NEW b2, NEW b3,
         \A c \in R + len .. R + w - 1 : b0[c] = Nul,
         \A c \in 0 .. n - 1 :
             b1[c] = IF c = R + col THEN ch
                     ELSE IF c \in R + col + 1 .. R + len THEN b0[c - 1] ELSE b0[c],
         \A c \in (0 .. n - 1) \ (B .. B + w - 1) : b2[c] = b1[c],
         \A c \in 0 .. n - 1 :
             b3[c] = IF c = R + w - 1 THEN Nul
                     ELSE IF c \in R + col .. R + w - 2 THEN b2[c + 1] ELSE b2[c]
  PROVE  \A c \in (0 .. n - 1) \ (B .. B + w - 1) : b3[c] = b0[c]
<1> SUFFICES ASSUME NEW c \in (0 .. n - 1) \ (B .. B + w - 1)
             PROVE  b3[c] = b0[c]
  OBVIOUS
<1>1. CASE c = R + w - 1
  <2>1. c \in R + len .. R + w - 1 /\ c \in 0 .. n - 1
    BY <1>1
  <2> QED
    BY <1>1, <2>1
<1>2. CASE c \in R + col .. R + w - 2
  <2>1. /\ c + 1 \in 0 .. n - 1 /\ c + 1 \notin B .. B + w - 1 /\ c + 1 # R + col
        /\ c # R + w - 1 /\ (c + 1) - 1 = c
    BY <1>2
  <2>2. b3[c] = b1[c + 1]
    BY <1>2, <2>1
  <2>3. CASE c + 1 <= R + len
    <3>1. c + 1 \in R + col + 1 .. R + len
      BY <1>2, <2>3
    <3> QED
      BY <2>1, <2>2, <3>1
  <2>4. CASE ~(c + 1 <= R + len)
    <3>1. /\ c + 1 \notin R + col + 1 .. R + len
          /\ c \in R + len .. R + w - 1 /\ c + 1 \in R + len .. R + w - 1
      BY <1>2, <2>4
    <3> QED
      BY <2>1, <2>2, <3>1
  <2> QED
    BY <2>3, <2>4
<1>3. CASE c # R + w - 1 /\ c \notin R + col .. R + w - 2
  <2>1. c # R + col /\ c \notin R + col + 1 .. R + len
    BY <1>3
  <2>2. b3[c] = b1[c]
    BY <1>3
  <2> QED
    BY <2>1, <2>2
<1> QED
  BY <1>1, <1>2, <1>3

\* What a backspace does behind the first column.
LEMMA Backspace ==
  ASSUME NEW t, Term(t), t.col # 0
  PROVE  LET u == term_del_char(t, "BWD")
         IN /\ u.row = t.row /\ u.col = t.col - 1
            /\ \A c \in Cell :
                   u.buffer[c] = IF c = At(t.row, Width - 1) THEN Nul
                                 ELSE IF c \in At(t.row, t.col) + -1 .. At(t.row, Width - 1) - 1
                                 THEN t.buffer[c + 1]
                                 ELSE t.buffer[c]
BY DEF Term, Fields, term_del_char

LEMMA Undone ==
  ASSUME LinesInv, NEW ch \in Typed,
         term.mode = "INSERT", Key(ch), term.row # StatusRow,
         NEW len, len = term_get_cur_memline_len(term),
         len \in 0 .. Width - 2, term.col \in 0 .. len, term.col + 1 # len,
         \A c \in At(term.row, len) .. At(term.row, Width - 1) : term.buffer[c] = Nul
  PROVE  LET after == term_del_char(term', "BWD")
         IN /\ after.row = term.row /\ after.col = term.col
            /\ \A c \in Cell \ Row(StatusRow) : after.buffer[c] = term.buffer[c]
<1> DEFINE in == kbdus(term.shift, ch)
           u == Inserted(term, in)
           after == term_del_char(term', "BWD")
           R == term.row * Width
           B == StatusRow * Width
<1>1. Term(term) /\ term.row \in Nat /\ Width \in Nat \ {0} /\ Height \in Nat \ {0}
  BY ScreenAssumption DEF LinesInv, Term
<1>2. in \notin {"Esc", "Backspace", "Enter", "\n"}
  BY Insertable
<1>3. term' = handle_input(term, in) /\ Inside(term')
  BY DEF Key
<1> HIDE DEF in
<1>4. /\ Term(u) /\ u.row = term.row /\ u.col = term.col + 1
      /\ u.buffer = [Shifted(term) EXCEPT ![At(term.row, term.col)] = in]
  <2>1. Keeps(term, u)
    BY <1>1, Elsewhere
  <2>2. /\ u.row = term.row /\ u.col = term.col + 1
        /\ u.buffer = [Shifted(term) EXCEPT ![At(term.row, term.col)] = in]
    BY <1>1 DEF Term, Fields, Inserted
  <2> QED
    BY <2>1, <2>2 DEF Keeps
<1>5. term' = term_update(u)
  <2>1. Wrapped(u) = u
    <3>1. u.col # Width
      BY <1>1, <1>4
    <3> QED
      BY <3>1 DEF Wrapped
  <2>2. handle_insert_mode(term, in) = term_inschar(term, in)
    BY <1>2 DEF handle_insert_mode
  <2>3. term_inschar(term, in) = u
    BY <1>2, <2>1 DEF term_inschar
  <2>4. term.mode # "NORMAL"
    OBVIOUS
  <2> QED
    BY <1>3, <2>2, <2>3, <2>4 DEF handle_input
<1> HIDE DEF u
<1>6. /\ term'.row = term.row /\ term'.col = term.col + 1
      /\ \A c \in Cell \ Row(StatusRow) : term'.buffer[c] = u.buffer[c]
  BY <1>4, <1>5, UpdateElsewhere
<1>7. Term(term')
  BY <1>1, <1>3, InputKeeps DEF Keeps
<1>8. term.row < StatusRow /\ StatusRow \in Nat
  BY <1>1, <1>3, <1>6 DEF Inside, StatusRow
<1>9. R \in Nat /\ B \in Nat /\ R + Width <= B
  BY <1>1, <1>8, Times
<1>10. Width * Height \in Nat /\ B + Width = Width * Height
  BY <1>1 DEF StatusRow
<1>11. \A c \in Int : At(term.row, c) = R + c /\ At(StatusRow, c) = B + c
  BY DEF At
<1> HIDE DEF R, B
<1>12. /\ term.col \in Int /\ len \in Int /\ Width - 1 \in Int /\ 0 \in Int
       /\ At(term.row, term.col) = R + term.col /\ At(term.row, len) = R + len
       /\ At(term.row, Width - 1) = R + Width - 1
       /\ Row(StatusRow) = B .. B + Width - 1 /\ Cell = 0 .. Width * Height - 1
  <2>1. term.col \in Int /\ len \in Int /\ Width - 1 \in Int /\ 0 \in Int
    BY <1>1
  <2>2. /\ At(term.row, term.col) = R + term.col /\ At(term.row, len) = R + len
        /\ At(term.row, Width - 1) = R + (Width - 1)
        /\ At(StatusRow, 0) = B + 0 /\ At(StatusRow, Width - 1) = B + (Width - 1)
    BY <1>11, <2>1
  <2>3. R + (Width - 1) = R + Width - 1 /\ B + 0 = B /\ B + (Width - 1) = B + Width - 1
    BY <1>1, <1>9
  <2> QED
    BY <2>1, <2>2, <2>3 DEF Row, Cell
<1>13. \A c \in 0 .. Width * Height - 1 :
           u.buffer[c] = IF c = R + term.col THEN in
                         ELSE IF c \in R + term.col + 1 .. R + len THEN term.buffer[c - 1]
                         ELSE term.buffer[c]
  <2>1. Shifted(term) = [c \in 0 .. Width * Height - 1 |->
                            IF c \in R + term.col + 1 .. R + len THEN term.buffer[c - 1]
                            ELSE term.buffer[c]]
    <3>1. len # term.col + 1 /\ len + 1 < Width
      BY <1>1, <1>12
    <3> QED
      BY <1>12, <3>1 DEF Shifted
  <2> QED
    BY <1>4, <1>12, <2>1
<1>14. /\ after.row = term'.row /\ after.col = term'.col - 1
       /\ \A c \in 0 .. Width * Height - 1 :
              after.buffer[c] = IF c = R + Width - 1 THEN Nul
                                ELSE IF c \in R + term.col .. R + Width - 2 THEN term'.buffer[c + 1]
                                ELSE term'.buffer[c]
  <2>1. term'.col # 0
    BY <1>6, <1>12
  <2>2. /\ At(term'.row, term'.col) + -1 = R + term.col
        /\ At(term'.row, Width - 1) = R + Width - 1
        /\ R + Width - 1 - 1 = R + Width - 2
    <3>1. term.col + 1 \in Int
      BY <1>12
    <3>2. At(term.row, term.col + 1) = R + (term.col + 1)
      BY <1>11, <3>1
    <3> QED
      BY <1>1, <1>6, <1>9, <1>12, <3>2
  <2>3. term'.col # 0 /\ At(term'.row, term'.col) + -1 = R + term.col
    BY <2>1, <2>2
  <2> DEFINE t == term'
  <2>4. Term(t) /\ t.col # 0
    BY <1>7, <2>3
  <2> HIDE DEF t
  <2>5. /\ term_del_char(t, "BWD").row = t.row /\ term_del_char(t, "BWD").col = t.col - 1
        /\ \A c \in Cell :
               term_del_char(t, "BWD").buffer[c] =
                   IF c = At(t.row, Width - 1) THEN Nul
                   ELSE IF c \in At(t.row, t.col) + -1 .. At(t.row, Width - 1) - 1
                   THEN t.buffer[c + 1]
                   ELSE t.buffer[c]
    BY <2>4, Backspace
  <2>6. /\ At(t.row, Width - 1) = R + Width - 1
        /\ At(t.row, t.col) + -1 = R + term.col
        /\ At(t.row, Width - 1) - 1 = R + Width - 2
    <3>1. At(t.row, Width - 1) = R + Width - 1
      BY <2>2 DEF t
    <3>2. At(t.row, t.col) + -1 = R + term.col
      BY <2>3 DEF t
    <3>3. At(t.row, Width - 1) - 1 = R + Width - 2
      BY <1>1, <1>9, <3>1
    <3> QED
      BY <3>1, <3>2, <3>3, Zenon
  <2>7. /\ after.row = t.row /\ after.col = t.col - 1
        /\ \A c \in Cell :
               after.buffer[c] = IF c = R + Width - 1 THEN Nul
                                 ELSE IF c \in R + term.col .. R + Width - 2 THEN t.buffer[c + 1]
                                 ELSE t.buffer[c]
    <3>1. after = term_del_char(t, "BWD")
      BY DEF t
    <3> HIDE DEF after
    <3> QED
      BY <2>5, <2>6, <3>1
  <2> HIDE DEF after
  <2> QED
    BY <1>12, <2>7 DEF t
<1> HIDE DEF after
<1>15. \A c \in Cell \ Row(StatusRow) : after.buffer[c] = term.buffer[c]
  <2>1. PICK n \in Nat : n = Width * Height
    BY <1>10
  <2>2. /\ R + Width <= B /\ B + Width = n
        /\ \A c \in R + len .. R + Width - 1 : term.buffer[c] = Nul
        /\ \A c \in 0 .. n - 1 :
               u.buffer[c] = IF c = R + term.col THEN in
                             ELSE IF c \in R + term.col + 1 .. R + len THEN term.buffer[c - 1]
                             ELSE term.buffer[c]
        /\ \A c \in (0 .. n - 1) \ (B .. B + Width - 1) : term'.buffer[c] = u.buffer[c]
        /\ \A c \in 0 .. n - 1 :
               after.buffer[c] = IF c = R + Width - 1 THEN Nul
                                 ELSE IF c \in R + term.col .. R + Width - 2 THEN term'.buffer[c + 1]
                                 ELSE term'.buffer[c]
    BY <1>6, <1>9, <1>10, <1>12, <1>13, <1>14, <2>1
  <2> DEFINE col == term.col
             b0 == term.buffer
             b1 == u.buffer
             b2 == term'.buffer
             b3 == after.buffer
  <2>3. Width \in Nat /\ len \in 0 .. Width - 2 /\ col \in 0 .. len /\ R \in Nat /\ B \in Nat
    BY <1>1, <1>9
  <2>4. /\ R + Width <= B /\ B + Width = n
        /\ \A c \in R + len .. R + Width - 1 : b0[c] = Nul
        /\ \A c \in 0 .. n - 1 :
               b1[c] = IF c = R + col THEN in
                       ELSE IF c \in R + col + 1 .. R + len THEN b0[c - 1] ELSE b0[c]
        /\ \A c \in (0 .. n - 1) \ (B .. B + Width - 1) : b2[c] = b1[c]
        /\ \A c \in 0 .. n - 1 :
               b3[c] = IF c = R + Width - 1 THEN Nul
                       ELSE IF c \in R + col .. R + Width - 2 THEN b2[c + 1] ELSE b2[c]
    BY <2>2
  <2> HIDE DEF col, b0, b1, b2, b3
  <2>5. \A c \in (0 .. n - 1) \ (B .. B + Width - 1) : b3[c] = b0[c]
    BY <2>1, <2>3, <2>4, ArrayUndone
  <2> QED
    BY <1>12, <2>1, <2>5 DEF b0, b3
<1>16. after.row = term.row /\ after.col = term.col
  <2>1. \A x \in Int : (x + 1) - 1 = x
    OBVIOUS
  <2> QED
    BY <1>6, <1>12, <1>14, <2>1
<1> QED
  BY <1>15, <1>16 DEF after

\* Whatever the size of the screen and the characters that are typed: a
\* backspace takes back the character before it.
THEOREM BackspaceUndoes ==
  Spec => TypingUndone
<1> DEFINE Step ==
      \A ch \in Typed :
          /\ pc = "idle" /\ term.mode = "INSERT" /\ Key(ch)
          /\ term.row # StatusRow
          /\ LET len == term_get_cur_memline_len(term)
             IN /\ len \in 0 .. Width - 2 /\ term.col \in 0 .. len /\ term.col + 1 # len
                /\ \A c \in At(term.row, len) .. At(term.row, Width - 1) : term.buffer[c] = Nul
          => LET after == term_del_char(term', "BWD")
             IN /\ after.row = term.row /\ after.col = term.col
                /\ \A c \in Cell \ Row(StatusRow) : after.buffer[c] = term.buffer[c]
<1>1. LinesInv => Step
  BY Undone
<1>2. LinesInv /\ [Next]_vars => [Step]_vars
  BY <1>1
<1>3. TypingUndone <=> [][Step]_vars
  BY DEF TypingUndone
<1> HIDE DEF Step
<1> QED
  BY <1>2, <1>3, LinesStart, LinesStep, PTL DEF Spec

-----------------------------------------------------------------------------
(* What the screen shows.                                                  *)

\* A set of numbers that is not empty has a least one.
LEMMA LeastNumber ==
  ASSUME NEW S \in SUBSET Nat, S # {}
  PROVE  \E n \in S : \A m \in S : n <= m
<1>1. PICK lt : IsWellFoundedOn(lt, Nat) /\ \A x, y \in Nat : x < y => <<x, y>> \in lt
  <2>1. IsWellFoundedOn(OpToRel(<, Nat), Nat)
    BY NatLessThanWellFounded
  <2>2. \A x, y \in Nat : x < y => <<x, y>> \in OpToRel(<, Nat)
    BY DEF OpToRel
  <2> QED
    BY <2>1, <2>2, Zenon
<1>2. PICK n \in S : \A m \in S : ~ (<<m, n>> \in lt)
  <2>1. IsWellFoundedOn(lt, Nat) /\ S \subseteq Nat /\ S # {}
    BY <1>1
  <2>2. \E n \in S : \A m \in S : ~ (<<m, n>> \in lt)
    BY <2>1, WFMin, Zenon
  <2> QED
    BY <2>2
<1>3. \A m \in S : ~ (m < n)
  BY <1>1, <1>2
<1> QED
  BY <1>3

LEMMA LeastType ==
  ASSUME NEW S \in SUBSET Nat, NEW else
  PROVE  Least(S, else) = else \/ Least(S, else) \in S
BY LeastNumber DEF Least

LEMMA MostType ==
  ASSUME NEW y \in Nat, NEW S \in SUBSET (0 .. y), NEW else
  PROVE  Most(S, else) = else \/ Most(S, else) \in S
<1> DEFINE T == {m \in Nat : y - m \in S}
<1>1. CASE S = {}
  BY <1>1 DEF Most
<1>2. CASE S # {}
  <2>1. PICK m \in T : \A l \in T : m <= l
    <3>1. PICK n \in S : TRUE
      BY <1>2
    <3>2. y - n \in Nat /\ y - (y - n) = n
      BY <3>1
    <3>3. y - n \in T
      BY <3>1, <3>2
    <3>4. T \in SUBSET Nat /\ T # {}
      BY <3>3
    <3> HIDE DEF T
    <3> QED
      BY <3>4, LeastNumber
  <2>2. y - m \in S /\ m \in Nat
    BY <2>1
  <2>3. \A n \in S : y - m >= n
    <3> TAKE n \in S
    <3>1. y - n \in Nat /\ y - (y - n) = n /\ n \in Int
      OBVIOUS
    <3>2. m <= y - n
      BY <2>1, <3>1
    <3> QED
      BY <2>2, <3>1, <3>2
  <2> QED
    BY <1>2, <2>2, <2>3 DEF Most
<1> QED
  BY <1>1, <1>2

\* The length of the line of the cursor.
LEMMA LineLength ==
  ASSUME NEW t
  PROVE  term_get_cur_memline_len(t) \in 0 .. Width
<1> DEFINE S == {n \in 0 .. Width - 1 : t.buffer[At(t.row, n)] = Nul}
<1>1. Width \in Nat /\ S \in SUBSET Nat /\ \A n \in S : n \in 0 .. Width
  BY ScreenAssumption
<1>2. term_get_cur_memline_len(t) = Least(S, Width)
  BY DEF term_get_cur_memline_len
<1> HIDE DEF S
<1>3. Width \in 0 .. Width
  BY <1>1
<1> QED
  BY <1>1, <1>2, <1>3, LeastType

\* The quotient by the width.
LEMMA Quotient ==
  ASSUME NEW c \in Nat, NEW w \in Nat \ {0}
  PROVE  /\ c \div w \in Nat /\ (c \div w) * w <= c /\ c < (c \div w) * w + w
<1>1. c \div w \in Int /\ c = w * (c \div w) + (c % w) /\ c % w \in 0 .. w - 1
  OBVIOUS
<1>2. PICK q \in Int, r \in 0 .. w - 1 : q = c \div w /\ c = w * q + r
  BY <1>1
<1>3. q * w = w * q /\ q * w \in Int
  OBVIOUS
<1>4. q >= 0
  <2>1. ASSUME q < 0
        PROVE  FALSE
    <3>1. PICK d \in Nat : q = -1 - d
      <4>1. -1 - q \in Nat /\ q = -1 - (-1 - q)
        BY <2>1
      <4> QED
        BY <4>1
    <3>2. d * w \in Nat /\ w * q = -w - d * w
      BY <3>1
    <3> QED
      BY <1>2, <3>2
  <2> QED
    BY <2>1
<1> QED
  BY <1>2, <1>3, <1>4

\* The row of a cell.
LEMMA RowOf ==
  ASSUME NEW row \in Nat, NEW c \in Row(row)
  PROVE  c \div Width = row
<1>1. PICK w \in Nat \ {0} : w = Width
  BY ScreenAssumption
<1>2. PICK q \in Nat : q = c \div w
  <2>1. row * w \in Nat
    BY <1>1
  <2>2. c \in Nat
    BY <1>1, <2>1 DEF Row, At
  <2> QED
    BY <2>2, Quotient
<1>3. row * w \in Nat /\ row * w <= c /\ c < row * w + w /\ c \in Nat
  <2>1. row * w \in Nat
    BY <1>1
  <2> QED
    BY <1>1, <2>1 DEF Row, At
<1>4. q * w <= c /\ c < q * w + w
  BY <1>2, <1>3, Quotient
<1>5. ~ (q < row)
  <2>1. q < row => q * w + w <= row * w
    BY Times
  <2>2. q * w \in Nat
    OBVIOUS
  <2> QED
    BY <1>3, <1>4, <2>1, <2>2
<1>6. ~ (row < q)
  <2>1. row < q => row * w + w <= q * w
    BY Times
  <2>2. q * w \in Nat
    OBVIOUS
  <2> QED
    BY <1>3, <1>4, <2>1, <2>2
<1> QED
  BY <1>1, <1>2, <1>5, <1>6

LEMMA RowInside ==
  ASSUME NEW c \in Cell
  PROVE  c \div Width \in 0 .. Height - 1
<1>1. PICK w, h \in Nat \ {0} : w = Width /\ h = Height
  BY ScreenAssumption
<1>2. c \in Nat /\ c < h * w
  <2>1. w * h = h * w /\ h * w \in Nat
    OBVIOUS
  <2> QED
    BY <1>1, <2>1 DEF Cell
<1>3. PICK q \in Nat : q = c \div w /\ q * w <= c
  BY <1>2, Quotient
<1>4. q < h
  <2>1. CASE h < q
    <3>1. h * w + w <= q * w /\ h * w \in Nat /\ q * w \in Nat
      BY <2>1, Times
    <3> QED
      BY <1>2, <1>3, <3>1
  <2>2. CASE h = q
    BY <1>2, <1>3, <2>2
  <2> QED
    BY <2>1, <2>2
<1> QED
  BY <1>1, <1>3, <1>4

\* The rows that are neither marked nor in R are on the screen.
Shown(t, R) == \A c \in Cell : c \div Width \notin t.dirty \cup R => t.vga[c] = t.buffer[c]

Placed(t) == t.col \in Nat /\ t.mode \in {"NORMAL", "INSERT"}

\* An operation marks what it changes, but for the status line.
Draws(t, u) == /\ Term(u) /\ (Placed(t) => Placed(u))
               /\ Shown(t, {StatusRow}) => Shown(u, {StatusRow})

LEMMA DrawsAll ==
  ASSUME NEW t, NEW u, NEW w, Draws(t, u), Draws(u, w)
  PROVE  Draws(t, w)
BY DEF Draws

LEMMA Undrawn ==
  ASSUME NEW t, NEW u, Term(u), Placed(t) => Placed(u),
         u.buffer = t.buffer, u.vga = t.vga, t.dirty \subseteq u.dirty
  PROVE  Draws(t, u)
BY DEF Draws, Shown

\* Where the cursor moves, and the marks.
LEMMA MovedDraws ==
  ASSUME NEW t, Term(t), NEW n \in Nat, NEW mode \in {"NORMAL", "INSERT"}, NEW row \in Nat
  PROVE  /\ Draws(t, t) /\ Draws(t, [t EXCEPT !.col = n]) /\ Draws(t, [t EXCEPT !.mode = mode])
         /\ Draws(t, [t EXCEPT !.row = row]) /\ Draws(t, LineDown(t)) /\ Draws(t, Wrapped(t))
<1>1. Draws(t, t)
  BY DEF Draws
<1>2. \A v : \A i \in Nat : Term(v) => Draws(v, [v EXCEPT !.col = i])
  <2> TAKE v
  <2> TAKE i \in Nat
  <2> HAVE Term(v)
  <2> DEFINE u == [v EXCEPT !.col = i]
  <2>1. /\ Term(u) /\ u.col = i /\ u.mode = v.mode /\ u.buffer = v.buffer /\ u.vga = v.vga
        /\ u.dirty = v.dirty
    BY DEF Term, Fields
  <2> HIDE DEF u
  <2>2. Draws(v, u)
    BY <2>1, Undrawn DEF Placed
  <2> QED
    BY <2>2 DEF u
<1>3. Draws(t, [t EXCEPT !.mode = mode])
  <2> DEFINE u == [t EXCEPT !.mode = mode]
  <2>1. /\ Term(u) /\ u.col = t.col /\ u.mode = mode /\ u.buffer = t.buffer /\ u.vga = t.vga
        /\ u.dirty = t.dirty
    BY DEF Term, Fields
  <2> HIDE DEF u
  <2>2. Draws(t, u)
    BY <2>1, Undrawn DEF Placed
  <2> QED
    BY <2>2 DEF u
<1>4. Draws(t, [t EXCEPT !.row = row])
  <2> DEFINE u == [t EXCEPT !.row = row]
  <2>1. /\ Term(u) /\ u.col = t.col /\ u.mode = t.mode /\ u.buffer = t.buffer /\ u.vga = t.vga
        /\ u.dirty = t.dirty
    BY DEF Term, Fields
  <2> HIDE DEF u
  <2>2. Draws(t, u)
    BY <2>1, Undrawn DEF Placed
  <2> QED
    BY <2>2 DEF u
<1>5. \A v : Term(v) => Draws(v, LineDown(v))
  <2> TAKE v
  <2> HAVE Term(v)
  <2> DEFINE u == LineDown(v)
  <2>1. Term(u)
    BY DownKeeps DEF Keeps
  <2>2. /\ u.col = v.col /\ u.mode = v.mode /\ u.buffer = v.buffer /\ u.vga = v.vga
        /\ u.dirty = v.dirty \cup {v.row + 1}
    BY DEF Term, Fields, LineDown
  <2> HIDE DEF u
  <2>3. Draws(v, u)
    BY <2>1, <2>2, Undrawn DEF Placed
  <2> QED
    BY <2>3 DEF u
<1>6. Draws(t, Wrapped(t))
  <2> DEFINE v == [t EXCEPT !.col = 0]
  <2>1. Draws(t, v)
    BY <1>2, 0 \in Nat, Zenon
  <2> HIDE DEF v
  <2>2. Draws(v, LineDown(v))
    BY <1>5, <2>1 DEF Draws
  <2>3. Draws(t, LineDown(v))
    BY <2>1, <2>2, DrawsAll
  <2> QED
    BY <1>1, <2>3 DEF Wrapped, v
<1> QED
  BY <1>1, <1>2, <1>3, <1>4, <1>5, <1>6

\* The line of the cursor is marked by what changes it.
LEMMA EditDraws ==
  ASSUME NEW t, Term(t), NEW u, Term(u), Placed(t) => Placed(u), u.vga = t.vga,
         t.dirty \cup {t.row} \subseteq u.dirty,
         \A c \in Cell : c \notin Row(t.row) => u.buffer[c] = t.buffer[c]
  PROVE  Draws(t, u)
<1> SUFFICES ASSUME Shown(t, {StatusRow}), NEW c \in Cell, c \div Width \notin u.dirty \cup {StatusRow}
             PROVE  u.vga[c] = u.buffer[c]
  BY DEF Draws, Shown
<1>1. c \notin Row(t.row)
  BY RowOf DEF Term
<1>2. t.vga[c] = t.buffer[c]
  BY DEF Shown
<1> QED
  BY <1>1, <1>2

\* What of a line is between two of its columns.
LEMMA Within ==
  ASSUME NEW row \in Nat, NEW a \in Nat, NEW b \in Int, b <= Width - 1,
         NEW c \in At(row, a) .. At(row, b)
  PROVE  c \in Row(row)
<1>1. PICK R, w \in Nat : R = row * Width /\ w = Width
  <2>1. row * Width \in Nat /\ Width \in Nat
    BY ScreenAssumption
  <2> QED
    BY <2>1
<1>2. c \in R + a .. R + b
  BY <1>1 DEF At
<1>3. c \in R + 0 .. R + (w - 1)
  BY <1>1, <1>2
<1> QED
  BY <1>1, <1>3 DEF Row, At

LEMMA CellOfRow ==
  ASSUME NEW row \in Nat, NEW a \in 0 .. Width - 1
  PROVE  At(row, a) \in Row(row)
<1> DEFINE c == At(row, a)
<1>1. c \in At(row, a) .. At(row, a)
  <2>1. row * Width \in Nat
    BY ScreenAssumption
  <2> QED
    BY <2>1 DEF At
<1>2. a \in Nat /\ a \in Int /\ a <= Width - 1
  BY ScreenAssumption
<1> HIDE DEF c
<1>3. c \in Row(row)
  BY <1>1, <1>2, Within
<1> QED
  BY <1>3 DEF c

\* A character is inserted in front of the end of the line.
LEMMA InsertedDraws ==
  ASSUME NEW t, Term(t), t.col \in 0 .. Width - 1, NEW ch
  PROVE  Draws(t, Inserted(t, ch))
<1> DEFINE u == Inserted(t, ch)
           len == term_get_cur_memline_len(t)
<1>1. t.row \in Nat /\ Width \in Nat /\ t.col \in Nat
  BY ScreenAssumption DEF Term
<1>2. Term(u)
  BY Elsewhere DEF Keeps
<1>3. /\ u.col = t.col + 1 /\ u.mode = t.mode /\ u.vga = t.vga /\ u.dirty = t.dirty \cup {t.row}
      /\ u.buffer = [Shifted(t) EXCEPT ![At(t.row, t.col)] = ch]
  BY DEF Term, Fields, Inserted
<1>4. len \in 0 .. Width
  BY LineLength
<1>5. ASSUME NEW c \in Cell, c \notin Row(t.row)
      PROVE  u.buffer[c] = t.buffer[c]
  <2>1. c # At(t.row, t.col)
    BY <1>1, <1>5, CellOfRow
  <2>2. len + 1 < Width => c \notin At(t.row, t.col) + 1 .. At(t.row, len)
    <3>1. At(t.row, t.col) + 1 = At(t.row, t.col + 1)
      BY <1>1 DEF At
    <3> HIDE DEF len
    <3>2. ASSUME len + 1 < Width, c \in At(t.row, t.col + 1) .. At(t.row, len)
          PROVE  FALSE
      <4>1. t.col + 1 \in Nat /\ len \in Int /\ len <= Width - 1
        BY <1>1, <1>4, <3>2
      <4> QED
        BY <1>1, <1>5, <3>2, <4>1, Within
    <3> QED
      BY <3>1, <3>2
  <2>3. Shifted(t)[c] = t.buffer[c]
    BY <2>2 DEF Shifted
  <2>4. Shifted(t) = [i \in Cell |-> Shifted(t)[i]]
    BY DEF Shifted, Term
  <2> QED
    BY <1>3, <2>1, <2>3, <2>4
<1> HIDE DEF u
<1>6. Draws(t, u)
  <2>1. Placed(t) => Placed(u)
    BY <1>1, <1>3 DEF Placed
  <2>2. u.vga = t.vga /\ t.dirty \cup {t.row} \subseteq u.dirty
    BY <1>3
  <2>3. \A c \in Cell : c \notin Row(t.row) => u.buffer[c] = t.buffer[c]
    BY <1>5
  <2> QED
    BY <1>2, <2>1, <2>2, <2>3, EditDraws
<1> QED
  BY <1>6 DEF u

\* The rest of the line is shifted over a character.
LEMMA DeletedDraws ==
  ASSUME NEW t, Term(t), t.col \in Nat, NEW dir \in {"FWD", "BWD"}
  PROVE  Draws(t, term_del_char(t, dir))
<1> DEFINE u == term_del_char(t, dir)
           first == IF dir = "FWD" THEN t.col ELSE t.col - 1
<1>1. t.row \in Nat /\ Width \in Nat \ {0}
  BY ScreenAssumption DEF Term
<1>2. CASE t.col = 0 /\ dir = "BWD"
  BY <1>2, MovedDraws DEF term_del_char, Draws
<1>3. CASE ~(t.col = 0 /\ dir = "BWD")
  <2>1. Term(u)
    BY Elsewhere DEF Keeps
  <2>2. /\ u.col = first /\ u.mode = t.mode /\ u.vga = t.vga /\ u.dirty = t.dirty \cup {t.row}
        /\ u.buffer = [c \in Cell |->
               IF c = At(t.row, Width - 1) THEN Nul
               ELSE IF c \in At(t.row, t.col) + (IF dir = "FWD" THEN 0 ELSE -1)
                             .. At(t.row, Width - 1) - 1
               THEN t.buffer[c + 1] ELSE t.buffer[c]]
    BY <1>3 DEF Term, Fields, term_del_char
  <2>3. first \in Nat
    BY <1>3
  <2>4. /\ At(t.row, t.col) + (IF dir = "FWD" THEN 0 ELSE -1) = At(t.row, first)
        /\ At(t.row, Width - 1) - 1 = At(t.row, Width - 2)
    <3>1. PICK R \in Nat : R = t.row * Width
      <4>1. t.row * Width \in Nat
        BY <1>1
      <4> QED
        BY <4>1
    <3> QED
      BY <1>1, <3>1 DEF At
  <2> HIDE DEF first
  <2>5. ASSUME NEW c \in Cell, c \notin Row(t.row)
        PROVE  u.buffer[c] = t.buffer[c]
    <3>1. c # At(t.row, Width - 1)
      <4>1. Width - 1 \in 0 .. Width - 1
        BY <1>1
      <4> QED
        BY <1>1, <2>5, <4>1, CellOfRow
    <3>2. c \notin At(t.row, first) .. At(t.row, Width - 2)
      <4>1. Width - 2 \in Int /\ Width - 2 <= Width - 1
        BY <1>1
      <4> QED
        BY <1>1, <2>3, <2>5, <4>1, Within
    <3> QED
      BY <2>2, <2>4, <3>1, <3>2
  <2> HIDE DEF u
  <2>6. Draws(t, u)
    BY <2>1, <2>2, <2>3, <2>5, EditDraws DEF Placed
  <2> QED
    BY <2>6 DEF u
<1> QED
  BY <1>2, <1>3

LEMMA ColumnDraws ==
  ASSUME NEW t, Term(t), NEW x, Placed(t) => x \in Nat
  PROVE  Draws(t, [t EXCEPT !.col = x])
<1> DEFINE u == [t EXCEPT !.col = x]
<1>1. /\ Term(u) /\ u.col = x /\ u.mode = t.mode /\ u.buffer = t.buffer /\ u.vga = t.vga
      /\ u.dirty = t.dirty
  BY DEF Term, Fields
<1> HIDE DEF u
<1>2. Placed(t) => Placed(u)
  BY <1>1 DEF Placed
<1>3. Draws(t, u)
  BY <1>1, <1>2, Undrawn
<1> QED
  BY <1>3 DEF u

\* The ends of the two loops over a word.
LEMMA SkipDraws ==
  ASSUME NEW t, Term(t), NEW dir \in {"FWD", "BWD"}, NEW cmp
  PROVE  Draws(t, term_skip_word(t, dir, cmp))
<1> DEFINE step == IF dir = "FWD" THEN 1 ELSE -1
           Ahead(y) == IF dir = "FWD" THEN y .. Width - 1
                       ELSE 0 .. (IF y < Width THEN y ELSE Width - 1)
           End == IF dir = "FWD" THEN Width ELSE -1
           Stops(y, skip) == {n \in Ahead(y) : ~Accepts(skip, t.buffer[At(t.row, n)])}
           First(y, skip) == IF y \notin 0 .. Width - 1 THEN y
                             ELSE IF dir = "FWD" THEN Least(Stops(y, skip), End)
                             ELSE Most(Stops(y, skip), End)
           y1 == First(t.col + step, "aiswspace")
           y2 == First(y1, cmp)
           x == IF y2 = t.col + step THEN y2 ELSE y2 - step
<1>1. \/ term_skip_word(t, dir, cmp) = t
      \/ /\ term_skip_word(t, dir, cmp) = [t EXCEPT !.col = x]
         /\ ~(t.col = 0 /\ dir = "BWD")
  BY DEF term_skip_word
<1>2. Width \in Nat \ {0}
  BY ScreenAssumption
<1>3. ASSUME NEW y \in Int, NEW skip, dir = "FWD", y >= 1
      PROVE  First(y, skip) \in Int /\ First(y, skip) >= 1
  <2> DEFINE S == Stops(y, skip)
  <2>1. S \in SUBSET Nat /\ \A n \in S : n \in Nat /\ n >= 1
    BY <1>3
  <2> HIDE DEF S
  <2>2. Least(S, Width) = Width \/ Least(S, Width) \in S
    BY <2>1, LeastType
  <2>3. Least(S, Width) \in Nat /\ Least(S, Width) >= 1
    <3>1. Width \in Nat /\ Width >= 1
      BY <1>2
    <3>2. CASE Least(S, Width) = Width
      BY <3>1, <3>2, Zenon
    <3>3. CASE Least(S, Width) \in S
      BY <2>1, <3>3, Zenon
    <3> QED
      BY <2>2, <3>2, <3>3
  <2>4. First(y, skip) = y \/ First(y, skip) = Least(S, Width)
    BY <1>3 DEF S
  <2> HIDE DEF First
  <2> QED
    BY <1>3, <2>3, <2>4
<1>4. ASSUME NEW y \in Int, NEW skip, dir = "BWD", y >= -1
      PROVE  First(y, skip) \in Int /\ First(y, skip) >= -1
  <2> DEFINE S == Stops(y, skip)
  <2>1. CASE y \notin 0 .. Width - 1
    BY <1>4, <2>1
  <2>2. CASE y \in 0 .. Width - 1
    <3>1. y \in Nat /\ S \in SUBSET (0 .. y) /\ \A n \in S : n \in Int /\ n >= -1
      BY <1>2, <1>4, <2>2
    <3>2. First(y, skip) = Most(S, -1)
      BY <1>4, <2>2
    <3> HIDE DEF S, First
    <3>3. Most(S, -1) = -1 \/ Most(S, -1) \in S
      BY <3>1, MostType
    <3>4. -1 \in Int /\ -1 >= -1
      OBVIOUS
    <3>5. CASE Most(S, -1) = -1
      BY <3>2, <3>4, <3>5, Zenon
    <3>6. CASE Most(S, -1) \in S
      BY <3>1, <3>2, <3>6, Zenon
    <3> QED
      BY <3>3, <3>5, <3>6
  <2> QED
    BY <2>1, <2>2
<1> HIDE DEF First
<1>5. ASSUME Placed(t), ~(t.col = 0 /\ dir = "BWD")
      PROVE  x \in Nat
  <2>1. t.col \in Nat
    BY <1>5 DEF Placed
  <2>2. CASE dir = "FWD"
    <3>1. t.col + step \in Int /\ t.col + step >= 1 /\ step = 1
      BY <2>1, <2>2
    <3> HIDE DEF step
    <3>2. y1 \in Int /\ y1 >= 1
      BY <1>3, <2>2, <3>1
    <3> HIDE DEF y1
    <3>3. y2 \in Int /\ y2 >= 1
      BY <1>3, <2>2, <3>2
    <3> HIDE DEF y2
    <3> QED
      BY <3>1, <3>3
  <2>3. CASE dir = "BWD"
    <3>1. t.col + step \in Int /\ t.col + step >= 0 /\ step = -1
      BY <1>5, <2>1, <2>3
    <3> HIDE DEF step
    <3>2. y1 \in Int /\ y1 >= -1
      BY <1>4, <2>3, <3>1
    <3> HIDE DEF y1
    <3>3. y2 \in Int /\ y2 >= -1
      BY <1>4, <2>3, <3>2
    <3> HIDE DEF y2
    <3> QED
      BY <3>1, <3>3
  <2> QED
    BY <2>2, <2>3
<1> HIDE DEF x
<1>6. CASE term_skip_word(t, dir, cmp) = t
  BY <1>6, MovedDraws DEF Draws
<1>7. CASE /\ term_skip_word(t, dir, cmp) = [t EXCEPT !.col = x]
           /\ ~(t.col = 0 /\ dir = "BWD")
  BY <1>5, <1>7, ColumnDraws
<1> QED
  BY <1>1, <1>6, <1>7

LEMMA CursorDraws ==
  ASSUME NEW t, Term(t), NEW n \in {0, 1}
  PROVE  /\ Draws(t, term_cursor_left(t, n)) /\ Draws(t, term_cursor_right(t, n))
         /\ Draws(t, term_cursor_up(t, n)) /\ Draws(t, term_cursor_down(t, n))
         /\ Draws(t, term_skip_to_last_char(t)) /\ Draws(t, term_skip_to_first_char(t))
<1>1. t.row \in Nat /\ t.total \in Nat /\ Width \in Nat \ {0} /\ t = [f \in Fields |-> t[f]]
  BY ScreenAssumption DEF Term
<1>2. Draws(t, term_cursor_left(t, n))
  <2> DEFINE x == IF t.col <= n THEN 0 ELSE t.col - n
  <2>1. term_cursor_left(t, n) = [t EXCEPT !.col = x]
    BY <1>1 DEF term_cursor_left, Fields
  <2>2. Placed(t) => x \in Nat
    BY DEF Placed
  <2> HIDE DEF x
  <2> QED
    BY <2>1, <2>2, ColumnDraws
<1>3. Draws(t, term_cursor_right(t, n))
  <2> DEFINE x == IF t.col + n < Width - 1 THEN t.col + n ELSE Width - 1
  <2>1. term_cursor_right(t, n) = [t EXCEPT !.col = x]
    BY <1>1 DEF term_cursor_right, Fields
  <2>2. Placed(t) => x \in Nat
    BY <1>1 DEF Placed
  <2> HIDE DEF x
  <2> QED
    BY <2>1, <2>2, ColumnDraws
<1>4. \A r \in Nat : Draws(t, [t EXCEPT !.row = r])
  <2>1. 0 \in Nat /\ "NORMAL" \in {"NORMAL", "INSERT"}
    OBVIOUS
  <2> QED
    BY <2>1, MovedDraws
<1>5. Draws(t, term_cursor_up(t, n))
  <2> DEFINE r == IF t.row <= n THEN 0 ELSE t.row - n
  <2>1. term_cursor_up(t, n) = [t EXCEPT !.row = r] /\ r \in Nat
    BY <1>1 DEF term_cursor_up, Fields
  <2> HIDE DEF r
  <2> QED
    BY <1>4, <2>1
<1>6. Draws(t, term_cursor_down(t, n))
  <2> DEFINE r == IF t.row + n < t.total THEN t.row + n ELSE t.total
  <2>1. term_cursor_down(t, n) = [t EXCEPT !.row = r] /\ r \in Nat
    BY <1>1 DEF term_cursor_down, Fields
  <2> HIDE DEF r
  <2> QED
    BY <1>4, <2>1
<1>7. Draws(t, term_skip_to_last_char(t))
  <2>1. term_get_cur_memline_len(t) \in Nat
    BY LineLength
  <2> QED
    BY <2>1, ColumnDraws DEF term_skip_to_last_char
<1>8. Draws(t, term_skip_to_first_char(t))
  <2> DEFINE S == {i \in 0 .. Width * Height - 1 - At(t.row, 0) :
                       ~aiswspace(t.buffer[At(t.row, i)])}
             x == IF term_get_cur_memline_len(t) = 0 THEN 0 ELSE Least(S, Width + 2)
  <2>1. term_skip_to_first_char(t) = [t EXCEPT !.col = x]
    BY DEF term_skip_to_first_char
  <2>2. S \in SUBSET Nat /\ Width + 2 \in Nat
    BY <1>1
  <2> HIDE DEF S
  <2>3. x \in Nat
    BY <2>2, LeastType
  <2> HIDE DEF x
  <2> QED
    BY <2>1, <2>3, ColumnDraws
<1> QED
  BY <1>2, <1>3, <1>5, <1>6, <1>7, <1>8


\* What the screen is after a key.
Shows(t) == /\ t.vga = t.buffer /\ t.dirty = {}
            /\ t.hw = <<t.row, t.col>>
            /\ \A c \in Row(StatusRow) : t.vga[c] = StatusLine(t)[c]

LEMMA StatusCells ==
  Row(StatusRow) \subseteq Cell
<1>1. PICK w, h \in Nat \ {0} : w = Width /\ h = Height
  BY ScreenAssumption
<1>2. PICK k \in Nat : k = h - 1
  BY <1>1
<1>3. k * w \in Nat /\ h * w = k * w + w
  BY <1>2
<1>4. w * h = h * w
  OBVIOUS
<1>5. Cell = 0 .. (k * w + w) - 1
  BY <1>1, <1>3, <1>4 DEF Cell
<1>6. Row(StatusRow) = k * w + 0 .. k * w + (w - 1)
  BY <1>1, <1>2 DEF Row, At, StatusRow
<1> QED
  BY <1>3, <1>5, <1>6

\* Every key ends with the drawing of the status line and of what is marked.
LEMMA UpdateShows ==
  ASSUME NEW t, Term(t)
  PROVE  /\ Draws(t, term_update(t))
         /\ Shown(t, {StatusRow}) => Shows(term_update(t))
<1> DEFINE v == term_draw_statusline(t)
           w == CopyDirty(v)
           u == vga_set_cursor_pos(w, v.row, v.col)
<1>1. /\ Term(v)
      /\ v.row = t.row /\ v.col = t.col /\ v.total = t.total /\ v.mode = t.mode /\ v.vga = t.vga
      /\ v.dirty = t.dirty \cup {StatusRow}
      /\ v.buffer = [c \in Cell |-> IF c \in Row(StatusRow) THEN StatusLine(t)[c] ELSE t.buffer[c]]
  <2>1. Term(v)
    BY Elsewhere DEF Keeps
  <2>2. /\ v.row = t.row /\ v.col = t.col /\ v.total = t.total /\ v.mode = t.mode
        /\ v.vga = t.vga /\ v.dirty = t.dirty \cup {StatusRow}
    BY DEF Term, Fields, term_draw_statusline
  <2>3. v.buffer = [c \in Cell |-> IF c \in Row(StatusRow) THEN StatusLine(t)[c] ELSE t.buffer[c]]
    BY DEF Term, Fields, term_draw_statusline
  <2> QED
    BY <2>1, <2>2, <2>3
<1> HIDE DEF v
<1>2. /\ Term(w)
      /\ w.row = v.row /\ w.col = v.col /\ w.total = v.total /\ w.mode = v.mode
      /\ w.buffer = v.buffer /\ w.dirty = {}
      /\ w.vga = [c \in Cell |-> IF c \div Width \in v.dirty THEN v.buffer[c] ELSE v.vga[c]]
  <2>1. Term(w)
    BY <1>1, Elsewhere DEF Keeps
  <2>2. /\ w.row = v.row /\ w.col = v.col /\ w.total = v.total /\ w.mode = v.mode
        /\ w.buffer = v.buffer /\ w.dirty = {}
    BY <1>1 DEF Term, Fields, CopyDirty
  <2>3. w.vga = [c \in Cell |-> IF c \div Width \in v.dirty THEN v.buffer[c] ELSE v.vga[c]]
    BY <1>1 DEF Term, Fields, CopyDirty
  <2> QED
    BY <2>1, <2>2, <2>3
<1> HIDE DEF w
<1>3. /\ Term(u)
      /\ u.row = w.row /\ u.col = w.col /\ u.total = w.total /\ u.mode = w.mode
      /\ u.buffer = w.buffer /\ u.dirty = w.dirty /\ u.vga = w.vga /\ u.hw = <<v.row, v.col>>
  <2>1. Term(u)
    BY <1>2, Elsewhere DEF Keeps
  <2>2. /\ u.row = w.row /\ u.col = w.col /\ u.total = w.total /\ u.mode = w.mode
        /\ u.buffer = w.buffer /\ u.dirty = w.dirty /\ u.vga = w.vga /\ u.hw = <<v.row, v.col>>
    BY <1>2 DEF Term, Fields, vga_set_cursor_pos
  <2> QED
    BY <2>1, <2>2
<1>4. term_update(t) = u
  BY DEF term_update, term_flush, v, w
<1> HIDE DEF u
<1>5. ASSUME Shown(t, {StatusRow}), NEW c \in Cell
      PROVE  u.vga[c] = u.buffer[c]
  <2>1. CASE c \div Width \in v.dirty
    BY <1>2, <1>3, <2>1
  <2>2. CASE c \div Width \notin v.dirty
    <3>1. c \div Width \notin t.dirty \cup {StatusRow}
      BY <1>1, <2>2
    <3>2. c \notin Row(StatusRow)
      <4>1. StatusRow \in Nat
        BY ScreenAssumption DEF StatusRow
      <4> QED
        BY <3>1, <4>1, RowOf
    <3>3. t.vga[c] = t.buffer[c]
      BY <1>5, <3>1 DEF Shown
    <3>4. v.vga[c] = v.buffer[c]
      BY <1>1, <3>2, <3>3
    <3> QED
      BY <1>2, <1>3, <2>2, <3>4
  <2> QED
    BY <2>1, <2>2
<1>6. Shown(t, {StatusRow}) => Shows(u)
  <2> SUFFICES ASSUME Shown(t, {StatusRow})
               PROVE  Shows(u)
    OBVIOUS
  <2>1. u.vga = [c \in Cell |-> u.vga[c]] /\ u.buffer = [c \in Cell |-> u.buffer[c]]
    BY <1>1, <1>2, <1>3
  <2>2. u.vga = u.buffer
    BY <1>5, <2>1
  <2>3. u.dirty = {} /\ u.hw = <<u.row, u.col>>
    BY <1>2, <1>3
  <2>4. StatusLine(u) = StatusLine(t)
    BY <1>1, <1>2, <1>3 DEF StatusLine, StatusText
  <2>5. ASSUME NEW c \in Row(StatusRow)
        PROVE  u.buffer[c] = StatusLine(t)[c]
    BY <1>1, <1>2, <1>3, StatusCells
  <2> QED
    BY <2>2, <2>3, <2>4, <2>5 DEF Shows
<1>7. Draws(t, u)
  <2>1. Placed(t) => Placed(u)
    BY <1>1, <1>2, <1>3 DEF Placed
  <2>2. Shown(t, {StatusRow}) => Shown(u, {StatusRow})
    BY <1>5 DEF Shown
  <2> QED
    BY <1>3, <2>1, <2>2 DEF Draws
<1> QED
  BY <1>4, <1>6, <1>7

\* The handlers of the two modes.
LEMMA HandlerDraws ==
  ASSUME NEW t, Term(t), Placed(t), NEW in, Admitted(t, in)
  PROVE  Draws(t, IF t.mode = "NORMAL" THEN handle_normal_mode(t, in) ELSE handle_insert_mode(t, in))
<1>1. Draws(t, t)
  BY DEF Draws
<1>2. \A u : Draws(t, u) => Term(u) /\ Placed(u) /\ u.col \in Nat
  BY DEF Draws, Placed
<1>3. ASSUME NEW u, Draws(t, u), NEW mode \in {"NORMAL", "INSERT"}
      PROVE  Draws(t, term_update([u EXCEPT !.mode = mode]))
  <2> DEFINE w == [u EXCEPT !.mode = mode]
  <2>1. Draws(u, w)
    <3>1. Term(u) /\ 0 \in Nat
      BY <1>2, <1>3
    <3> QED
      BY <3>1, MovedDraws
  <2> HIDE DEF w
  <2>2. Draws(t, w)
    BY <1>3, <2>1, DrawsAll
  <2>3. Draws(w, term_update(w))
    BY <1>2, <2>2, UpdateShows
  <2>4. Draws(t, term_update(w))
    BY <2>2, <2>3, DrawsAll
  <2> QED
    BY <2>4 DEF w
<1>4. ASSUME NEW u, Draws(t, u)
      PROVE  Draws(t, InsertMode(u))
  <2>1. "INSERT" \in {"NORMAL", "INSERT"}
    OBVIOUS
  <2> QED
    BY <1>3, <1>4, <2>1 DEF InsertMode
<1>5. Draws(t, term_del_char(t, "FWD")) /\ Draws(t, term_del_char(t, "BWD"))
  <2>1. t.col \in Nat /\ "FWD" \in {"FWD", "BWD"} /\ "BWD" \in {"FWD", "BWD"}
    BY DEF Placed
  <2> QED
    BY <2>1, DeletedDraws
<1>6. /\ Draws(t, term_cursor_left(t, 1)) /\ Draws(t, term_cursor_right(t, 1))
      /\ Draws(t, term_cursor_up(t, 1)) /\ Draws(t, term_cursor_down(t, 1))
      /\ Draws(t, term_skip_to_last_char(t)) /\ Draws(t, term_skip_to_first_char(t))
  <2>1. 1 \in {0, 1}
    OBVIOUS
  <2> QED
    BY <2>1, CursorDraws
<1>7. \A cmp : Draws(t, term_skip_word(t, "FWD", cmp)) /\ Draws(t, term_skip_word(t, "BWD", cmp))
  BY SkipDraws
<1>8. Draws(t, handle_normal_mode(t, in))
  <2>1. Draws(t, InsertMode(term_cursor_right(term_del_char(t, "FWD"), 0)))
    <3> DEFINE u == term_del_char(t, "FWD")
    <3>1. Draws(t, u)
      BY <1>5
    <3> HIDE DEF u
    <3>2. Draws(u, term_cursor_right(u, 0))
      <4>1. Term(u) /\ 0 \in {0, 1}
        BY <1>2, <3>1
      <4> QED
        BY <4>1, CursorDraws
    <3>3. Draws(t, term_cursor_right(u, 0))
      BY <3>1, <3>2, DrawsAll
    <3> QED
      BY <1>4, <3>3 DEF u
  <2>2. Draws(t, InsertMode(term_cursor_right(t, 1))) /\ Draws(t, InsertMode(t))
    BY <1>1, <1>4, <1>6
  <2> QED
    BY <1>1, <1>5, <1>6, <1>7, <2>1, <2>2, Zenon DEF handle_normal_mode
<1>9. CASE t.mode # "NORMAL"
  <2>1. t.mode = "INSERT"
    BY <1>9 DEF Placed
  <2>2. Draws(t, term_update([t EXCEPT !.mode = "NORMAL"]))
    <3>1. "NORMAL" \in {"NORMAL", "INSERT"}
      OBVIOUS
    <3> QED
      BY <1>1, <1>3, <3>1
  <2>3. Draws(t, LineDown([t EXCEPT !.col = 0]))
    <3> DEFINE u == [t EXCEPT !.col = 0]
    <3>1. Draws(t, u)
      BY ColumnDraws, 0 \in Nat
    <3> HIDE DEF u
    <3>2. Draws(u, LineDown(u))
      <4>1. Term(u) /\ 0 \in Nat /\ "NORMAL" \in {"NORMAL", "INSERT"}
        BY <1>2, <3>1
      <4> QED
        BY <4>1, MovedDraws
    <3>3. Draws(t, LineDown(u))
      BY <3>1, <3>2, DrawsAll
    <3> QED
      BY <3>3 DEF u
  <2>4. Draws(t, term_inschar(t, "\n"))
    BY <2>3 DEF term_inschar
  <2>5. ASSUME in \notin {"Esc", "Backspace", "Enter"}
        PROVE  Draws(t, term_inschar(t, in))
    <3>1. t.col \in 0 .. Width - 1
      <4>1. t.col < Width
        BY <2>1, <2>5 DEF Admitted
      <4> QED
        BY <4>1, ScreenAssumption DEF Placed
    <3> DEFINE u == Inserted(t, in)
    <3>2. Draws(t, u)
      BY <3>1, InsertedDraws
    <3> HIDE DEF u
    <3>3. Draws(u, Wrapped(u))
      <4>1. Term(u) /\ 0 \in Nat /\ "NORMAL" \in {"NORMAL", "INSERT"}
        BY <1>2, <3>2
      <4> QED
        BY <4>1, MovedDraws
    <3>4. Draws(t, Wrapped(u))
      BY <3>2, <3>3, DrawsAll
    <3> QED
      BY <2>3, <3>4 DEF term_inschar, u
  <2>6. Draws(t, handle_insert_mode(t, in))
    <3>1. CASE in \in {"Esc", "Backspace", "Enter"}
      BY <1>5, <2>2, <2>4, <3>1 DEF handle_insert_mode
    <3>2. CASE in \notin {"Esc", "Backspace", "Enter"}
      <4>1. in # "Esc" /\ in # "Backspace" /\ in # "Enter"
        BY <3>2
      <4>2. handle_insert_mode(t, in) = term_inschar(t, in)
        BY <4>1 DEF handle_insert_mode
      <4> QED
        BY <2>5, <3>2, <4>2
    <3> QED
      BY <3>1, <3>2
  <2> QED
    BY <1>9, <2>6
<1> QED
  BY <1>8, <1>9

\* A key draws what it changes, and leaves a screen that is up to date if the
\* marks told what to draw.
LEMMA KeyShows ==
  ASSUME NEW t, Term(t), Placed(t), NEW in, Admitted(t, in)
  PROVE  /\ Term(handle_input(t, in)) /\ Placed(handle_input(t, in))
         /\ Shown(t, {StatusRow}) => Shows(handle_input(t, in))
<1> DEFINE u == IF t.mode = "NORMAL" THEN handle_normal_mode(t, in) ELSE handle_insert_mode(t, in)
<1>1. handle_input(t, in) = term_update(u)
  BY DEF handle_input
<1>2. Draws(t, u)
  BY HandlerDraws
<1> HIDE DEF u
<1>3. Term(u) /\ Placed(u) /\ (Shown(t, {StatusRow}) => Shown(u, {StatusRow}))
  BY <1>2 DEF Draws
<1>4. Draws(u, term_update(u)) /\ (Shown(u, {StatusRow}) => Shows(term_update(u)))
  BY <1>3, UpdateShows
<1> QED
  BY <1>1, <1>3, <1>4 DEF Draws

-----------------------------------------------------------------------------
(* The first process puts each character first and marks its row again     *)
(* afterwards: a key between the two takes the first mark away, so that    *)
(* the row is open until the second.  While no character was put behind    *)
(* the end of a line, the row marked is the one that has changed.          *)

\* What is not on the screen although it is not marked.
Open == {StatusRow} \cup
            (IF pc \in {"advance", "mark again"} /\ keys = 1 /\ Head(text) # "\n"
             THEN {term.row} ELSE {})

\* The row that a flush has copied and not yet unmarked.
Copied == \A c \in Cell : c \div Width = line => term.vga[c] = term.buffer[c]

ScreenInv == /\ Placed(term)
             /\ save # <<>> => save[2] \in Nat
             /\ keys \in {0, 1}
             /\ pc \notin {"clear", "mark all"} => Shown(term, Open)
             /\ pc = "put" /\ keys = 0 => term.row \in term.dirty
             /\ pc = "unmark" => Copied
             /\ pc = "idle" /\ keys = 1 => Shows(term)

LEMMA ScreenStart ==
  Init => ScreenInv
<1> SUFFICES ASSUME Init
             PROVE  ScreenInv
  OBVIOUS
<1>1. Placed(term)
  BY DEF Init, Placed
<1>2. pc = "clear" /\ save = <<>> /\ keys = 0
  BY DEF Init
<1> QED
  BY <1>1, <1>2 DEF ScreenInv

\* A step of the first process behind the first marks, that leaves the keys
\* and save alone and neither ends nor begins a character.
LEMMA ScreenKept ==
  ASSUME LinesInv, ScreenInv, pc \notin {"clear", "mark all"}, Draws(term, term'),
         Open = {StatusRow}, keys' = keys, save' = save,
         pc' \notin {"put", "unmark", "idle"}
  PROVE  ScreenInv'
<1>1. Placed(term') /\ Shown(term', {StatusRow})
  BY DEF ScreenInv, Draws
<1>2. StatusRow \in Open'
  BY DEF Open
<1>3. Shown(term', Open')
  BY <1>1, <1>2 DEF Shown
<1> QED
  BY <1>1, <1>3 DEF ScreenInv

\* The parts of what a step has to show.
LEMMA ScreenNext ==
  ASSUME Placed(term'), save' # <<>> => save'[2] \in Nat, keys' \in {0, 1},
         pc' \notin {"clear", "mark all"} => Shown(term', Open'),
         pc' = "put" /\ keys' = 0 => term'.row \in term'.dirty,
         pc' = "unmark" => Copied',
         pc' = "idle" /\ keys' = 1 => Shows(term')
  PROVE  ScreenInv'
BY DEF ScreenInv

LEMMA ScreenStep ==
  LinesInv /\ ScreenInv /\ ~outside' /\ [Next]_vars => ScreenInv'
<1> SUFFICES ASSUME LinesInv, ScreenInv, ~outside', [Next]_vars
             PROVE  ScreenInv'
  OBVIOUS
<1>1. Term(term) /\ Placed(term) /\ term.row \in Nat /\ term.col \in Nat
  BY DEF LinesInv, ScreenInv, Term, Placed
<1>2. keys \in {0, 1} /\ (save # <<>> => save[2] \in Nat)
  BY DEF ScreenInv
<1>3. pc \notin {"advance", "mark again"} => Open = {StatusRow}
  BY DEF Open
<1>4. CASE Clear
  <2>1. /\ pc' = "mark all" /\ save' = save /\ keys' = keys
        /\ term' = [term EXCEPT !.buffer = [c \in Cell |-> Nul]]
    BY <1>4 DEF Clear, Goto
  <2>2. Placed(term')
    BY <1>1, <2>1 DEF Term, Fields, Placed
  <2> QED
    BY <1>2, <2>1, <2>2 DEF ScreenInv
<1>5. CASE MarkAll
  <2>1. /\ pc' = "blank" /\ save' = save /\ keys' = keys
        /\ term' = [term EXCEPT !.dirty = 0 .. Height - 1]
    BY <1>5 DEF MarkAll, Goto
  <2>2. Placed(term') /\ term'.dirty = 0 .. Height - 1
    BY <1>1, <2>1 DEF Term, Fields, Placed
  <2>3. Shown(term', Open')
    BY <2>2, RowInside DEF Shown
  <2> QED
    BY <1>2, <2>1, <2>2, <2>3 DEF ScreenInv
<1>6. CASE BlankStatus
  <2>1. /\ pc = "blank" /\ pc' = "move" /\ save' = <<term.row, term.col>> /\ keys' = keys
        /\ term' = Blank(term)
    BY <1>6 DEF BlankStatus, Goto
  <2>2. /\ term'.col = term.col /\ term'.mode = term.mode /\ term'.vga = term.vga
        /\ term'.dirty = term.dirty
        /\ term'.buffer = [c \in Cell |-> IF c \in Row(StatusRow) THEN " " ELSE term.buffer[c]]
    BY <1>1, <2>1 DEF Term, Fields, Blank
  <2>3. Shown(term', {StatusRow})
    <3> SUFFICES ASSUME NEW c \in Cell, c \div Width \notin term'.dirty \cup {StatusRow}
                 PROVE  term'.vga[c] = term'.buffer[c]
      BY DEF Shown
    <3>1. c \notin Row(StatusRow)
      <4>1. StatusRow \in Nat
        BY ScreenAssumption DEF StatusRow
      <4> QED
        BY <4>1, RowOf
    <3>2. term.vga[c] = term.buffer[c]
      <4>1. Shown(term, {StatusRow})
        BY <1>3, <2>1 DEF ScreenInv
      <4> QED
        BY <2>2, <4>1 DEF Shown
    <3> QED
      BY <2>2, <3>1, <3>2
  <2>4. Open' = {StatusRow}
    BY <2>1 DEF Open
  <2>5. Placed(term') /\ save'[2] = term.col
    BY <1>1, <2>1, <2>2 DEF Placed
  <2> QED
    BY <1>1, <1>2, <2>1, <2>3, <2>4, <2>5 DEF ScreenInv
<1>7. CASE Move
  <2>1. /\ pc = "move" /\ pc' = "mark" /\ save' = save /\ keys' = keys
        /\ term' = [term EXCEPT !.row = StatusRow, !.col = 0]
    BY <1>7 DEF Move, Goto
  <2>2. /\ term' = [f \in Fields |-> term'[f]] /\ term'.total = term.total
        /\ term'.row = StatusRow /\ term'.buffer = term.buffer /\ term'.col = 0
        /\ term'.mode = term.mode /\ term'.vga = term.vga /\ term'.dirty = term.dirty
    BY <1>1, <2>1 DEF Term, Fields
  <2>3. Draws(term, term')
    <3>1. StatusRow \in Nat
      BY ScreenAssumption DEF StatusRow
    <3>2. Term(term')
      BY <1>1, <2>2, <3>1 DEF Term
    <3>3. Placed(term')
      BY <1>1, <2>2 DEF Placed
    <3> QED
      BY <2>2, <3>2, <3>3, Undrawn
  <2> QED
    BY <1>3, <2>1, <2>3, ScreenKept
<1>8. CASE Mark
  <2>1. /\ pc = "mark" /\ pc' = "put" /\ save' = save /\ keys' = 0
        /\ term' = [term EXCEPT !.dirty = @ \cup {term.row}]
    BY <1>8 DEF Mark, Goto
  <2>2. /\ term'.row = term.row /\ term'.col = term.col /\ term'.mode = term.mode
        /\ term'.buffer = term.buffer /\ term'.vga = term.vga
        /\ term'.dirty = term.dirty \cup {term.row}
    BY <1>1, <2>1 DEF Term, Fields
  <2>3. Shown(term', Open')
    <3>1. Shown(term, {StatusRow})
      BY <1>3, <2>1 DEF ScreenInv
    <3>2. Open' = {StatusRow}
      BY <2>1 DEF Open
    <3> QED
      BY <2>2, <3>1, <3>2 DEF Shown
  <2>4. Placed(term')
    BY <1>1, <2>2 DEF Placed
  <2> QED
    BY <1>2, <2>1, <2>2, <2>3, <2>4 DEF ScreenInv
<1>9. CASE Put
  <2>1. /\ pc = "put" /\ pc' = (IF Head(text) = "\n" THEN "down" ELSE "advance")
        /\ save' = save /\ keys' = keys /\ text' = text
        /\ outside' = (outside \/ (Head(text) # "\n" /\ term.col >= Width))
    BY <1>9 DEF Put, Goto
  <2>2. Shown(term, {StatusRow}) /\ (keys = 0 => term.row \in term.dirty)
    BY <1>3, <2>1 DEF ScreenInv
  <2>3. CASE Head(text) = "\n"
    <3>1. term' = [term EXCEPT !.col = 0]
      BY <1>9, <2>3 DEF Put
    <3>2. /\ term'.col = 0 /\ term'.mode = term.mode /\ term'.buffer = term.buffer
          /\ term'.vga = term.vga /\ term'.dirty = term.dirty
      BY <1>1, <3>1 DEF Term, Fields
    <3>3. Shown(term', Open')
      <4>1. StatusRow \in Open'
        BY DEF Open
      <4> QED
        BY <2>2, <3>2, <4>1 DEF Shown
    <3>4. Placed(term')
      BY <1>1, <3>2 DEF Placed
    <3> QED
      BY <1>2, <2>1, <3>3, <3>4 DEF ScreenInv
  <2>4. CASE Head(text) # "\n"
    <3>1. term' = [term EXCEPT !.buffer[At(term.row, term.col)] = Head(text)]
      BY <1>9, <2>4 DEF Put
    <3>2. /\ term'.col = term.col /\ term'.row = term.row /\ term'.mode = term.mode
          /\ term'.vga = term.vga /\ term'.dirty = term.dirty
      BY <1>1, <3>1 DEF Term, Fields
    <3>3. term'.buffer = [term.buffer EXCEPT ![At(term.row, term.col)] = Head(text)]
      BY <1>1, <3>1 DEF Term, Fields
    <3>4. StatusRow \in Open' /\ (keys = 1 => term.row \in Open')
      BY <2>1, <2>4, <3>2 DEF Open
    <3>5. Shown(term', Open')
      <4> SUFFICES ASSUME NEW c \in Cell, c \div Width \notin term'.dirty \cup Open'
                   PROVE  term'.vga[c] = term'.buffer[c]
        BY DEF Shown
      <4>1. c \div Width \notin term.dirty \cup {StatusRow} /\ c \div Width # term.row
        BY <1>2, <2>2, <3>2, <3>4
      <4>2. c # At(term.row, term.col)
        <5>1. ~(term.col >= Width)
          BY <2>1, <2>4
        <5>2. term.col \in 0 .. Width - 1
          BY <1>1, <5>1, ScreenAssumption
        <5> QED
          BY <1>1, <4>1, <5>2, CellOfRow, RowOf
      <4>3. term'.buffer[c] = term.buffer[c]
        BY <1>1, <3>3, <4>2 DEF Term
      <4> QED
        BY <2>2, <3>2, <4>1, <4>3 DEF Shown
    <3>6. Placed(term')
      BY <1>1, <3>2 DEF Placed
    <3> QED
      BY <1>2, <2>1, <3>5, <3>6 DEF ScreenInv
  <2> QED
    BY <2>3, <2>4
<1>10. CASE Advance
  <2>1. /\ pc = "advance" /\ pc' = "mark again" /\ save' = save /\ keys' = keys /\ text' = text
        /\ term' = [term EXCEPT !.col = @ + 1]
    BY <1>10 DEF Advance, Goto
  <2>2. /\ term'.col = term.col + 1 /\ term'.row = term.row /\ term'.mode = term.mode
        /\ term'.buffer = term.buffer /\ term'.vga = term.vga /\ term'.dirty = term.dirty
    BY <1>1, <2>1 DEF Term, Fields
  <2>3. Open' = Open /\ Shown(term, Open)
    BY <2>1, <2>2 DEF Open, ScreenInv
  <2>4. Shown(term', Open')
    BY <2>2, <2>3 DEF Shown
  <2>5. Placed(term')
    BY <1>1, <2>2 DEF Placed
  <2> QED
    BY <1>2, <2>1, <2>4, <2>5, ScreenNext
<1>11. CASE Down
  <2>1. /\ pc \in {"down", "wrap down"} /\ pc' \in {"count", "wrap mark"}
        /\ save' = save /\ keys' = keys /\ term' = [term EXCEPT !.row = term.row + 1]
    BY <1>11 DEF Down, Goto
  <2>2. Draws(term, term')
    <3>1. 0 \in Nat /\ "NORMAL" \in {"NORMAL", "INSERT"} /\ term.row + 1 \in Nat
      BY <1>1
    <3> QED
      BY <1>1, <2>1, <3>1, MovedDraws
  <2> QED
    BY <1>3, <2>1, <2>2, ScreenKept
<1>12. CASE Count
  <2>1. /\ pc \in {"count", "wrap count"} /\ pc' \in {"mark again", "flush"}
        /\ save' = save /\ keys' = keys /\ term' = [term EXCEPT !.total = @ + 1]
    BY <1>12 DEF Count, Goto
  <2>2. /\ term' = [f \in Fields |-> term'[f]] /\ term'.row = term.row
        /\ term'.total = term.total + 1 /\ term'.col = term.col /\ term'.mode = term.mode
        /\ term'.buffer = term.buffer /\ term'.vga = term.vga /\ term'.dirty = term.dirty
    BY <1>1, <2>1 DEF Term, Fields
  <2>3. Draws(term, term')
    <3>1. Term(term')
      BY <1>1, <2>2 DEF Term
    <3> QED
      BY <2>2, <3>1, Undrawn DEF Placed
  <2> QED
    BY <1>3, <2>1, <2>3, ScreenKept
<1>13. CASE MarkAgain
  <2>1. /\ pc \in {"mark again", "wrap mark"} /\ pc' \in {"wrap", "wrap count"}
        /\ save' = save /\ keys' = keys
        /\ term' = [term EXCEPT !.dirty = @ \cup {term.row}]
    BY <1>13 DEF MarkAgain, Goto
  <2>2. /\ term'.col = term.col /\ term'.row = term.row /\ term'.mode = term.mode
        /\ term'.buffer = term.buffer /\ term'.vga = term.vga
        /\ term'.dirty = term.dirty \cup {term.row}
    BY <1>1, <2>1 DEF Term, Fields
  <2>3. Open \subseteq {StatusRow, term.row} /\ Open' = {StatusRow} /\ Shown(term, Open)
    BY <2>1 DEF Open, ScreenInv
  <2>4. Shown(term', Open')
    BY <2>2, <2>3 DEF Shown
  <2>5. Placed(term')
    BY <1>1, <2>2 DEF Placed
  <2> QED
    BY <1>2, <2>1, <2>4, <2>5, ScreenNext
<1>14. CASE Wrap
  <2>1. /\ pc = "wrap" /\ pc' \in {"wrap down", "flush"} /\ save' = save /\ keys' = keys
        /\ term' \in {term, [term EXCEPT !.col = 0]}
    BY <1>14 DEF Wrap, Goto
  <2>2. Draws(term, term')
    <3>1. 0 \in Nat /\ "NORMAL" \in {"NORMAL", "INSERT"}
      OBVIOUS
    <3>2. Draws(term, term) /\ Draws(term, [term EXCEPT !.col = 0])
      BY <1>1, <3>1, MovedDraws
    <3> QED
      BY <2>1, <3>2
  <2> QED
    BY <1>3, <2>1, <2>2, ScreenKept
<1>15. CASE CopyRow
  <2>1. PICK row : /\ term' = [term EXCEPT !.vga = [c \in Cell |-> IF c \div Width = row
                                                                  THEN term.buffer[c] ELSE @[c]]]
                   /\ line' = row /\ pc = "flush" /\ pc' = "unmark"
                   /\ save' = save /\ keys' = keys
    BY <1>15 DEF CopyRow, Goto
  <2>2. /\ term'.col = term.col /\ term'.mode = term.mode /\ term'.buffer = term.buffer
        /\ term'.dirty = term.dirty
        /\ term'.vga = [c \in Cell |-> IF c \div Width = row THEN term.buffer[c] ELSE term.vga[c]]
    BY <1>1, <2>1 DEF Term, Fields
  <2>3. Shown(term', Open')
    <3>1. Shown(term, {StatusRow})
      BY <1>3, <2>1 DEF ScreenInv
    <3>2. Open' = {StatusRow}
      BY <2>1 DEF Open
    <3> QED
      BY <2>2, <3>1, <3>2 DEF Shown
  <2>4. Copied'
    BY <2>1, <2>2 DEF Copied
  <2>5. Placed(term')
    BY <1>1, <2>2 DEF Placed
  <2> QED
    BY <1>2, <2>1, <2>3, <2>4, <2>5, ScreenNext
<1>16. CASE UnmarkRow
  <2>1. /\ pc = "unmark" /\ pc' = "flush" /\ save' = save /\ keys' = keys
        /\ term' = [term EXCEPT !.dirty = @ \ {line}]
    BY <1>16 DEF UnmarkRow, Goto
  <2>2. /\ term'.col = term.col /\ term'.mode = term.mode /\ term'.buffer = term.buffer
        /\ term'.vga = term.vga /\ term'.dirty = term.dirty \ {line}
    BY <1>1, <2>1 DEF Term, Fields
  <2>3. Shown(term', Open')
    <3>1. Shown(term, {StatusRow}) /\ Copied
      BY <1>3, <2>1 DEF ScreenInv
    <3>2. Open' = {StatusRow}
      BY <2>1 DEF Open
    <3> SUFFICES ASSUME NEW c \in Cell, c \div Width \notin term'.dirty \cup {StatusRow}
                 PROVE  term'.vga[c] = term'.buffer[c]
      BY <3>2 DEF Shown
    <3>3. CASE c \div Width = line
      BY <2>2, <3>1, <3>3 DEF Copied
    <3>4. CASE c \div Width # line
      <4>1. c \div Width \notin term.dirty \cup {StatusRow}
        BY <2>2, <3>4
      <4> QED
        BY <2>2, <3>1, <4>1 DEF Shown
    <3> QED
      BY <3>3, <3>4
  <2>4. Placed(term')
    BY <1>1, <2>2 DEF Placed
  <2> QED
    BY <1>2, <2>1, <2>3, <2>4, ScreenNext
<1>17. CASE Flushed
  <2>1. /\ pc = "flush" /\ pc' = "cursor" /\ keys' = keys /\ term' = term
        /\ save' = save \o <<term.row, term.col>>
    BY <1>17 DEF Flushed, Goto
  <2>2. Shown(term', Open')
    <3>1. Open' = Open /\ Shown(term, Open)
      BY <2>1 DEF Open, ScreenInv
    <3> QED
      BY <2>1, <3>1
  <2>3. save'[2] \in Nat
    <3>1. CASE save = <<>>
      <4>1. save' = <<>> \o <<term.row, term.col>>
        BY <2>1, <3>1, Zenon
      <4>2. save' = <<term.row, term.col>>
        BY <4>1
      <4> QED
        BY <1>1, <4>2
    <3>2. CASE save = <<save[1], save[2]>>
      <4>1. save' = <<save[1], save[2], term.row, term.col>>
        BY <2>1, <3>2, Saved, Zenon
      <4>2. save # <<>> /\ save'[2] = save[2]
        BY <3>2, <4>1
      <4> QED
        BY <1>2, <4>2
    <3> QED
      BY <2>1, <3>1, <3>2 DEF LinesInv
  <2> QED
    BY <1>1, <1>2, <2>1, <2>2, <2>3, ScreenNext
<1>18. CASE HardwareCursor
  <2>1. /\ pc = "cursor" /\ pc' \in {"mark", "restore", "idle"}
        /\ keys' = IF pc' = "idle" THEN 0 ELSE keys
        /\ term' = vga_set_cursor_pos(term, save[Len(save) - 1], save[Len(save)])
        /\ save' = SubSeq(save, 1, Len(save) - 2)
    BY <1>18 DEF HardwareCursor, Goto
  <2>2. /\ term'.col = term.col /\ term'.mode = term.mode /\ term'.buffer = term.buffer
        /\ term'.dirty = term.dirty /\ term'.vga = term.vga
    BY <1>1, <2>1 DEF Term, Fields, vga_set_cursor_pos
  <2>3. Shown(term', Open')
    <3>1. Shown(term, {StatusRow})
      BY <1>3, <2>1 DEF ScreenInv
    <3>2. Open' = {StatusRow}
      BY <2>1 DEF Open
    <3> QED
      BY <2>2, <3>1, <3>2 DEF Shown
  <2>4. save' # <<>> => save'[2] \in Nat
    <3>1. CASE save = <<save[1], save[2]>>
      <4>1. Len(save) = 2 /\ Len(save) - 2 = 0
        BY <3>1
      <4>2. save' = SubSeq(save, 1, 0)
        BY <2>1, <4>1, Zenon
      <4> QED
        BY <3>1, <4>2, Saved, Zenon
    <3>2. CASE save = <<save[1], save[2], save[3], save[4]>>
      <4>1. Len(save) = 4 /\ Len(save) - 2 = 2 /\ save # <<>>
        BY <3>2
      <4>2. save' = SubSeq(save, 1, 2)
        BY <2>1, <4>1, Zenon
      <4>3. save' = <<save[1], save[2]>>
        BY <3>2, <4>2, Saved, Zenon
      <4>4. save'[2] = save[2]
        BY <4>3
      <4> QED
        BY <1>2, <4>1, <4>4
    <3> QED
      BY <2>1, <3>1, <3>2 DEF LinesInv, Printing
  <2>5. Placed(term')
    BY <1>1, <2>2 DEF Placed
  <2> QED
    <3>1. keys' \in {0, 1} /\ pc' \notin {"put", "unmark"} /\ (pc' = "idle" => keys' = 0)
      BY <1>2, <2>1
    <3> QED
      BY <2>3, <2>4, <2>5, <3>1, ScreenNext
<1>19. CASE Restore
  <2>1. /\ pc = "restore" /\ pc' = "flush" /\ save' = <<>> /\ keys' = keys
        /\ term' = [term EXCEPT !.row = save[1], !.col = save[2], !.dirty = @ \cup {StatusRow}]
    BY <1>19 DEF Restore, Goto
  <2>2. /\ term'.col = save[2] /\ term'.mode = term.mode /\ term'.buffer = term.buffer
        /\ term'.dirty = term.dirty \cup {StatusRow} /\ term'.vga = term.vga
    BY <1>1, <2>1 DEF Term, Fields
  <2>3. Shown(term', Open')
    <3>1. Shown(term, {StatusRow})
      BY <1>3, <2>1 DEF ScreenInv
    <3>2. Open' = {StatusRow}
      BY <2>1 DEF Open
    <3> QED
      BY <2>2, <3>1, <3>2 DEF Shown
  <2>4. Placed(term')
    <3>1. save = <<save[1], save[2]>>
      BY <2>1 DEF LinesInv, Printing
    <3>2. save # <<>>
      BY <3>1
    <3> QED
      BY <1>1, <1>2, <2>2, <3>2 DEF Placed
  <2> QED
    BY <1>2, <2>1, <2>3, <2>4 DEF ScreenInv
<1>20. CASE Shift
  <2>1. /\ term' = [term EXCEPT !.shift = ~@] /\ pc' = pc /\ save' = save /\ text' = text
        /\ line' = line /\ (keys = 0 \/ pc = "idle")
        /\ keys' = IF pc = "idle" THEN keys ELSE 1
    BY <1>20 DEF Shift
  <2>2. /\ term'.col = term.col /\ term'.row = term.row /\ term'.total = term.total
        /\ term'.mode = term.mode /\ term'.buffer = term.buffer /\ term'.vga = term.vga
        /\ term'.dirty = term.dirty /\ term'.hw = term.hw
    BY <1>1, <2>1 DEF Term, Fields
  <2>3. Open = {StatusRow} /\ StatusRow \in Open'
    <3>1. ~(pc \in {"advance", "mark again"} /\ keys = 1)
      <4>1. CASE keys = 0
        BY <4>1
      <4>2. CASE pc = "idle"
        BY <4>2
      <4> QED
        BY <2>1, <4>1, <4>2
    <3> QED
      BY <3>1 DEF Open
  <2>4. pc' \notin {"clear", "mark all"} => Shown(term', Open')
    BY <2>1, <2>2, <2>3 DEF ScreenInv, Shown
  <2>5. pc' = "put" => keys' = 1
    BY <2>1
  <2>6. ASSUME pc' = "idle", keys' = 1
        PROVE  Shows(term')
    <3>1. Shows(term)
      BY <2>1, <2>6, Zenon DEF ScreenInv
    <3>2. StatusLine(term') = StatusLine(term)
      BY <2>2 DEF StatusLine, StatusText
    <3> QED
      BY <2>2, <3>1, <3>2 DEF Shows
  <2>7. Placed(term') /\ keys' \in {0, 1}
    BY <1>1, <1>2, <2>1, <2>2 DEF Placed
  <2> QED
    <3>1. save' # <<>> => save'[2] \in Nat
      BY <1>2, <2>1
    <3>2. pc' = "put" /\ keys' = 0 => term'.row \in term'.dirty
      BY <2>5
    <3>3. pc' = "idle" /\ keys' = 1 => Shows(term')
      BY <2>6
    <3>4. pc' = "unmark" => Copied'
      BY <2>1, <2>2 DEF ScreenInv, Copied
    <3> QED
      BY <2>4, <2>7, <3>1, <3>2, <3>3, <3>4, ScreenNext
<1>21. ASSUME NEW code \in Codes, Key(code)
       PROVE  ScreenInv'
  <2>1. PICK in : /\ Admitted(term, in) /\ term' = handle_input(term, in)
                  /\ pc' = pc /\ save' = save /\ keys' = 1
                  /\ keys = 0 \/ pc = "idle"
    BY <1>21 DEF Key
  <2>2. /\ Placed(term')
        /\ Shown(term, {StatusRow}) => Shows(term')
    BY <1>1, <2>1, KeyShows
  <2>3. pc \notin {"clear", "mark all"} => Shows(term')
    <3>1. Open = {StatusRow}
      <4>1. ~(pc \in {"advance", "mark again"} /\ keys = 1)
        <5>1. CASE keys = 0
          BY <5>1
        <5>2. CASE pc = "idle"
          BY <5>2
        <5> QED
          BY <2>1, <5>1, <5>2
      <4> QED
        BY <4>1 DEF Open
    <3> QED
      BY <2>2, <3>1 DEF ScreenInv
  <2>4. Shows(term') => Shown(term', Open')
    BY DEF Shows, Shown
  <2>5. save' # <<>> => save'[2] \in Nat
    BY <1>2, <2>1
  <2>6. keys' \in {0, 1} /\ ~(pc' = "put" /\ keys' = 0)
    BY <2>1
  <2>7. pc' \notin {"clear", "mark all"} => Shown(term', Open') /\ Shows(term')
    BY <2>1, <2>3, <2>4
  <2>8. Shows(term') => Copied'
    BY DEF Shows, Copied
  <2> QED
    BY <2>2, <2>5, <2>6, <2>7, <2>8, ScreenNext
<1>22. CASE UNCHANGED vars
  BY <1>22 DEF vars, ScreenInv, Copied, Open
<1> QED
  BY <1>4, <1>5, <1>6, <1>7, <1>8, <1>9, <1>10, <1>11, <1>12, <1>13, <1>14, <1>15, <1>16, <1>17,
     <1>18, <1>19, <1>20, <1>21, <1>22
     DEF Next, InitProc

\* Once a character was put behind the end of a line, that is not forgotten.
LEMMA Remembered ==
  [Next]_vars /\ ~outside' => ~outside
BY DEF Next, InitProc, vars, Clear, MarkAll, BlankStatus, Move, Mark, Put, Advance, Down, Count,
       MarkAgain, Wrap, CopyRow, UnmarkRow, Flushed, HardwareCursor, Restore, Shift, Key

\* Whatever the size of the screen, the banner and the keys between its
\* characters, one for each at most: after a key the screen of an idle first
\* process is up to date, unless that process has put a character behind the
\* end of a line.
THEOREM ScreenFollows ==
  Spec => []ScreenCurrent
<1> DEFINE I == LinesInv /\ (~outside => ScreenInv)
<1>1. Init => I
  BY LinesStart, ScreenStart
<1>2. I /\ [Next]_vars => I'
  BY LinesStep, ScreenStep, Remembered
<1>3. I => ScreenCurrent
  BY DEF ScreenInv, ScreenCurrent, Shows
<1> HIDE DEF I
<1> QED
  BY <1>1, <1>2, <1>3, PTL DEF Spec
=============================================================================
