------------------------------ MODULE JsonText ------------------------------
(***************************************************************************)
(* The two loops that put a text into a JSON string: json_escape() of      *)
(* main/notifier.c, and the one in events_handler() of main/web.c.  A text *)
(* is a sequence of characters, of which there are four kinds.             *)
(***************************************************************************)
EXTENDS Integers, Sequences

CONSTANTS
  OUT_LEN,  \* sizeof the buffer, its terminating NUL included
  TEXT_LEN  \* bound: length of a text

ASSUME JsonAssumption == OUT_LEN \in Nat \ {0, 1, 2} /\ TEXT_LEN \in Nat

VARIABLES
  escaper,  \* which of the two loops it is
  text,     \* in
  done,     \* characters of it read, the i of the loops
  out,      \* the buffer
  escaping  \* the loop runs

textvars == <<escaper, text, done, out, escaping>>

\* a letter, a backslash (a quote fares likewise), a line feed, another control
Char == {"a", "\\", "LF", "control"}

TextInit ==
  /\ escaper \in {"notifier", "web"}
  /\ \E n \in 0 .. TEXT_LEN : text \in [1 .. n -> Char]
  /\ done = 0 /\ out = <<>> /\ escaping = TRUE

\* Mutant of Room: the room for an escape is not kept.
RoomForOne == Len(out) + 1 < OUT_LEN

Room == Len(out) + 2 < OUT_LEN

\* Mutant of Escaped: what is escaped already is left alone.
EscapedPlain(c) ==
  CASE c = "LF" /\ escaper = "notifier"      -> <<"\\", "n">>
    [] c = "control" /\ escaper = "notifier" -> <<>>
    [] OTHER                                 -> <<c>>

\* json_escape() drops control characters; web.c leaves them as they are.
Escaped(c) ==
  CASE c = "\\"                              -> <<"\\", "\\">>
    [] c = "LF" /\ escaper = "notifier"      -> <<"\\", "n">>
    [] c = "control" /\ escaper = "notifier" -> <<>>
    [] OTHER                                 -> <<c>>

Escape ==
  /\ escaping /\ done < Len(text) /\ Room
  /\ out' = out \o Escaped(text[done + 1])
  /\ done' = done + 1
  /\ UNCHANGED <<escaper, text, escaping>>

Terminate ==
  /\ escaping /\ ~(done < Len(text) /\ Room)
  /\ escaping' = FALSE
  /\ UNCHANGED <<escaper, text, done, out>>

TextNext == Escape \/ Terminate

TextSpec == TextInit /\ [][TextNext]_textvars

-----------------------------------------------------------------------------
\* Where step arrives that starts at base and takes the elements of s in turn.
After(step, base, s) ==
  LET at[n \in 0 .. Len(s)] ==
        IF n = 0 THEN base ELSE step[at[n - 1]][s[n]]
  IN  at[Len(s)]

\* What may stand in the buffer: the characters, and the n of an escape.
Written == Char \cup {"n"}

\* A JSON parser in the middle of a string: what it has read, whether it is in
\* an escape, and whether it has seen nothing that it refuses.
Reader == [read : Seq(Written), escape : BOOLEAN, ok : BOOLEAN]

parser ==
  [p \in Reader |-> [c \in Written |->
     IF p.escape
       THEN [read   |-> Append(p.read, IF c = "n" THEN "LF" ELSE c),
             escape |-> FALSE,
             ok     |-> p.ok /\ c \in {"\\", "n"}]
     ELSE IF c = "\\"
       THEN [p EXCEPT !.escape = TRUE]
     ELSE   [p EXCEPT !.read = Append(@, c),
                      !.ok   = @ /\ c \notin {"LF", "control"}]]]

Start == [read |-> <<>>, escape |-> FALSE, ok |-> TRUE]

Parse(s) == After(parser, Start, s)

\* A text without its control characters, line feeds excepted.
printable ==
  [kept \in Seq(Char) |-> [c \in Char |->
     IF c = "control" THEN kept ELSE Append(kept, c)]]

Printable(s) == After(printable, <<>>, s)

Control(c) == c \in {"LF", "control"}

(***************************************************************************)
(* A parser reads the text back, up to where the buffer was full: the cut  *)
(* is never in the middle of an escape.  Of the alerts control characters  *)
(* are missing, and every one parses; an event's text parses unless there  *)
(* is a control character in it.                                           *)
(***************************************************************************)
TextReadsBack ==
  ~escaping =>
    LET read == SubSeq(text, 1, done)
        got  == Parse(out)
    IN  /\ ~got.escape
        /\ got.read = IF escaper = "web" THEN read ELSE Printable(read)
        /\ \/ got.ok
           \/ escaper = "web" /\ \E n \in 1 .. done : Control(text[n])
        /\ done = Len(text) \/ Len(out) >= OUT_LEN - 2

(***************************************************************************)
(* The text and its NUL never outgrow the buffer.                          *)
(***************************************************************************)
TextFits == Len(out) < OUT_LEN
=============================================================================
