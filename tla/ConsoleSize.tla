----------------------------- MODULE ConsoleSize -----------------------------
(***************************************************************************)
(* stub/ruby_syscall_tty.c: the size of the console, which is asked of the  *)
(* terminal once and over the same line on which the user types, and the    *)
(* terminal attributes, which are only stored.                              *)
(*                                                                         *)
(* coming is what travels to stdin, each character with its sender; what    *)
(* of it has arrived is not recorded, so a poll may time out on it or not.  *)
(* poll and read are those of ConsoleWait: a poll with a timeout ends, and  *)
(* a read hands over the oldest character.  screen is the terminal's size,  *)
(* or Deaf if nothing listens.  buf keeps what was read in the measurement. *)
(***************************************************************************)
EXTENDS Integers, Sequences, SequencesExt

CONSTANTS
  CONSOLE_ROWS, CONSOLE_COLS,
  BufSize,      \* sizeof(buf), 32
  IntModulus,   \* an unsigned int is computed modulo this, 2^32
  ShortModulus, \* and an unsigned short modulo this, 2^16
  Corner,       \* where the query sends the cursor, 999
  Screens,      \* sizes of terminals, <<rows, columns>>
  Deaf,
  Keys,         \* what a key sends, a sequence of characters
  MaxKeys,      \* bound: keys pressed in a behaviour
  Settings      \* values given to tcsetattr

ASSUME SizeAssumption ==
  /\ CONSOLE_ROWS \in 1 .. (ShortModulus - 1) /\ CONSOLE_COLS \in 1 .. (ShortModulus - 1)
  /\ BufSize \in Nat \ {0, 1} /\ IntModulus \in Nat /\ ShortModulus \in Nat
  /\ Corner \in 1 .. (ShortModulus - 1) /\ ShortModulus <= IntModulus
  /\ Screens \subseteq (Nat \ {0}) \X (Nat \ {0}) /\ Deaf \notin Screens
  /\ Keys \subseteq Seq(Nat) /\ MaxKeys \in Nat
  /\ "unset" \notin Settings

ESC       == 27
BRACKET   == 91
SEMICOLON == 59
R         == 82
ZERO      == 48
IsDigit(c) == c \in ZERO .. (ZERO + 9)

NoReport == <<>>

VARIABLES
  console_size,         \* <<console_rows, console_cols>>
  console_size_known,
  console_termios,      \* "unset" until console_termios_ready
  pc,                   \* where measure_console is
  buf,                  \* the characters it has read, with their senders
  coming,               \* characters on their way to stdin
  to_terminal,          \* what stdout carries and the terminal has not taken
  screen, cursor, saved,  \* the terminal
  keys, queries,        \* history: keys pressed, sizes asked for
  gave_up,              \* history: whether a poll of the measurement timed out
  attributes            \* history: what the last tcgetattr or tcsetattr said

terminal == <<screen, cursor, saved>>
size     == <<console_size, console_size_known>>
line     == <<coming, to_terminal>>
termios  == <<console_termios, attributes>>
vars     == <<size, termios, pc, buf, line, terminal, keys, queries, gave_up>>

Sent(from, chars) == [i \in DOMAIN chars |-> [c |-> chars[i], from |-> from]]
Chars(b)          == [i \in DOMAIN b |-> b[i].c]
Least(S)          == CHOOSE i \in S : \A j \in S : i <= j
Smaller(a, b)     == IF a < b THEN a ELSE b

-----------------------------------------------------------------------------
(* parse_cursor_report: the first ESC [ and, right behind it, two numbers,  *)
(* the first ended by a semicolon and the second by an R.                   *)

introducers(b) == {i \in 1 .. (Len(b) - 1) : b[i] = ESC /\ b[i + 1] = BRACKET}

(* Mutant: the report has to be the first thing read.                       *)
introducers_at_start(b) == introducers(b) \cap {1}

report_start(b) == introducers(b)

NothingParsed == [value |-> <<0, 0>>, field |-> 1, digits |-> 0, state |-> "open"]

parse_step(acc, c) ==
  IF acc.state # "open" THEN acc
  ELSE IF IsDigit(c)
    THEN [acc EXCEPT !.value[acc.field] = (@ * 10 + (c - ZERO)) % IntModulus,
                     !.digits = @ + 1]
  ELSE IF c = SEMICOLON /\ acc.field = 1 /\ acc.digits > 0
    THEN [acc EXCEPT !.field = 2, !.digits = 0]
  ELSE [acc EXCEPT !.state =
          IF c = R /\ acc.field = 2 /\ acc.digits > 0 THEN "read" ELSE "bad"]

(* Mutant: an introducer that did not lead to a report is passed over.      *)
parsed_from_last(b) ==
  LET last == CHOOSE i \in report_start(b) : \A j \in report_start(b) : j <= i
  IN FoldLeft(parse_step, NothingParsed, SubSeq(b, last + 2, Len(b)))

parsed(b) ==
  FoldLeft(parse_step, NothingParsed, SubSeq(b, Least(report_start(b)) + 2, Len(b)))

(* Mutant: a report that breaks off is taken as far as it goes.             *)
parse_cursor_report_partial(b) ==
  IF report_start(b) = {} \/ parsed(b).state = "bad" THEN NoReport
  ELSE parsed(b).value

parse_cursor_report(b) ==
  IF report_start(b) = {} \/ parsed(b).state # "read" THEN NoReport
  ELSE parsed(b).value

-----------------------------------------------------------------------------
(* measure_console, reached through ioctl(TIOCGWINSZ).                      *)

(* Mutant: the size counts as known only when the terminal has answered.    *)
measures_again(fd) ==
  fd = "stdin" /\ console_size = <<CONSOLE_ROWS, CONSOLE_COLS>>

(* The answer on stdout and stderr, and on stdin once it is known, is       *)
(* console_size and changes nothing.  Here it has to be measured first.     *)
measures(fd) == fd = "stdin" /\ ~console_size_known

ioctl_winsize(fd) ==
  /\ pc = "idle"
  /\ measures(fd)
  /\ console_size_known' = TRUE
  /\ to_terminal' = Append(to_terminal, "query")
  /\ queries' = queries + 1
  /\ buf' = <<>>
  /\ pc' = "poll"
  /\ UNCHANGED <<console_size, termios, coming, terminal, keys, gave_up>>

(* poll finds a character ...                                               *)
PollReady ==
  /\ pc = "poll"
  /\ coming # <<>>
  /\ pc' = "read"
  /\ UNCHANGED <<size, termios, buf, line, terminal, keys, queries, gave_up>>

GivesUp(next) ==
  /\ pc = "poll"
  /\ gave_up' = TRUE
  /\ pc' = next
  /\ UNCHANGED <<size, termios, buf, line, terminal, keys, queries>>

(* Mutant: only an error of poll ends the exchange, not its timeout.        *)
PollTimesOutReads == GivesUp("read")

(* Mutant: giving up skips the rest of the function.                        *)
PollTimesOutReturns == GivesUp("idle")

(* ... or none arrives within CONSOLE_QUERY_TIMEOUT_MS, or before a badge   *)
(* left from an earlier timer ends the wait.                                *)
PollTimesOut == GivesUp("restore")

(* Mutant: what comes before the reply is not kept.                         *)
ReadByteSkips ==
  /\ pc = "read"
  /\ coming # <<>>
  /\ buf' = IF buf = <<>> /\ Head(coming).c # ESC THEN buf ELSE Append(buf, Head(coming))
  /\ coming' = Tail(coming)
  /\ pc' = IF Head(coming).c = R \/ Len(buf) + 1 >= BufSize - 1
             THEN "restore" ELSE "poll"
  /\ UNCHANGED <<size, termios, to_terminal, terminal, keys, queries, gave_up>>

ReadByte ==
  /\ pc = "read"
  /\ coming # <<>>
  /\ buf' = Append(buf, Head(coming))
  /\ coming' = Tail(coming)
  /\ pc' = IF Head(coming).c = R \/ Len(buf) + 1 >= BufSize - 1
             THEN "restore" ELSE "poll"
  /\ UNCHANGED <<size, termios, to_terminal, terminal, keys, queries, gave_up>>

RestoreAndStore(modulus) ==
  /\ pc = "restore"
  /\ to_terminal' = Append(to_terminal, "restore")
  /\ LET report == parse_cursor_report(Chars(buf)) IN
     console_size' = IF report # NoReport /\ report[1] > 0 /\ report[2] > 0
                       THEN <<report[1] % modulus, report[2] % modulus>>
                       ELSE console_size
  /\ pc' = "idle"
  /\ UNCHANGED <<console_size_known, termios, buf, coming, terminal, keys, queries,
                 gave_up>>

(* Mutant: the numbers are stored as wide as they were parsed.              *)
RestoreWide == RestoreAndStore(IntModulus)

Restore == RestoreAndStore(ShortModulus)

-----------------------------------------------------------------------------
(* tcgetattr and tcsetattr on a console descriptor.                         *)

console_termios_init ==
  IF console_termios = "unset" THEN "cooked" ELSE console_termios

SetsAttributes(stored, said) ==
  /\ pc = "idle"
  /\ console_termios' = stored
  /\ attributes' = said
  /\ UNCHANGED <<size, pc, buf, line, terminal, keys, queries, gave_up>>

tcgetattr == SetsAttributes(console_termios_init, console_termios_init)

(* Mutant: only tcgetattr initialises, so a first tcsetattr is lost.        *)
tcsetattr_unready(t) ==
  SetsAttributes(IF console_termios = "unset" THEN "unset" ELSE t, t)

tcsetattr(t) == SetsAttributes(t, t)

-----------------------------------------------------------------------------
(* The terminal, its user, and Ruby's own reads.                            *)

decimal[n \in Nat] ==
  IF n < 10 THEN <<ZERO + n>> ELSE Append(decimal[n \div 10], ZERO + (n % 10))

Report(position) ==
  <<ESC, BRACKET>> \o decimal[position[1]] \o <<SEMICOLON>>
    \o decimal[position[2]] \o <<R>>

(* Where the terminal puts a cursor sent to the far corner.                 *)
Clamped == <<Smaller(Corner, screen[1]), Smaller(Corner, screen[2])>>

(* ESC [s, ESC [999;999H and ESC [6n.  The terminal sends its report in one *)
(* piece: keys come before and behind it, never inside.                     *)
TerminalAnswers ==
  /\ screen # Deaf
  /\ to_terminal # <<>> /\ Head(to_terminal) = "query"
  /\ saved' = cursor
  /\ cursor' = Clamped
  /\ coming' = coming \o Sent("terminal", Report(Clamped))
  /\ to_terminal' = Tail(to_terminal)
  /\ UNCHANGED <<size, termios, pc, buf, screen, keys, queries, gave_up>>

(* ESC [u.                                                                  *)
TerminalRestores ==
  /\ screen # Deaf
  /\ to_terminal # <<>> /\ Head(to_terminal) = "restore"
  /\ cursor' = saved
  /\ to_terminal' = Tail(to_terminal)
  /\ UNCHANGED <<size, termios, pc, buf, coming, screen, saved, keys, queries, gave_up>>

PressKey(key) ==
  /\ keys < MaxKeys
  /\ keys' = keys + 1
  /\ coming' = coming \o Sent("user", key)
  /\ UNCHANGED <<size, termios, pc, buf, to_terminal, terminal, queries, gave_up>>

RubyReads ==
  /\ pc = "idle"
  /\ coming # <<>>
  /\ coming' = Tail(coming)
  /\ UNCHANGED <<size, termios, pc, buf, to_terminal, terminal, keys, queries, gave_up>>

-----------------------------------------------------------------------------

Origin == <<1, 1>>      \* where the caller was drawing

Init ==
  /\ console_size = <<CONSOLE_ROWS, CONSOLE_COLS>> /\ console_size_known = FALSE
  /\ console_termios = "unset" /\ attributes = "cooked"
  /\ pc = "idle" /\ buf = <<>> /\ coming = <<>> /\ to_terminal = <<>>
  /\ screen \in Screens \cup {Deaf} /\ cursor = Origin /\ saved = Origin
  /\ keys = 0 /\ queries = 0 /\ gave_up = FALSE

Calls ==
  \/ \E fd \in {"stdin", "stdout", "stderr"} : ioctl_winsize(fd)
  \/ tcgetattr \/ (\E t \in Settings : tcsetattr(t))
  \/ RubyReads

(* The Ruby thread inside measure_console.                                  *)
Measure == PollReady \/ PollTimesOut \/ ReadByte \/ Restore

Terminal == TerminalAnswers \/ TerminalRestores \/ \E key \in Keys : PressKey(key)

Next == Calls \/ Measure \/ Terminal

(* The kernel runs the thread, and its polls time out.  Nothing is assumed  *)
(* of the terminal or the user.                                             *)
Spec == Init /\ [][Next]_vars /\ WF_vars(Measure)

-----------------------------------------------------------------------------
(* Properties.                                                              *)

DefaultSize == <<CONSOLE_ROWS, CONSOLE_COLS>>
Characters  == [c : Nat, from : {"terminal", "user"}]
Measured    == console_size_known /\ pc = "idle"

(* The variables keep their types: sizes fit their 16 bits, and a           *)
(* measurement reads at most one character less than its buffer holds.      *)
TypeOK ==
  /\ console_size \in (0 .. (ShortModulus - 1)) \X (0 .. (ShortModulus - 1))
  /\ console_size_known \in BOOLEAN /\ gave_up \in BOOLEAN
  /\ console_termios \in Settings \cup {"unset", "cooked"}
  /\ attributes \in Settings \cup {"cooked"}
  /\ pc \in {"idle", "poll", "read", "restore"}
  /\ buf \in Seq(Characters) /\ Len(buf) < BufSize
  /\ coming \in Seq(Characters) /\ to_terminal \in Seq({"query", "restore"})
  /\ screen \in Screens \cup {Deaf}
  /\ cursor \in Nat \X Nat /\ saved \in Nat \X Nat
  /\ keys \in Nat /\ queries \in Nat

(* Where the user's characters in the measurement came before the reply,    *)
(* and none of them was an ESC or an R.                                     *)
TypedAhead ==
  /\ \A i, j \in DOMAIN buf :
       buf[i].from = "terminal" /\ buf[j].from = "user" => j < i
  /\ \A i \in DOMAIN buf : buf[i].from = "user" => buf[i].c \notin {ESC, R}

(* When polls do not time out, the user typed only ahead of the reply, and  *)
(* neither ESC nor R, and what was read does not fill the buffer, the       *)
(* measurement succeeds, and no piece of the reply is left to be read as    *)
(* typed (ruby_syscall_tty.c:79-86, 139-165).                               *)
AnswerIsTaken ==
  Measured /\ ~gave_up /\ TypedAhead /\ Len(buf) < BufSize - 1
    => /\ console_size = Clamped
       /\ \A i \in DOMAIN coming : coming[i].from = "user"

(* Unless the user typed during it, a measurement ends with the size the    *)
(* terminal has or the default: a reply that comes late or breaks off never *)
(* makes a third one (ruby_syscall_tty.c:30-31, 105, 162).                  *)
NoThirdSize ==
  Measured /\ (\A i \in DOMAIN buf : buf[i].from = "terminal")
    => console_size = DefaultSize \/ console_size = Clamped

(* "Only stdin is measured, and only once" (ruby_syscall_tty.c:118): after  *)
(* the first measurement, answered or not, no call asks again, so the size  *)
(* Ruby was told stays the size.                                            *)
MeasuredOnce == [][Measured => UNCHANGED <<size, queries>>]_vars

(* "The position is saved and restored around the query so that whatever    *)
(* the caller was drawing is left alone" (ruby_syscall_tty.c:114-116),      *)
(* however the exchange ends.                                               *)
CursorLeftAlone == pc = "idle" /\ to_terminal = <<>> => cursor = Origin

Numeral(s) == s # <<>> /\ \A i \in DOMAIN s : IsDigit(s[i])
Number(s)  == FoldLeft(LAMBDA n, d : n * 10 + (d - ZERO), 0, s)

(* Where the report behind the first introducer in b starts, and where its  *)
(* two numbers end.                                                         *)
IsReport(b, i, j, k) ==
  /\ b[i] = ESC /\ b[i + 1] = BRACKET
  /\ \A h \in 1 .. (i - 1) : ~(b[h] = ESC /\ b[h + 1] = BRACKET)
  /\ b[j] = SEMICOLON /\ b[k] = R
  /\ Numeral(SubSeq(b, i + 2, j - 1)) /\ Numeral(SubSeq(b, j + 1, k - 1))

(* "Parse a cursor position report: ESC [ rows ; cols R"                    *)
(* (ruby_syscall_tty.c:70): of whatever mixture of a reply and of typed     *)
(* keys was read, a report that stands right behind the first introducer is *)
(* found, nothing else is taken for one, and its numbers are the decimals   *)
(* read.  A report behind an earlier introducer is missed: with a cursor    *)
(* key typed first, ESC [ A ESC [ 3 ; 5 R, the parser stops at the A (lines *)
(* 79-84, 99-101), for what is typed "is consumed as part of the reply"     *)
(* (lines 122-124).                                                         *)
ParsesReport ==
  LET b     == Chars(buf)
      found == {p \in (1 .. (Len(b) - 1)) \X (1 .. Len(b)) \X (1 .. Len(b)) :
                  IsReport(b, p[1], p[2], p[3])}
  IN IF found = {} THEN parse_cursor_report(b) = NoReport
     ELSE \A p \in found : parse_cursor_report(b) =
            <<Number(SubSeq(b, p[1] + 2, p[2] - 1)) % IntModulus,
              Number(SubSeq(b, p[2] + 1, p[3] - 1)) % IntModulus>>

(* tcgetattr answers what was last set on any console descriptor, before or *)
(* after the first look at the attributes (ruby_syscall_tty.c:53-57, 208).  *)
KeepsAttributes == [][tcgetattr => attributes' = attributes]_vars

(* How many steps of its own a measurement still takes at most.             *)
StepsLeft ==
  LET room == BufSize - 1 - Len(buf) IN
  CASE pc = "idle"    -> 0
    [] pc = "restore" -> 1
    [] pc = "read"    -> 2 * room
    [] pc = "poll"    -> 2 * room + 1

(* A user who keeps typing does not keep a measurement going: each of its   *)
(* steps leaves fewer, and nobody else's adds one                           *)
(* (ruby_syscall_tty.c:35-36, 139-158).                                     *)
MeasureIsShort ==
  [][pc # "idle" => /\ 0 < StepsLeft /\ StepsLeft' <= StepsLeft
                    /\ pc' # pc => StepsLeft' < StepsLeft]_vars

(* A measurement ends, whatever the terminal and the user do ("short enough *)
(* not to stall startup if nothing is listening", ruby_syscall_tty.c:36).   *)
MeasureEnds == pc # "idle" ~> pc = "idle"

(* The default is "Used until the terminal has been asked, and if it never  *)
(* answers" (ruby_syscall_tty.c:30).                                        *)
DefaultWithoutAnswer == screen = Deaf => console_size = DefaultSize
=============================================================================
