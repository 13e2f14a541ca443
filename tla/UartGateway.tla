----------------------------- MODULE UartGateway ------------------------------
(***************************************************************************)
(* The serial port of the gateway: the main loop reads what the device     *)
(* sends in pieces, puts commands together, each between $ and #, and      *)
(* answers the two it knows.  It keeps one report: a command that ends in  *)
(* the same piece as a later one is lost, which a comment of the code      *)
(* admits (uart_1_app.c:13), so what can be relied on is what a device     *)
(* that waits for its answers gets, and what one that does not may get.    *)
(*                                                                         *)
(* Nothing bounds what is added to read_data, and a read may fill read_tmp *)
(* without a NUL at its end.  What the program does after either is not    *)
(* defined: the place "overrun" stands for all of it, and is left no more. *)
(***************************************************************************)
EXTENDS Integers, Sequences, SequencesExt, FiniteSetsExt

CONSTANTS Letters,   \* the bytes that are not one of the next three
          Dollar, Hash, \* the bytes that enclose a command: $ and #
          Nul,       \* the byte that ends a C string
          Known,     \* bodies of the commands that are answered
          Unknown,   \* bodies of commands that are not
          Longest,   \* bytes of the longest of them
          Noise,     \* bytes that a line may add between commands
          Size,      \* bytes of read_data before its terminator; read_tmp has one more
          MaxFrames, \* bound: commands the device sends
          MaxNoise   \* bound: bytes the line adds

ASSUME UartAssumption ==
  /\ Dollar # Hash /\ Nul \notin {Dollar, Hash}
  /\ Letters \cap {Dollar, Hash, Nul} = {}
  /\ Known \cup Unknown \subseteq Seq(Letters) /\ Noise \subseteq Letters \cup {Nul}
  /\ Longest \in Nat /\ \A body \in Known \cup Unknown : Len(body) <= Longest
  /\ Size \in Nat /\ MaxFrames \in Nat /\ MaxNoise \in Nat

VARIABLES
  read_data,   \* the bytes since the last $
  read_report, \* the last whole command
  fd_uart1,    \* the serial port: "none" while it is not open, or the kind of file it is
  pc,          \* what the program does: "open", "setup", "read", "execute" or "overrun"
  line,        \* external: the bytes under way to the gateway
  up,          \* external: the device is there
  patient,     \* external: it waits for the answer to a known command
  asked,       \* external: the known commands it has sent
  answers,     \* external: the answers it got
  noise,       \* external: the bytes the line has added
  frames       \* bound: commands sent

device == <<patient, asked, frames>>
port == <<read_data, read_report, fd_uart1, pc>>
vars == <<port, device, line, up, answers, noise>>

Frame(body) == <<Dollar>> \o body \o <<Hash>>

-----------------------------------------------------------------------------
(* uart1_sub *)

\* The port is opened once, and refused when the standard input is no terminal.
UART0_Open ==
  /\ pc = "open" /\ pc' = "setup"
  /\ fd_uart1' \in {"none", "file", "terminal"}
  /\ UNCHANGED <<read_data, read_report, device, line, up, answers, noise>>

\* The settings that uart1_sub asks for are all supported; only a terminal has them.
UART0_Set(fd) == fd = "terminal"
UART0_Init(fd) == UART0_Set(fd)

\* Setting it up is tried until it succeeds, for ever if it cannot.
uart1_sub ==
  /\ pc = "setup"
  /\ IF UART0_Init(fd_uart1) THEN pc' = "read" ELSE UNCHANGED pc
  /\ UNCHANGED <<read_data, read_report, fd_uart1, device, line, up, answers, noise>>

-----------------------------------------------------------------------------
(* get_complete_frame *)

\* The C string in a piece of the input.
Text(piece) ==
  LET ends == {i \in DOMAIN piece : piece[i] = Nul}
  IN IF ends = {} THEN piece ELSE SubSeq(piece, 1, Min(ends) - 1)

\* Mutant: a new command does not begin at its $.
CollectedNoReset(data, text) == data \o text

\* What read_data is once these bytes have been added: each $ starts it anew.
Collected(data, text) ==
  LET heads == {i \in DOMAIN text : text[i] = Dollar}
  IN IF heads = {} THEN data \o text ELSE SubSeq(text, Max(heads), Len(text))

\* Mutant: the loop is left after every piece.
AgainNever(text) == FALSE

\* Another piece is read if none of this one ends a command.
Again(text) == ~Contains(text, Hash)

\* Mutant: the first command of a piece is reported.
ReportedFirst(text) == Min({i \in DOMAIN text : text[i] = Hash})

\* The place in a piece of the # whose command is reported.
Reported(text) == Max({i \in DOMAIN text : text[i] = Hash})

\* The loop over the text adds one byte after the other: read_data has room for each.
Fits(data, text) == \A i \in DOMAIN text : Len(Collected(data, SubSeq(text, 1, i))) <= Size

\* A piece that fills read_tmp leaves no byte of it to end the string.
Unended(piece) == Len(piece) > Size /\ ~Contains(piece, Nul)

\* One read: some of the bytes that are there, at most what read_tmp holds.
get_complete_frame ==
  /\ pc = "read" /\ line # <<>>
  /\ \E n \in 1..Len(line) :
       LET text == Text(SubSeq(line, 1, n))
       IN /\ n <= Size + 1 /\ Fits(read_data, text)
          /\ read_data' = Collected(read_data, text)
          /\ line' = SubSeq(line, n + 1, Len(line))
          /\ IF Again(text) THEN UNCHANGED pc ELSE pc' = "execute"
          /\ IF Contains(text, Hash)
               THEN read_report' = Collected(read_data, SubSeq(text, 1, Reported(text)))
               ELSE UNCHANGED read_report
  /\ UNCHANGED <<fd_uart1, device, up, answers, noise>>

\* One read that goes beyond a buffer: the text does not fit into read_data, or strlen
\* finds no end in read_tmp.  (If a zero happens to follow it, the read is one as above.)
runsOver ==
  /\ pc = "read" /\ pc' = "overrun"
  /\ \E n \in 1..Len(line) :
       LET piece == SubSeq(line, 1, n)
       IN n <= Size + 1 /\ (Unended(piece) \/ ~Fits(read_data, Text(piece)))
  /\ UNCHANGED <<read_data, read_report, fd_uart1, device, line, up, answers, noise>>

\* Nothing can be read any more: it returns with the old report.
readFails ==
  /\ pc = "read" /\ line = <<>> /\ ~up
  /\ pc' = "execute"
  /\ UNCHANGED <<read_data, read_report, fd_uart1, device, line, up, answers, noise>>

-----------------------------------------------------------------------------
(* uart_1_Main *)

\* The body of the report, if it is a known command.
Body(report) == {body \in Known : report = Frame(body)}

\* The command in the report is answered; a write to a port whose device has gone
\* fails.  The report stays.
uart_1_Main ==
  /\ pc = "execute" /\ pc' = "read"
  /\ IF up /\ Body(read_report) # {}
       THEN \E body \in Body(read_report) : answers' = Append(answers, body)
       ELSE UNCHANGED answers
  /\ UNCHANGED <<read_data, read_report, fd_uart1, device, line, up, noise>>

-----------------------------------------------------------------------------
(* External: the device and the line *)

deviceSends(body) ==
  /\ up /\ frames < MaxFrames
  /\ patient => Len(answers) = Len(asked)
  /\ line' = line \o Frame(body) /\ frames' = frames + 1
  /\ asked' = IF body \in Known THEN Append(asked, body) ELSE asked
  /\ UNCHANGED <<port, patient, up, answers, noise>>

lineAdds ==
  /\ up /\ Len(noise) < MaxNoise
  /\ \E b \in Noise : line' = Append(line, b) /\ noise' = Append(noise, b)
  /\ UNCHANGED <<port, device, up, answers>>

hangsUp ==
  /\ up /\ up' = FALSE /\ line' = <<>>
  /\ UNCHANGED <<port, device, answers, noise>>

-----------------------------------------------------------------------------
Init ==
  /\ read_data = <<>> /\ read_report = <<>> /\ fd_uart1 = "none" /\ pc = "open"
  /\ line = <<>> /\ up = TRUE /\ patient \in BOOLEAN
  /\ asked = <<>> /\ answers = <<>> /\ frames = 0 /\ noise = <<>>

main == UART0_Open \/ uart1_sub \/ get_complete_frame \/ runsOver \/ readFails \/ uart_1_Main

Next == \/ main
        \/ \E body \in Known \cup Unknown : deviceSends(body)
        \/ lineAdds \/ hangsUp

Spec == Init /\ [][Next]_vars

\* The process runs.
FairSpec == Spec /\ WF_vars(main)

-----------------------------------------------------------------------------
(* Properties *)

Byte == Letters \cup {Dollar, Hash, Nul}

TypeOK ==
  /\ read_data \in Seq(Byte) /\ read_report \in Seq(Byte)
  /\ fd_uart1 \in {"none", "file", "terminal"}
  /\ pc \in {"open", "setup", "read", "execute", "overrun"}
  /\ line \in Seq(Byte) /\ up \in BOOLEAN /\ patient \in BOOLEAN
  /\ asked \in Seq(Known) /\ answers \in Seq(Known)
  /\ frames \in 0..MaxFrames /\ noise \in Seq(Noise) /\ Len(noise) <= MaxNoise

\* What read_data may have to hold after n bytes of noise: a whole command, and for each
\* of them another without its $, which a Nul hides when both are read at once.
Load(n) == Longest + 2 + n * (Longest + 1)

\* The buffers hold out as long as no more bytes wait than read_data has room for and the
\* line did not add too many: however often they are filled, and however the commands are
\* cut into pieces, nothing is left in read_data that a $ should have cleared.
BuffersHold ==
  [][pc # "overrun" /\ pc' = "overrun" => Len(line) > Size \/ Load(Len(noise)) > Size]_vars

\* Whether some of t, in its order, is s.
Within(s, t) ==
  \E place \in [DOMAIN s -> DOMAIN t] :
    /\ \A i \in DOMAIN s : s[i] = t[place[i]]
    /\ \A i, j \in DOMAIN s : i < j => place[i] < place[j]

\* Nothing is answered that was not asked, in another order or twice, however the
\* bytes are cut into pieces and whatever the line adds.
AnswersWereAsked == Within(answers, asked)

\* A device that waits for its answers gets each of them, unless it goes, the
\* line adds a byte that ends a string, or a buffer is overrun.
PatientIsAnswered ==
  fd_uart1 = "terminal" /\ patient /\ Len(asked) > Len(answers)
    ~> ~up \/ answers = asked \/ Nul \in ToSet(noise) \/ pc = "overrun"
=============================================================================
