-------------------------------- MODULE Uart --------------------------------
(***************************************************************************)
(* The serial line of test.pl: `cat file | uart_escape | simulator`, and   *)
(* getchar of the benchmark runtime in the simulated program.              *)
(*                                                                         *)
(* The line has no end of file. uart_escape writes a zero byte twice and   *)
(* 0 1 for the end; getchar takes a byte after a zero that is not zero for *)
(* the end. A text is sent without uart_escape: then the simulator itself  *)
(* makes up the escape sequence when its input has ended.                  *)
(***************************************************************************)
EXTENDS Integers, Sequences, SequencesExt

CONSTANTS
  Messages,          \* the files: pairs of their bytes and of whether they are escaped
  PipeSize,          \* how many bytes there can be between two processes
  CHAR_BUFFER_SIZE,  \* how many characters ungetchar keeps: 1 in the code
  GivenBack,         \* the characters a program gives back with ungetchar
  MaxBack,           \* how often it does
  AfterEnd           \* how often it calls getchar again after the end

Byte == 0..255
Char == -128..255      \* what getchar returns: a byte, EOF, or a byte read with a sign

(* Only a text, in which there is no zero byte, is sent as it is           *)
(* (stdio.c:36-40).                                                        *)
ASSUME MessagesAssumption ==
  \A m \in Messages :
    /\ m \in Seq(Byte) \X BOOLEAN
    /\ m[2] \/ \A k \in DOMAIN m[1] : m[1][k] # 0

ASSUME SizesAssumption == PipeSize \in Nat \ {0} /\ CHAR_BUFFER_SIZE \in Nat

(* The buffer holds chars, which have a sign: a byte from 128 on comes     *)
(* back as a negative number, and 255 as if it were the end.               *)
ASSUME GivenBackAssumption == GivenBack \subseteq 0..127

VARIABLES
  sent, escaped,     \* the file, and whether uart_escape is in the pipeline
  file,              \* the bytes not read yet
  writer,            \* the process before the simulator: "copies", "ends" or "closed"
  pending,           \* what it still writes before it reads again
  pipe,              \* bytes written and not read
  is_eof,            \* of the simulator: its getchar has returned EOF
  at,                \* the program: "idle", or "escape" between two reads of getchar
  buffer,            \* of stdio.c
  returned,          \* what getchar returned, without what was given back
  backs              \* how often the program gave a character back

line == <<sent, escaped, file, writer, pending>>
program == <<at, buffer, returned, backs>>
uvars == <<line, pipe, is_eof, program>>

ESCAPE_BYTE == 0
EOF == -1

UInit ==
  /\ \E m \in Messages : sent = m[1] /\ escaped = m[2]
  /\ file = sent
  /\ writer = "copies"
  /\ pending = <<>>
  /\ pipe = <<>>
  /\ is_eof = FALSE
  /\ at = "idle"
  /\ buffer = <<>>
  /\ returned = <<>>
  /\ backs = 0

(***************************************************************************)
(* uart_escape, or cat alone                                               *)
(***************************************************************************)

(* Mutant: a zero byte is not doubled. *)
EscapedOnce(c) == <<c>>

Escaped(c) == IF escaped /\ c = ESCAPE_BYTE THEN <<ESCAPE_BYTE, ESCAPE_BYTE>> ELSE <<c>>
EscapedEnd == IF escaped THEN <<ESCAPE_BYTE, 1>> ELSE <<>>

ReadFile ==
  /\ writer = "copies"
  /\ pending = <<>>
  /\ IF file # <<>>
     THEN /\ file' = Tail(file)
          /\ pending' = Escaped(Head(file))
          /\ UNCHANGED writer
     ELSE /\ pending' = EscapedEnd
          /\ writer' = "ends"
          /\ UNCHANGED file
  /\ UNCHANGED <<sent, escaped, pipe, is_eof, program>>

(* putchar: the process waits while the pipe is full. *)
WritePipe ==
  /\ pending # <<>>
  /\ Len(pipe) < PipeSize
  /\ pipe' = Append(pipe, Head(pending))
  /\ pending' = Tail(pending)
  /\ UNCHANGED <<sent, escaped, file, writer, is_eof, program>>

ClosePipe ==
  /\ writer = "ends"
  /\ pending = <<>>
  /\ writer' = "closed"
  /\ UNCHANGED <<sent, escaped, file, pending, pipe, is_eof, program>>

(***************************************************************************)
(* The simulated program and the data register of its UART                 *)
(***************************************************************************)

(* Mutant: the end of the input reads as zero for ever. *)
DataZero(byte) ==
  \/ /\ pipe # <<>> /\ ~is_eof
     /\ byte = Head(pipe)
     /\ pipe' = Tail(pipe)
     /\ UNCHANGED is_eof
  \/ /\ pipe = <<>> /\ (is_eof \/ writer = "closed")
     /\ byte = 0
     /\ is_eof' = TRUE
     /\ UNCHANGED pipe

(* Mutant: at the end of its input the simulator waits for more. *)
DataWaits(byte) ==
  \/ is_eof /\ byte = 1 /\ UNCHANGED <<pipe, is_eof>>
  \/ /\ ~is_eof
     /\ pipe # <<>> /\ byte = Head(pipe)
     /\ pipe' = Tail(pipe)
     /\ UNCHANGED is_eof

(* lbu of UART_DATA: the simulator waits for its standard input, and after *)
(* the end of it reads as 0 once and as 1 from then on.                    *)
Data(byte) ==
  \/ /\ is_eof
     /\ byte = 1
     /\ UNCHANGED <<pipe, is_eof>>
  \/ /\ ~is_eof
     /\ pipe # <<>>
     /\ byte = Head(pipe)
     /\ pipe' = Tail(pipe)
     /\ UNCHANGED is_eof
  \/ /\ ~is_eof
     /\ pipe = <<>> /\ writer = "closed"
     /\ byte = 0
     /\ is_eof' = TRUE
     /\ UNCHANGED pipe

Ends == {k \in DOMAIN returned : returned[k] = EOF}
Ended == Ends # {}

(* A program that calls getchar only so often after the end. *)
Calls == \A k \in Ends : Len(returned) < k + AfterEnd

SignedChar(c) == IF c < 128 THEN c ELSE c - 256

(* getchar, with a character that was given back. *)
GetBuffered ==
  /\ at = "idle" /\ Calls
  /\ buffer # <<>>
  /\ returned' = Append(returned, SignedChar(Last(buffer)))
  /\ buffer' = Front(buffer)
  /\ UNCHANGED <<line, pipe, is_eof, at, backs>>

(* getchar: its first read of the UART, ... *)
GetFirst ==
  /\ at = "idle" /\ Calls
  /\ buffer = <<>>
  /\ \E byte \in Byte :
       /\ Data(byte)
       /\ IF byte = ESCAPE_BYTE
          THEN at' = "escape" /\ UNCHANGED returned
          ELSE returned' = Append(returned, byte) /\ UNCHANGED at
  /\ UNCHANGED <<line, buffer, backs>>

(* ... and its second one, after an escape byte. *)
GetSecond ==
  /\ at = "escape"
  /\ \E byte \in Byte :
       /\ Data(byte)
       /\ returned' = Append(returned, IF byte = 0 THEN 0 ELSE EOF)
  /\ at' = "idle"
  /\ UNCHANGED <<line, buffer, backs>>

(* Mutant: the limit of the buffer is one too large. *)
UngetCharMore ==
  /\ at = "idle" /\ ~Ended /\ backs < MaxBack
  /\ returned # <<>> /\ Last(returned) \in GivenBack
  /\ backs' = backs + 1
  /\ IF Len(buffer) > CHAR_BUFFER_SIZE
     THEN UNCHANGED <<buffer, returned>>
     ELSE /\ buffer' = Append(buffer, Last(returned))
          /\ returned' = Front(returned)
  /\ UNCHANGED <<line, pipe, is_eof, at>>

(* ungetchar(c) of a character the program has: it returns EOF when the    *)
(* buffer is full, and the program still has the character.                *)
UngetChar ==
  /\ at = "idle" /\ ~Ended /\ backs < MaxBack
  /\ returned # <<>> /\ Last(returned) \in GivenBack
  /\ backs' = backs + 1
  /\ IF Len(buffer) >= CHAR_BUFFER_SIZE
     THEN UNCHANGED <<buffer, returned>>
     ELSE /\ buffer' = Append(buffer, Last(returned))
          /\ returned' = Front(returned)
  /\ UNCHANGED <<line, pipe, is_eof, at>>

Write == ReadFile \/ WritePipe \/ ClosePipe
GetChar == GetBuffered \/ GetFirst \/ GetSecond
UNext == Write \/ GetChar \/ UngetChar

(* The system runs both processes: a writer that can write does so, and a  *)
(* program that reads until the end calls getchar again.                   *)
USpec == UInit /\ [][UNext]_uvars /\ WF_uvars(Write) /\ WF_uvars(GetChar)

(***************************************************************************)
(* Properties                                                              *)
(***************************************************************************)
FirstEnd == CHOOSE k \in Ends : \A m \in Ends : k <= m

Received == IF Ended THEN SubSeq(returned, 1, FirstEnd - 1) ELSE returned

(* Every variable has its type; pipe and buffer stay within their sizes.   *)
UTypeOK ==
  /\ sent \in Seq(Byte) /\ escaped \in BOOLEAN
  /\ file \in Seq(Byte) /\ Len(file) <= Len(sent)
  /\ writer \in {"copies", "ends", "closed"}
  /\ pending \in Seq(Byte) /\ Len(pending) <= 2
  /\ pipe \in Seq(Byte) /\ Len(pipe) <= PipeSize
  /\ is_eof \in BOOLEAN
  /\ at \in {"idle", "escape"}
  /\ buffer \in Seq(Char) /\ Len(buffer) <= CHAR_BUFFER_SIZE
  /\ returned \in Seq(Char)
  /\ backs \in Nat

(* Whatever the processes do between the bytes, the program gets the bytes *)
(* of the file in their order, gets a byte it gave back again, and is told *)
(* of the end when it has had them all and not before.                     *)
Line == INSTANCE Channel WITH taken <- Received, ended <- Ended

ImplementsChannel == Line!CSpec

(* A program that goes on after the end is told a second time if the file  *)
(* was escaped, by the simulator's own escape sequence; from then on, or   *)
(* at once for a text, getchar returns bytes of value 1 for ever.          *)
AfterTheEnd ==
  \A k \in DOMAIN returned : Ended /\ k > FirstEnd =>
    returned[k] = IF escaped /\ k = FirstEnd + 1 THEN EOF ELSE 1

(* A full pipe and an empty one never make both processes wait: the        *)
(* program is told of the end.                                             *)
Delivered == <>Ended
=============================================================================
