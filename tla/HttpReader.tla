------------------------------ MODULE HttpReader ------------------------------
(***************************************************************************)
(* HttpReader: the file libavformat reads is a file server's, one range    *)
(* request a read. A byte is its position in the file. The AVIOContext     *)
(* counts the bytes it was given for itself (its pos) and never asks the   *)
(* reader where it is, so two counters have to agree over any sequence of  *)
(* reads, short reads, failures and seeks.                                 *)
(***************************************************************************)
EXTENDS Integers

CONSTANTS
  FileLength,   \* bytes of the file
  BufferSize,   \* kBufferSize
  PageLengths,  \* lengths the server's error pages can have
  HeadAnswers,  \* how the server may answer HEAD
  GetAnswers,   \* how the server may answer a range request
  Offsets,      \* where libavformat may seek to
  MaxPosition   \* bound: where reading goes on when the server ignores ranges

ASSUME ReaderAssumption ==
  /\ FileLength \in Nat \ {0} /\ BufferSize \in Nat \ {0}
  /\ PageLengths \subseteq Nat \ {0}
  /\ HeadAnswers \subseteq {"length", "no_length", "error_page"}
  /\ GetAnswers \subseteq {"range", "whole_file", "nothing", "error"}
  /\ Offsets \subseteq Int /\ MaxPosition \in Nat

VARIABLES
  fileSize,  \* file_size_: -1 where it is not known
  position,  \* position_
  pos,       \* pos of the AVIOContext
  last       \* history: how the last call of ReadPacket ended

vars == <<fileSize, position, pos, last>>

\* FetchFileSize. The status of the answer is not looked at: the length of an
\* error page is taken for the length of the file.
FetchFileSize(a) ==
  CASE a = "length"     -> {FileLength}
    [] a = "no_length"  -> {-1}
    [] a = "error_page" -> PageLengths

Known == fileSize > 0

\* Read ended with `result`; the AVIOContext was at `at`; n bytes from position
\* `from` of the file, out of an answer with that status.
Ended(result, status, from, n) ==
  [result |-> result, status |-> status, at |-> pos, from |-> from, n |-> n]

Init ==
  /\ \E a \in HeadAnswers : fileSize \in FetchFileSize(a)
  /\ position = 0 /\ pos = 0
  /\ last = [result |-> "none", status |-> 0, at |-> 0, from |-> 0, n |-> 0]

Smaller(m, n) == IF m < n THEN m ELSE n

\* The last byte of the range that is asked for.
LastByte ==
  LET end == position + BufferSize - 1
  IN  IF Known /\ end >= fileSize THEN fileSize - 1 ELSE end

\* Mutant of AtEnd: `>` for `>=`.
AtEnd_Past == Known /\ position > fileSize

\* Mutant of AtEnd: the last byte is taken for the end.
AtEnd_LastByte == Known /\ position >= fileSize - 1

AtEnd == Known /\ position >= fileSize

\* No request is made.
ReadAtEnd ==
  /\ AtEnd
  /\ last' = Ended("eof", 0, 0, 0)
  /\ UNCHANGED <<fileSize, position, pos>>

\* Mutant of Advance: the position moves by what was asked for.
Advance_ByAsked(n) == position + (LastByte - position + 1)

\* `position_ += bytes_written`.
Advance(n) == position + n

\* n bytes are given to libavformat, from the start of an answer that begins at
\* position `from`.
Give(status, from, n) ==
  /\ last' = Ended("bytes", status, from, n)
  /\ position' = Advance(n) /\ pos' = pos + n
  /\ UNCHANGED fileSize

\* 206 with the range, or with the beginning of it.
ReadRange ==
  /\ ~AtEnd /\ position < FileLength
  /\ "range" \in GetAnswers
  /\ \E n \in 1 .. (Smaller(LastByte, FileLength - 1) - position + 1) :
       Give(206, position, n)

\* 200 with all of the file: CurlWriteCallback takes what fits into the buffer.
ReadWholeFile ==
  /\ ~AtEnd /\ "whole_file" \in GetAnswers
  /\ pos < MaxPosition /\ position < MaxPosition
  /\ Give(200, 0, Smaller(FileLength, BufferSize))

\* 200 or 206 with nothing in it.
ReadNothing ==
  /\ ~AtEnd /\ "nothing" \in GetAnswers
  /\ last' = Ended("eof", 200, 0, 0)
  /\ UNCHANGED <<fileSize, position, pos>>

\* 416, since the range is past the end of the file.
ReadPastEnd ==
  /\ ~AtEnd /\ position >= FileLength /\ "range" \in GetAnswers
  /\ last' = Ended("eio", 416, 0, 0)
  /\ UNCHANGED <<fileSize, position, pos>>

\* Another status, or the transfer breaks off: CurlWriteCallback may have
\* written to the buffer, but the reader does not say so.
ReadFails ==
  /\ ~AtEnd /\ "error" \in GetAnswers
  /\ last' = Ended("eio", 500, 0, 0)
  /\ UNCHANGED <<fileSize, position, pos>>

\* Mutant of DoSeek: a seek past the end goes to the last byte.
DoSeek_LastByte(offset) ==
  IF Known /\ offset > fileSize THEN fileSize - 1 ELSE offset

\* DoSeek for SEEK_SET, which is all that avio_seek uses.
DoSeek(offset) == IF Known /\ offset > fileSize THEN fileSize ELSE offset

\* avio_seek: a position that is not negative becomes pos, whatever position
\* the reader went to. (Its other call of Seek, AVSEEK_SIZE, changes nothing.)
SeekTo(offset) ==
  /\ offset >= 0
  /\ position' = DoSeek(offset) /\ pos' = offset
  /\ last' = [last EXCEPT !.result = "none"]
  /\ UNCHANGED fileSize

\* DoSeek and avio_seek refuse a negative position.
SeekRefused(offset) == offset < 0 /\ UNCHANGED vars

Next ==
  \/ ReadAtEnd \/ ReadRange \/ ReadWholeFile \/ ReadNothing
  \/ ReadPastEnd \/ ReadFails
  \/ \E o \in Offsets : SeekTo(o) \/ SeekRefused(o)

Spec == Init /\ [][Next]_vars

-----------------------------------------------------------------------------
(* Properties.                                                             *)

Result == [result : {"none", "bytes", "eof", "eio"}, status : {0, 200, 206, 416, 500},
           at : Nat, from : Nat, n : Nat]

\* The reader's members and the AVIOContext's position keep their types.
TypeOK ==
  /\ fileSize \in {-1} \cup (Nat \ {0})
  /\ position \in Nat /\ pos \in Nat
  /\ last \in Result

\* The reader and the AVIOContext are at the same place, unless both are at or
\* past what the reader takes for the end: a seek is clamped, and short
\* reads and failures in between do not part them.
PositionsAgree == pos = position \/ (Known /\ position >= fileSize /\ pos >= fileSize)

\* The bytes libavformat is given are those of the file at the position it
\* believes to be at, unless the server ignored the range it was asked for.
BytesAreThoseAtPos ==
  last.result = "bytes" /\ (last.status = 206 \/ last.at = 0) =>
    last.from = last.at /\ last.from + last.n <= FileLength

\* The end of the file is only reported there, unless the server's HEAD gave
\* another length than the file's or its answer was empty.
EofIsTheEnd ==
  last.result = "eof" /\ last.status = 0 /\ fileSize = FileLength =>
    last.at >= FileLength

\* Where the length is known the end is found without asking the server for a
\* range it has not: 416, which is reported as an I/O error, only
\* comes where HEAD gave no length or a wrong one.
EndIsNotAnError ==
  last.status = 416 /\ last.result = "eio" => fileSize # FileLength

\* A reader that was told the file's length reports the end where it is: not
\* before, and not as an I/O error, which would fail the segment.
EndIsWhereItIs == EofIsTheEnd /\ EndIsNotAnError

=============================================================================
