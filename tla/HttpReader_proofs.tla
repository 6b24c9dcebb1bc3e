-------------------------- MODULE HttpReader_proofs --------------------------
(* Proofs about HttpReader.                                                *)
EXTENDS HttpReader, TLAPS

\* Positions, bytes and ends fit together for every file, buffer and server:
\* the agreement of the two positions carries the other three.
ReaderInv ==
  TypeOK /\ PositionsAgree /\ BytesAreThoseAtPos /\ EofIsTheEnd /\ EndIsNotAnError

\* A reader that has just been made is at the start of the file.
LEMMA ReaderInit == Init => ReaderInv
  <1> SUFFICES ASSUME Init PROVE ReaderInv
    OBVIOUS
  <1>1. fileSize \in {-1} \cup (Nat \ {0})
    BY ReaderAssumption DEF Init, FetchFileSize
  <1>2. QED
    BY <1>1 DEF Init, ReaderInv, TypeOK, PositionsAgree, BytesAreThoseAtPos,
                EofIsTheEnd, EndIsNotAnError, Result, Known

\* The last byte of a range is in the file as far as the reader knows it, and
\* at most a buffer away.
LEMMA LastByteBounds ==
  ASSUME TypeOK, ~AtEnd
  PROVE  LastByte \in Nat /\ position <= LastByte
  BY ReaderAssumption DEF TypeOK, AtEnd, LastByte, Known

\* Taking bytes from the place the reader is at keeps both positions together.
LEMMA GiveKeepsInv ==
  ASSUME ReaderInv, ~AtEnd, NEW status \in {200, 206}, NEW from \in Nat, NEW n \in Nat,
         status = 206 => from = position /\ position + n <= FileLength,
         status = 200 => from = 0 /\ n <= FileLength,
         Give(status, from, n)
  PROVE  ReaderInv'
  <1> USE ReaderAssumption DEF Give, Ended, Advance, Known, AtEnd
  <1>1. pos = position
    BY DEF ReaderInv, PositionsAgree
  <1>2. TypeOK'
    BY DEF ReaderInv, TypeOK, Result
  <1>3. PositionsAgree'
    BY <1>1 DEF PositionsAgree, ReaderInv, TypeOK
  <1>4. BytesAreThoseAtPos'
    BY <1>1 DEF BytesAreThoseAtPos, ReaderInv, TypeOK
  <1>5. EofIsTheEnd' /\ EndIsNotAnError'
    BY DEF EofIsTheEnd, EndIsNotAnError
  <1>6. QED
    BY <1>2, <1>3, <1>4, <1>5 DEF ReaderInv

\* No read and no seek, failed or not, parts the positions or invents an end.
LEMMA ReaderStep == ReaderInv /\ [Next]_vars => ReaderInv'
  <1> SUFFICES ASSUME ReaderInv, [Next]_vars PROVE ReaderInv'
    OBVIOUS
  <1> USE ReaderAssumption
  <1>1. CASE ReadAtEnd
    BY <1>1 DEF ReadAtEnd, Ended, AtEnd, Known, ReaderInv, TypeOK, Result,
                PositionsAgree, BytesAreThoseAtPos, EofIsTheEnd, EndIsNotAnError
  <1>2. CASE ReadRange
    <2>1. PICK n \in 1 .. (Smaller(LastByte, FileLength - 1) - position + 1) :
            Give(206, position, n)
      BY <1>2 DEF ReadRange
    <2>2. ~AtEnd /\ position \in Nat /\ LastByte \in Nat
      BY <1>2, LastByteBounds DEF ReadRange, ReaderInv, TypeOK
    <2>3. n \in Nat /\ position + n <= FileLength
      BY <2>1, <2>2 DEF Smaller
    <2>4. QED
      BY <2>1, <2>2, <2>3, GiveKeepsInv
  <1>3. CASE ReadWholeFile
    <2>1. ~AtEnd /\ Give(200, 0, Smaller(FileLength, BufferSize))
      BY <1>3 DEF ReadWholeFile
    <2>2. Smaller(FileLength, BufferSize) \in Nat /\ Smaller(FileLength, BufferSize) <= FileLength
      BY DEF Smaller
    <2>3. QED
      BY <2>1, <2>2, GiveKeepsInv
  <1>4. CASE ReadNothing
    BY <1>4 DEF ReadNothing, Ended, ReaderInv, TypeOK, Result, Known,
                PositionsAgree, BytesAreThoseAtPos, EofIsTheEnd, EndIsNotAnError
  <1>5. CASE ReadPastEnd
    BY <1>5 DEF ReadPastEnd, Ended, AtEnd, ReaderInv, TypeOK, Result, Known,
                PositionsAgree, BytesAreThoseAtPos, EofIsTheEnd, EndIsNotAnError
  <1>6. CASE ReadFails
    BY <1>6 DEF ReadFails, Ended, ReaderInv, TypeOK, Result, Known,
                PositionsAgree, BytesAreThoseAtPos, EofIsTheEnd, EndIsNotAnError
  <1>7. ASSUME NEW o \in Offsets, SeekTo(o) PROVE ReaderInv'
    <2>1. o \in Nat
      BY <1>7 DEF SeekTo
    <2>2. TypeOK' /\ PositionsAgree'
      BY <1>7, <2>1 DEF SeekTo, DoSeek, Known, ReaderInv, TypeOK, Result, PositionsAgree
    <2>3. last'.result = "none"
      BY <1>7 DEF SeekTo, ReaderInv, TypeOK, Result
    <2>4. QED
      BY <2>2, <2>3 DEF ReaderInv, BytesAreThoseAtPos, EofIsTheEnd, EndIsNotAnError
  <1>8. CASE UNCHANGED vars
    BY <1>8 DEF vars, ReaderInv, TypeOK, Known, PositionsAgree, BytesAreThoseAtPos,
                EofIsTheEnd, EndIsNotAnError
  <1>9. QED
    BY <1>1, <1>2, <1>3, <1>4, <1>5, <1>6, <1>7, <1>8 DEF Next, SeekRefused

\* The reader's invariant holds throughout.
LEMMA ReaderAlways == Spec => []ReaderInv
  BY ReaderInit, ReaderStep, PTL DEF Spec

\* Every member keeps its type.
THEOREM TypeCorrect == Spec => []TypeOK
  <1>1. ReaderInv => TypeOK
    BY DEF ReaderInv
  <1>2. QED
    BY <1>1, ReaderAlways, PTL

\* libavformat and the reader never lose each other (HttpReader.cpp:155).
THEOREM PositionsStayTogether == Spec => []PositionsAgree
  <1>1. ReaderInv => PositionsAgree
    BY DEF ReaderInv
  <1>2. QED
    BY <1>1, ReaderAlways, PTL

\* libavformat is given the file's own bytes (HttpReader.cpp:130).
THEOREM ReadsTheFile == Spec => []BytesAreThoseAtPos
  <1>1. ReaderInv => BytesAreThoseAtPos
    BY DEF ReaderInv
  <1>2. QED
    BY <1>1, ReaderAlways, PTL

\* The end of the file is where it is (HttpReader.cpp:92).
THEOREM EndsAtTheEnd == Spec => []EndIsWhereItIs
  <1>1. ReaderInv => EndIsWhereItIs
    BY DEF ReaderInv, EndIsWhereItIs
  <1>2. QED
    BY <1>1, ReaderAlways, PTL
=============================================================================
