---------------------------- MODULE InitSegment ----------------------------
(***************************************************************************)
(* Fmp4Writer::BuildInit: ftyp and moov of the init segment, with the      *)
(* BoxBuilder they are written with. A builder is the length of its buffer *)
(* and the boxes that are finished in it. A box carries `says`, those of   *)
(* its fields that other boxes or the media segments have to fit.          *)
(***************************************************************************)
EXTENDS Integers, Sequences

CONSTANT Word  \* 2^32: what a 32-bit field can hold

\* A track as BuildInit is given it: its type, the length of its codec's
\* extradata, whether the codec has a box for that, and initial_padding.
Track == [type : {"video", "audio"}, extradata : Nat, known : BOOLEAN, padding : Nat]

\* static_cast<uint32_t>, and static_cast<uint8_t>.
Truncated(n) == n % Word
Byte(n) == n % 256

\* Header of a box, and of a box with version and flags.
BoxHeader == 8
FullBoxHeader == BoxHeader + 4

NewBuilder == [pos |-> 0, boxes |-> <<>>]

\* n bytes of fields.
Put(b, n) == [b EXCEPT !.pos = @ + n]

\* EndBox, with `inner` in the box that was begun at the end of b.
Closed(b, type, says, inner) ==
  [pos   |-> inner.pos,
   boxes |-> Append(inner.boxes, [type |-> type, at |-> b.pos, says |-> says,
                                  size |-> Truncated(inner.pos - b.pos)])]

\* BeginBox or BeginFullBox, what Inner writes, EndBox.
Boxed(b, type, header, says, Inner(_)) ==
  Closed(b, type, says, Inner(Put(b, header)))

\* A box with n bytes of fields and no boxes in it.
Leaf(b, type, n, says) == Boxed(b, type, FullBoxHeader, says, LAMBDA c : Put(c, n))

\* WriteX(b, t) for each track.
ForEach(b, tracks, Write(_, _)) ==
  LET each[n \in 0 .. Len(tracks)] ==
        IF n = 0 THEN b ELSE Write(each[n - 1], tracks[n])
  IN  each[Len(tracks)]

NoField == -1

-----------------------------------------------------------------------------
(* ftyp, and the headers of movie and track.                               *)

WriteFtyp(b) == Boxed(b, "ftyp", BoxHeader, NoField, LAMBDA c : Put(c, 5 * 4))

Matrix == 9 * 4

WriteMvhd(b, nextTrackId) ==
  Leaf(b, "mvhd", 3 * 8 + 2 * 4 + 2 * 2 + 2 * 4 + Matrix + 6 * 4 + 4, nextTrackId)

\* Mutant of NonSyncByDefault: audio too.
NonSyncByDefault_All(type) == TRUE

\* is_non_sync of trex.default_sample_flags.
NonSyncByDefault(type) == type = "video"

\* trex, which says what holds for samples without flags of their own.
WriteTrex(b, id, type) ==
  Leaf(b, "trex", 5 * 4, [track |-> id, nonSync |-> NonSyncByDefault(type)])

WriteTkhd(b, id) == Leaf(b, "tkhd", 3 * 8 + 4 * 4 + 4 * 2 + Matrix + 2 * 4, id)

\* edts with one edit, which skips the priming.
WriteEdtsForPriming(b, t) ==
  IF t.padding = 0 THEN b
  ELSE Boxed(b, "edts", BoxHeader, NoField,
             LAMBDA c : Leaf(c, "elst", 4 + 2 * 8 + 2 * 2, t.padding))

-----------------------------------------------------------------------------
(* What is in mdia.                                                        *)

WriteMdhd(b) == Leaf(b, "mdhd", 3 * 8 + 4 + 2 * 2, NoField)
WriteHdlr(b) == Leaf(b, "hdlr", 5 * 4 + 13, NoField)

\* vmhd or smhd.
WriteMediaHeader(b, t) ==
  IF t.type = "video" THEN Leaf(b, "vmhd", 4 * 2, NoField)
                      ELSE Leaf(b, "smhd", 2 * 2, NoField)

WriteDinf(b) ==
  Boxed(b, "dinf", BoxHeader, NoField, LAMBDA c :
    Boxed(c, "dref", FullBoxHeader, NoField, LAMBDA d :
      Leaf(Put(d, 4), "url ", 0, NoField)))

\* avcC or hvcC.
WriteCodecConfig(b, t) ==
  IF t.extradata = 0 \/ ~t.known THEN b
  ELSE Boxed(b, "config", BoxHeader, NoField, LAMBDA c : Put(c, t.extradata))

\* A descriptor that declares `size` bytes after its header. What is written
\* after it is up to the caller, so it is listed like a box.
DescriptorHeader == 1 + 4
WriteDescriptorHeader(b, tag, size) ==
  [pos   |-> b.pos + DescriptorHeader,
   boxes |-> Append(b.boxes, [type |-> tag, at |-> b.pos, says |-> size,
                              size |-> DescriptorHeader + size])]

\* dsi_size and dcd_inner_size.
DsiSize(t) == Byte(t.extradata)
DcdInnerSize(t) == Byte(13 + 5 + DsiSize(t))

\* Mutant of EsInnerSize: the SLConfigDescriptor is left out.
EsInnerSize_NoSlConfig(t) == Byte(3 + 5 + DcdInnerSize(t))

\* es_inner_size.
EsInnerSize(t) == Byte(3 + 5 + DcdInnerSize(t) + 5 + 1)

WriteEsds(b, t) ==
  Boxed(b, "esds", FullBoxHeader, NoField, LAMBDA c :
    LET es  == Put(WriteDescriptorHeader(c, "ES", EsInnerSize(t)), 2 + 1)
        dcd == Put(WriteDescriptorHeader(es, "DecoderConfig", DcdInnerSize(t)),
                   2 + 3 + 2 * 4)
        dsi == Put(WriteDescriptorHeader(dcd, "DecoderSpecificInfo", DsiSize(t)),
                   DsiSize(t))
    IN  Put(WriteDescriptorHeader(dsi, "SLConfig", 1), 1))

WriteVideoSampleEntry(b, t) ==
  Boxed(b, "video", BoxHeader, NoField, LAMBDA c : WriteCodecConfig(Put(c, 8 + 70), t))
WriteAudioSampleEntry(b, t) ==
  Boxed(b, "mp4a", BoxHeader, NoField, LAMBDA c : WriteEsds(Put(c, 8 + 20), t))

WriteStsd(b, t) ==
  Boxed(b, "stsd", FullBoxHeader, NoField, LAMBDA c :
    IF t.type = "video" THEN WriteVideoSampleEntry(Put(c, 4), t)
                        ELSE WriteAudioSampleEntry(Put(c, 4), t))

\* stsd and four empty tables.
WriteStbl(b, t) ==
  Boxed(b, "stbl", BoxHeader, NoField, LAMBDA c :
    Leaf(Leaf(Leaf(Leaf(WriteStsd(c, t), "stts", 4, NoField), "stsc", 4, NoField),
              "stsz", 2 * 4, NoField), "stco", 4, NoField))

WriteMinf(b, t) ==
  Boxed(b, "minf", BoxHeader, NoField, LAMBDA c :
    WriteStbl(WriteDinf(WriteMediaHeader(c, t)), t))

WriteMdia(b, t) ==
  Boxed(b, "mdia", BoxHeader, NoField, LAMBDA c :
    WriteMinf(WriteHdlr(WriteMdhd(c)), t))

-----------------------------------------------------------------------------
(* moov. Tracks have the numbers 1 (video) and 2 (audio).                  *)

TrackId(t) == IF t.type = "video" THEN 1 ELSE 2

WriteTrak(b, t) ==
  Boxed(b, "trak", BoxHeader, TrackId(t), LAMBDA c :
    LET head == WriteTkhd(c, TrackId(t))
    IN  WriteMdia(IF t.type = "audio" THEN WriteEdtsForPriming(head, t) ELSE head, t))

WriteMvex(b, tracks) ==
  Boxed(b, "mvex", BoxHeader, NoField, LAMBDA c :
    ForEach(c, tracks, LAMBDA d, t : WriteTrex(d, TrackId(t), t.type)))

WriteMoov(b, tracks) ==
  Boxed(b, "moov", BoxHeader, NoField, LAMBDA c :
    ForEach(WriteMvex(WriteMvhd(c, TrackId(tracks[Len(tracks)]) + 1), tracks),
            tracks, WriteTrak))

\* The boxes of the init segment, inner ones before those around them.
BuildInit(tracks) == WriteMoov(WriteFtyp(NewBuilder), tracks)
=============================================================================
