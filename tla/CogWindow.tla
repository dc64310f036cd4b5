----------------------------- MODULE CogWindow -----------------------------
(***************************************************************************)
(* Reading a window of a remote cloud-optimized GeoTIFF: prepare_window    *)
(* (HEAD, layout, window, tile plan, index entries) and                    *)
(* fetch_window_to_path (compressed tiles, decoding, copying), while the   *)
(* object may be uploaded anew.  No request names a version.               *)
(*                                                                         *)
(* All uploads of a file have one header; pixels, chunks and index entries *)
(* differ.  A sample is one of 16 values; in an f32 it is two bytes of     *)
(* base 4, most significant first.  Tiles are Side pixels wide and high.   *)
(***************************************************************************)
EXTENDS Integers, FiniteSets, SequencesExt, FiniteSetsExt

CONSTANTS
  Files,       \* [magic, ifdEnd, fields, uploads]: see below
  Boxes,       \* the boxes asked for: [west, east, south, north]
  Kinds,       \* the raster kinds asked for: "flow_dir", "flow_acc"
  Side,        \* the width and height of a tile (512 in the code)
  MaxEntries,  \* ceiling: IFD entries
  MaxValue,    \* ceiling: bytes of a metadata value
  MaxAscii,    \* ceiling: bytes of a text value
  MaxTiles,    \* ceiling: planned tiles
  MaxChunk,    \* ceiling: compressed bytes of a tile
  MaxCovered,  \* ceiling: compressed bytes of the planned tiles
  MaxWindow,   \* ceiling: bytes of the decoded window
  Lossy,       \* whether requests may fail
  Garbage, NaN, Unset

(* A header has fields, [tag -> [type, count, value]], where the value of  *)
(* an out-of-line field is its offset and its content is in data.  An      *)
(* upload has the pixels [<<column, row>> -> sample], and for every tile   *)
(* its offset, its compressed length, how much of that the deflate stream  *)
(* takes (a checksum or padding may follow), and whether it is broken.     *)
Width(type) == CASE type \in {"BYTE", "ASCII"} -> 1 [] type = "SHORT" -> 2
                 [] type = "LONG" -> 4 [] type \in {"RATIONAL", "DOUBLE", "LONG8"} -> 8
                 [] OTHER -> 0

Bytes(field) == field.count * Width(field.type)
InlineWidth(magic) == IF magic = "classic" THEN 4 ELSE 8

Ceiling(n, d) == -((-n) \div d)

(* Whatever a header claims, its fields hold what their types can hold,    *)
(* and its index has an entry of every chunk, in the header if it is one   *)
(* that fits; and if its grid has a tile for every entry, it is the grid   *)
(* of the raster.  Tiles of one upload share no chunk: entries with one    *)
(* offset are those of sparse tiles.                                       *)
Stored(f) ==
  /\ \A tag \in DOMAIN f.fields :
       LET field == f.fields[tag] IN
       /\ field.count \in Nat /\ field.value \in Nat
       /\ field.type = "DOUBLE" => field.data \in [1..field.count -> Int]
       /\ field.type = "ASCII" => field.data \in Int \cup {Unset}
  /\ DOMAIN f.uploads = 1..Len(f.uploads) /\ Len(f.uploads) \in Nat \ {0}
  /\ {"ImageWidth", "ImageLength", "TileOffsets", "TileByteCounts"} \subseteq DOMAIN f.fields =>
       LET w == f.fields.ImageWidth.value
           h == f.fields.ImageLength.value
           tiles == f.fields.TileOffsets.count
           InHeader(tag) == f.fields[tag].count = 1 /\ Bytes(f.fields[tag]) <= InlineWidth(f.magic)
       IN \A v \in DOMAIN f.uploads :
            LET u == f.uploads[v] IN
            /\ u.offset \in [0..(tiles - 1) -> Nat] /\ u.length \in [0..(tiles - 1) -> Nat]
            /\ u.stream \in [0..(tiles - 1) -> Nat] /\ u.broken \in [0..(tiles - 1) -> BOOLEAN]
            /\ \A t \in 0..(tiles - 1) : u.stream[t] <= u.length[t]
            /\ \A t, other \in 0..(tiles - 1) :
                 t # other /\ u.offset[t] = u.offset[other] => u.length[t] = 0
            /\ InHeader("TileOffsets") => f.fields.TileOffsets.value = u.offset[0]
            /\ InHeader("TileByteCounts") => f.fields.TileByteCounts.value = u.length[0]
            /\ tiles = Ceiling(w, Side) * Ceiling(h, Side) =>
                 u.pixels \in [(0..(w - 1)) \X (0..(h - 1)) -> 0..15]

ASSUME CogWindowAssumption ==
  /\ \A f \in Files : Stored(f)
  /\ Boxes \subseteq [west : Int, east : Int, south : Int, north : Int]
  /\ \A b \in Boxes : b.west <= b.east /\ b.south <= b.north
  /\ Kinds \subseteq {"flow_dir", "flow_acc"}
  /\ Side \in Nat \ {0} /\ Lossy \in BOOLEAN
  /\ {MaxEntries, MaxValue, MaxAscii, MaxTiles, MaxChunk, MaxCovered, MaxWindow} \subseteq Nat
  /\ Unset \notin Int \cup {"u8", "i8", "f32", "i32"}
  /\ Garbage \notin [1..Side -> [1..Side -> 0..15] \cup [1..(2 * Side) -> 0..3]]

VARIABLES
  raster,   \* the header and the history of uploads
  box, kind,\* the request
  object,   \* the upload now at the URL
  since,    \* the upload there when the last request ended
  size,     \* the object size HEAD gave
  ranges,   \* the byte ranges of the planned tiles, from the index
  made,     \* what was made: Unset or the local raster
  lost,     \* history: whether a request failed
  phase     \* the request it is at, or how the call ended

readVars == <<raster, box, kind, object, since, size, ranges, made, lost, phase>>

-----------------------------------------------------------------------------
(* The header (read_remote_layout, metadata_from_layout). *)

Field(tag) == raster.fields[tag]
Value(tag) == Field(tag).value

Inline(tag) == Bytes(Field(tag)) <= InlineWidth(raster.magic)

Scalar(tag) ==
  /\ tag \in DOMAIN raster.fields
  /\ Field(tag).type \in {"SHORT", "LONG"} /\ Field(tag).count = 1
  /\ Field(tag).type = "SHORT" => Value(tag) < 2^16

Doubles(tag, n) ==
  /\ tag \in DOMAIN raster.fields
  /\ Field(tag).type = "DOUBLE" /\ Bytes(Field(tag)) <= MaxValue
  /\ Field(tag).count = n /\ Value(tag) + Bytes(Field(tag)) <= size

Descriptor(tag) ==
  /\ tag \in DOMAIN raster.fields
  /\ Field(tag).count # 0 /\ Field(tag).type \in {"LONG", "LONG8"}
  /\ Inline(tag) \/ Value(tag) + Bytes(Field(tag)) <= size

Text(tag) ==
  tag \in DOMAIN raster.fields =>
    /\ Field(tag).type = "ASCII" /\ Field(tag).count \in 1..MaxAscii
    /\ Inline(tag) \/ Value(tag) + Bytes(Field(tag)) <= size

Scalars == {"ImageWidth", "ImageLength", "TileWidth", "TileLength", "BitsPerSample",
            "Compression", "Photometric", "SamplesPerPixel", "PlanarConfig",
            "Predictor", "SampleFormat"}

Sample ==
  CASE <<Value("BitsPerSample"), Value("SampleFormat")>> = <<8, 1>> -> "u8"
    [] <<Value("BitsPerSample"), Value("SampleFormat")>> = <<8, 2>> -> "i8"
    [] <<Value("BitsPerSample"), Value("SampleFormat")>> = <<32, 3>> -> "f32"
    [] <<Value("BitsPerSample"), Value("SampleFormat")>> = <<32, 2>> -> "i32"
    [] OTHER -> Unset

LayoutRead ==
  /\ size >= 16 /\ raster.magic \in {"classic", "big"}
  /\ Cardinality(DOMAIN raster.fields) \in 1..MaxEntries /\ raster.ifdEnd <= size
  /\ \A tag \in DOMAIN raster.fields : Width(Field(tag).type) # 0
  /\ \A tag \in Scalars : Scalar(tag)
  /\ Value("ImageWidth") # 0 /\ Value("ImageLength") # 0
  /\ Doubles("Scale", 3) /\ Doubles("Tiepoint", 6)
  /\ Descriptor("TileOffsets") /\ Descriptor("TileByteCounts")
  /\ Field("TileOffsets").count = Field("TileByteCounts").count
  /\ Value("Photometric") = 1 /\ Value("SamplesPerPixel") = 1 /\ Value("PlanarConfig") = 1
  /\ Sample # Unset
  /\ Text("Nodata")

Columns == Value("ImageWidth")
Rows == Value("ImageLength")
ScaleX == Field("Scale").data[1]
ScaleY == Field("Scale").data[2]
OriginX == Field("Tiepoint").data[4] - Field("Tiepoint").data[1] * ScaleX
OriginY == Field("Tiepoint").data[5] + Field("Tiepoint").data[2] * ScaleY

(* The declared nodata, a number or None if it does not read as one; by   *)
(* default the greatest byte or -1.                                        *)
Nodata == IF "Nodata" \in DOMAIN raster.fields THEN Field("Nodata").data
          ELSE IF Sample = "u8" THEN 15 ELSE -1

TilesAcross == Ceiling(Columns, Side)
TilesDown == Ceiling(Rows, Side)

(* validate_merit_layout *)
MeritLayout ==
  /\ Value("TileWidth") = Side /\ Value("TileLength") = Side
  /\ Field("TileOffsets").count = TilesAcross * TilesDown
  /\ Sample \in IF kind = "flow_dir" THEN {"u8", "i8"} ELSE {"f32", "i32"}
  /\ Value("Compression") \in {8, 32946}
  /\ Value("Predictor") \in IF Sample = "f32" THEN {1, 3} ELSE {1, 2}

-----------------------------------------------------------------------------
(* The window and its tiles (RasterPixelWindow, TilePlan). *)

(* The pixels along one axis: the box's, one more at each end, clamped. *)
Span(low, high, scale, pixels) ==
  LET Clamp(p) == Max({0, Min({p, pixels})})
      from == Clamp((low \div scale) - 1)
  IN [off |-> from, len |-> Max({0, Clamp(Ceiling(high, scale) + 1) - from})]

Across == Span(box.west - OriginX, box.east - OriginX, ScaleX, Columns)
Down == Span(OriginY - box.north, OriginY - box.south, ScaleY, Rows)

NorthUp == ScaleX > 0 /\ ScaleY > 0

(* read_remote_extent, by which a session selects a raster. *)
Extent == [west |-> OriginX, east |-> OriginX + Columns * ScaleX,
           south |-> OriginY - Rows * ScaleY, north |-> OriginY]

TileAxis(span) == (span.off \div Side)..((span.off + span.len - 1) \div Side)

(* The planned tiles, row by row. *)
Plan ==
  LET cols == TileAxis(Across) rows == TileAxis(Down)
      n == Cardinality(cols)
  IN [k \in 1..(n * Cardinality(rows)) |->
        (Min(rows) + ((k - 1) \div n)) * TilesAcross + Min(cols) + ((k - 1) % n)]

Planned ==
  /\ NorthUp /\ Across.len # 0 /\ Down.len # 0
  /\ Cardinality(TileAxis(Across)) * Cardinality(TileAxis(Down)) <= MaxTiles

ReadTypeOK ==
  /\ raster \in Files /\ box \in Boxes /\ kind \in Kinds
  /\ object \in DOMAIN raster.uploads /\ since \in 1..object
  /\ phase \in {"head", "layout", "index", "tiles", "done", "failed"}
  /\ phase # "done" => made = Unset

-----------------------------------------------------------------------------
(* What a request reads of an upload, and a tile's place on the grid. *)

Upload(v) == raster.uploads[v]
ObjectSize(v) == Max({Upload(v).offset[t] + Upload(v).length[t] : t \in DOMAIN Upload(v).offset})

TileX(t) == (t % TilesAcross) * Side
TileY(t) == (t \div TilesAcross) * Side
LiveWidth(t) == Min({Side, Columns - TileX(t)})
LiveHeight(t) == Min({Side, Rows - TileY(t)})

(* The TIFF writer's encoding of a tile: whole rows, padded at the edge of *)
(* the raster, as samples (predictor 1), as differences (2), or as the     *)
(* differences of the bytes, plane by plane (3).                           *)
Packed(row) ==
  LET Byte(i) == IF i <= Side THEN row[i] \div 4 ELSE row[i - Side] % 4
  IN CASE Value("Predictor") = 1 -> row
       [] Value("Predictor") = 2 ->
            [c \in 1..Side |-> IF c = 1 THEN row[1] ELSE (row[c] - row[c - 1]) % 16]
       [] OTHER -> [i \in 1..(2 * Side) |-> IF i = 1 THEN Byte(1) ELSE (Byte(i) - Byte(i - 1)) % 4]

Padded(v, t, r) ==
  [c \in 1..Side |-> LET p == <<TileX(t) + c - 1, TileY(t) + r - 1>>
                     IN IF p \in DOMAIN Upload(v).pixels THEN Upload(v).pixels[p] ELSE 0]

Encoded(v, t) == [r \in 1..Side |-> Packed(Padded(v, t, r))]

(* The bytes of a range: what inflates is the chunk that starts where the  *)
(* range does, if the range takes in its stream; the decoder minds neither *)
(* what follows the stream nor whether the range is that of the chunk.     *)
Read(v, range) ==
  LET at == {t \in DOMAIN Upload(v).offset :
               /\ Upload(v).offset[t] = range[1] /\ Upload(v).length[t] # 0
               /\ ~Upload(v).broken[t] /\ range[1] + Upload(v).stream[t] <= range[2]}
  IN IF at # {} /\ range[2] <= ObjectSize(v) THEN Encoded(v, CHOOSE t \in at : TRUE)
     ELSE Garbage

-----------------------------------------------------------------------------
(* resolve_tile_plan: the entries of the planned tiles that are not in the *)
(* header, both of a tile next to each other; then each tile's range from  *)
(* the responses in that order.                                            *)

OutOfLine ==
  (IF Inline("TileOffsets") THEN << >> ELSE <<"TileOffsets">>)
    \o (IF Inline("TileByteCounts") THEN << >> ELSE <<"TileByteCounts">>)

EntriesReadable ==
  \A k \in DOMAIN Plan : \A tag \in {"TileOffsets", "TileByteCounts"} :
    IF Inline(tag) THEN Field(tag).count = 1 /\ Plan[k] = 0
    ELSE /\ Plan[k] < Field(tag).count
         /\ Value(tag) + (Plan[k] + 1) * Width(Field(tag).type) <= size

Requested ==
  [n \in 1..(Len(OutOfLine) * Len(Plan)) |->
     [tag |-> OutOfLine[1 + ((n - 1) % Len(OutOfLine))],
      tile |-> Plan[1 + ((n - 1) \div Len(OutOfLine))]]]

IndexEntry(v, tag, t) == IF tag = "TileOffsets" THEN Upload(v).offset[t] ELSE Upload(v).length[t]

(* Mutant of Resolved: all offsets come before the lengths. *)
ResolvedByBlocks(responses) ==
  [k \in DOMAIN Plan |->
     LET offset == IF Inline("TileOffsets") THEN Value("TileOffsets") ELSE responses[k]
         length == IF Inline("TileByteCounts") THEN Value("TileByteCounts")
                   ELSE responses[(Len(OutOfLine) - 1) * Len(Plan) + k]
     IN <<offset, offset + length>>]

(* The inline entries are the header's, which all uploads share. *)
Resolved(responses) ==
  [k \in DOMAIN Plan |->
     LET first == Len(OutOfLine) * (k - 1) + 1
         offset == IF Inline("TileOffsets") THEN Value("TileOffsets") ELSE responses[first]
         length == IF Inline("TileByteCounts") THEN Value("TileByteCounts")
                   ELSE responses[first + Len(OutOfLine) - 1]
     IN <<offset, offset + length>>]

(* validate_compressed_ranges *)
RangesSound ==
  LET Length(k) == ranges[k][2] - ranges[k][1] IN
  /\ \A k \in DOMAIN ranges : Length(k) \in 1..MaxChunk /\ ranges[k][2] <= size
  /\ MapThenSumSet(Length, DOMAIN ranges) <= MaxCovered

-----------------------------------------------------------------------------
(* Decoding (decode_owned_chunk) and copying (decode_window). *)

(* Mutant of Undone: the differences of each byte plane start anew. *)
UndoneByPlane(row, m) ==
  LET sum[i \in DOMAIN row] ==
        IF i \in {1, Side + 1} THEN row[i] ELSE (sum[i - 1] + row[i]) % m
  IN sum

Undone(row, m) ==
  LET sum[i \in DOMAIN row] == IF i = 1 THEN row[1] ELSE (sum[i - 1] + row[i]) % m
  IN sum

(* The predictor undone, along a row as wide as the tile. *)
Unpacked(row) ==
  CASE Value("Predictor") = 1 -> row
    [] Value("Predictor") = 2 -> Undone(row, 16)
    [] OTHER -> LET bytes == Undone(row, 4) IN [c \in 1..Side |-> 4 * bytes[c] + bytes[Side + c]]

(* An i32 as an f32, which has fewer digits: three here.  Ties are to even *)
(* ones.                                                                   *)
Rounded(x) == IF x <= 8 \/ x % 2 = 0 THEN x ELSE 4 * ((x + 1) \div 4)

Number(x) == IF Sample = "i32" THEN Rounded(x) ELSE x

(* The live samples of a tile, row after row; an i32 that is the nodata,   *)
(* before it is rounded, becomes NaN.                                      *)
Decoded(t, chunk) ==
  [i \in 1..(LiveWidth(t) * LiveHeight(t)) |->
     LET x == Unpacked(chunk[1 + ((i - 1) \div LiveWidth(t))])[1 + ((i - 1) % LiveWidth(t))]
     IN IF Sample = "i32" /\ x = Nodata THEN NaN ELSE Number(x)]

(* tile_copy_span: the pixels a tile gives to the window. *)
CopySpan(t) ==
  [srcWidth |-> LiveWidth(t),
   cols |-> {c \in TileX(t)..(TileX(t) + LiveWidth(t) - 1) :
               Across.off <= c /\ c < Across.off + Across.len},
   rows |-> {r \in TileY(t)..(TileY(t) + LiveHeight(t) - 1) :
               Down.off <= r /\ r < Down.off + Down.len}]

(* The window's samples, by row and column, over a nodata background. *)
Copied(tiles) ==
  LET spans == [k \in DOMAIN Plan |-> CopySpan(Plan[k])]
      Source(k, c, r) == (r - TileY(Plan[k])) * spans[k].srcWidth + (c - TileX(Plan[k])) + 1
  IN [p \in (Across.off..(Across.off + Across.len - 1))
               \X (Down.off..(Down.off + Down.len - 1)) |->
        LET by == {k \in DOMAIN Plan : p[1] \in spans[k].cols /\ p[2] \in spans[k].rows}
        IN IF by = {} THEN Nodata ELSE tiles[Max(by)][Source(Max(by), p[1], p[2])]]

(* direction_nodata_byte, window_allocation_len *)
Allocated ==
  /\ Sample = "u8" => Nodata \in 0..15
  /\ Sample = "i8" => Nodata \in -8..7
  /\ Across.len * Down.len * (IF kind = "flow_dir" THEN 1 ELSE 4) <= MaxWindow

(* normalized_nodata *)
LocalNodata == CASE Sample = "i8" -> IF Nodata = Unset THEN 15 ELSE Nodata % 16
                 [] Sample = "i32" -> NaN
                 [] OTHER -> Nodata

(* The local raster, as write_window_geotiff places and labels it. *)
Local(chunks) ==
  [col |-> Across.off, row |-> Down.off, width |-> Across.len, height |-> Down.len,
   originX |-> OriginX + Across.off * ScaleX, originY |-> OriginY - Down.off * ScaleY,
   nodata |-> LocalNodata, covered |-> Plan,
   samples |-> Copied([k \in DOMAIN Plan |-> Decoded(Plan[k], chunks[k])])]

-----------------------------------------------------------------------------

ReadInit ==
  /\ raster \in Files /\ box \in Boxes /\ kind \in Kinds
  /\ object = 1 /\ since = 1 /\ size = 0 /\ ranges = << >>
  /\ made = Unset /\ lost = FALSE /\ phase = "head"

(* A step that ends with a request that was answered. *)
Goto(step) == phase' = step /\ since' = object /\ UNCHANGED <<raster, box, kind, object, lost>>

HeadObject ==
  /\ phase = "head" /\ Goto("layout")
  /\ size' = ObjectSize(object)
  /\ UNCHANGED <<ranges, made>>

(* The header and its values, then the checks and the tile plan. *)
Layout ==
  /\ phase = "layout"
  /\ Goto(IF LayoutRead /\ MeritLayout /\ Planned /\ EntriesReadable THEN "index" ELSE "failed")
  /\ UNCHANGED <<size, ranges, made>>

(* A request for several ranges may meet uploads made meanwhile: each      *)
(* range is of one of them.                                                *)
Answers(n) == [1..n -> since..object]

Index ==
  /\ phase = "index"
  /\ \E at \in Answers(Len(Requested)) :
       ranges' = Resolved([n \in DOMAIN Requested |->
                             IndexEntry(at[n], Requested[n].tag, Requested[n].tile)])
  /\ Goto("tiles")
  /\ UNCHANGED <<size, made>>

Tiles ==
  /\ phase = "tiles"
  /\ \E at \in Answers(Len(ranges)) :
       LET chunks == [k \in DOMAIN ranges |-> Read(at[k], ranges[k])] IN
       IF RangesSound /\ Garbage \notin Range(chunks) /\ Allocated
       THEN made' = Local(chunks) /\ Goto("done")
       ELSE Goto("failed") /\ UNCHANGED made
  /\ UNCHANGED <<size, ranges>>

(* A request fails, or is answered short: the call does. *)
Lose ==
  /\ Lossy /\ phase \in {"head", "layout", "index", "tiles"}
  /\ phase' = "failed" /\ lost' = TRUE
  /\ UNCHANGED <<raster, box, kind, object, since, size, ranges, made>>

(* The object is uploaded anew; what it held does not come back. *)
Reupload ==
  /\ object + 1 \in DOMAIN raster.uploads /\ object' = object + 1
  /\ UNCHANGED <<raster, box, kind, since, size, ranges, made, lost, phase>>

ReadNext == HeadObject \/ Layout \/ Index \/ Tiles \/ Lose \/ Reupload

ReadSpec == ReadInit /\ [][ReadNext]_readVars

-----------------------------------------------------------------------------
(* A pixel's number, if it is not the nodata that goes with it. *)
Meaning(x, nodata) == IF x = nodata THEN NaN ELSE x

Declared == IF Sample \in {"u8", "i8"} /\ Nodata # Unset THEN Nodata % 16 ELSE Nodata

(* What a sample of the raster means, in the numbers of the window.        *)
Original(x) == IF x = Declared THEN NaN ELSE Number(x)

TileOf(p) == (p[2] \div Side) * TilesAcross + (p[1] \div Side)

(* The window w shows, for tile t, the chunk of tile u of upload v.        *)
Shows(w, t, v, u) ==
  \A p \in DOMAIN w.samples :
    TileOf(p) = t =>
      Meaning(w.samples[p], w.nodata)
        = Original(Padded(v, u, p[2] - TileY(t) + 1)[p[1] - TileX(t) + 1])

(* The window w shows upload v.                                            *)
ShowsUpload(w, v) ==
  \A p \in DOMAIN w.samples :
    Meaning(w.samples[p], w.nodata) = Original(Upload(v).pixels[p])

(* A window that was made is a piece of the raster: every pixel of it under *)
(* the box is in the window, at its own coordinates and with its own        *)
(* meaning, whatever tiles, padding, predictor and sample type it came      *)
(* through, where the meaning of an i32 is the f32 nearest to it unless it  *)
(* is the nodata; the coverage told is the tiles that hold a pixel of it,   *)
(* each once.  However uploads and requests interleave, a tile is one whole *)
(* chunk, which lies where an index entry of the tile, of the same or an    *)
(* older upload, says; and all tiles are of one upload unless the chunk of  *)
(* a later one starts where an earlier one has a tile of the window.        *)
WindowIsRaster ==
  phase = "done" =>
    LET w == made
    IN /\ \A t \in Range(w.covered) :
            \E v \in 1..object, u \in DOMAIN Upload(1).offset :
              /\ \E a \in 1..v : Upload(a).offset[t] = Upload(v).offset[u]
              /\ Shows(w, t, v, u)
       /\ \/ \E v \in 1..object : ShowsUpload(w, v)
          \/ \E b \in 1..object, t \in Range(w.covered), u \in DOMAIN Upload(1).offset :
               \E a \in 1..(b - 1) : Upload(a).offset[t] = Upload(b).offset[u]
       /\ w.originX = OriginX + w.col * ScaleX /\ w.originY = OriginY - w.row * ScaleY
       /\ Cardinality(DOMAIN w.samples) = w.width * w.height
       /\ \A c \in 0..(Columns - 1), r \in 0..(Rows - 1) :
            /\ OriginX + c * ScaleX < box.east /\ box.west < OriginX + (c + 1) * ScaleX
            /\ OriginY - r * ScaleY > box.south /\ box.north > OriginY - (r + 1) * ScaleY
            => <<c, r>> \in DOMAIN w.samples
       /\ Range(w.covered) = {TileOf(p) : p \in DOMAIN w.samples}
       /\ IsInjective(w.covered)

(* The layout of the rasters the reader is for: a north-up gray raster of  *)
(* deflated tiles in a whole object, with a nodata its samples can hold,   *)
(* an index that is out of line unless it has one entry, and all of it     *)
(* within the ceilings.                                                    *)
Documented ==
  LET size1 == ObjectSize(1)
      index == {"TileOffsets", "TileByteCounts"}
      tiles == TilesAcross * TilesDown
  IN /\ raster.magic \in {"classic", "big"} /\ Cardinality(DOMAIN raster.fields) \in 1..MaxEntries
     /\ raster.ifdEnd <= size1 /\ size1 >= 16
     /\ {"Scale", "Tiepoint"} \cup index \subseteq DOMAIN raster.fields
     /\ \A tag \in DOMAIN raster.fields :
          /\ Width(Field(tag).type) # 0
          /\ Inline(tag) \/ Value(tag) + Bytes(Field(tag)) <= size1
     /\ \A tag \in Scalars : Scalar(tag)
     /\ Columns # 0 /\ Rows # 0 /\ Value("TileWidth") = Side /\ Value("TileLength") = Side
     /\ \A tag \in {"Photometric", "SamplesPerPixel", "PlanarConfig"} : Value(tag) = 1
     /\ Value("Compression") \in {8, 32946}
     /\ \/ Sample \in {"u8", "i8", "i32"} /\ Value("Predictor") \in {1, 2}
        \/ Sample = "f32" /\ Value("Predictor") \in {1, 3}
     /\ \A tag \in {"Scale", "Tiepoint"} : Field(tag).type = "DOUBLE" /\ Bytes(Field(tag)) <= MaxValue
     /\ Field("Scale").count = 3 /\ Field("Tiepoint").count = 6 /\ NorthUp
     /\ "Nodata" \in DOMAIN raster.fields =>
          Field("Nodata").type = "ASCII" /\ Field("Nodata").count \in 1..MaxAscii
     /\ Sample = "u8" => Nodata \in 0..15
     /\ Sample = "i8" => Nodata \in -8..7
     /\ \A tag \in index : /\ Field(tag).type \in {"LONG", "LONG8"} /\ Field(tag).count = tiles
                           /\ Inline(tag) => tiles = 1
     /\ \A t \in DOMAIN Upload(1).offset : /\ Upload(1).length[t] \in 1..MaxChunk /\ ~Upload(1).broken[t]
                                          /\ tiles * Upload(1).length[t] <= MaxCovered
     /\ tiles <= MaxTiles /\ 4 * (Columns * Rows) <= MaxWindow

(* A file of that layout and of the kind asked for is read, for every box  *)
(* that meets the extent the header gives (by which a session selects the  *)
(* raster): only a failed request or an upload in between makes the call   *)
(* fail.                                                                   *)
SupportedIsRead ==
  phase = "failed" /\ ~lost /\ since = 1 /\ Documented =>
    \/ (Sample \in {"u8", "i8"}) # (kind = "flow_dir")
    \/ box.east < Extent.west \/ box.west > Extent.east
    \/ box.north < Extent.south \/ box.south > Extent.north
=============================================================================
