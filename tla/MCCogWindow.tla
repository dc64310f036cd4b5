---------------------------- MODULE MCCogWindow ----------------------------
(* Rasters of one to six tiles of two by two pixels, in every layout the   *)
(* reader documents and in files that depart from it in one way; rasters   *)
(* of two tiles that are uploaded up to three times.                       *)
EXTENDS CogWindow

(* The fields of a header by the way its raster is stored. *)
Format(s) == CASE s = "u8" -> <<8, 1>> [] s = "i8" -> <<8, 2>> [] s = "f32" -> <<32, 3>>
               [] s = "i32" -> <<32, 2>>

Short(x) == [type |-> "SHORT", count |-> 1, value |-> x]

TilesOf(w, h) == Ceiling(w, Side) * Ceiling(h, Side)

Header(w, h, sample, predictor) ==
  [ImageWidth |-> [Short(w) EXCEPT !.type = "LONG"], ImageLength |-> Short(h),
   TileWidth |-> Short(Side), TileLength |-> Short(Side),
   BitsPerSample |-> Short(Format(sample)[1]), SampleFormat |-> Short(Format(sample)[2]),
   Compression |-> Short(8), Photometric |-> Short(1), SamplesPerPixel |-> Short(1),
   PlanarConfig |-> Short(1), Predictor |-> Short(predictor),
   Scale |-> [type |-> "DOUBLE", count |-> 3, value |-> 20, data |-> <<2, 2, 0>>],
   Tiepoint |-> [type |-> "DOUBLE", count |-> 6, value |-> 20,
                 data |-> <<1, 1, 0, 10, 18, 0>>]]

WithNodata(fields, number, bytes) ==
  [Nodata |-> [type |-> "ASCII", count |-> bytes, value |-> 20, data |-> number]] @@ fields

(* The n-th upload: tiles of different lengths, at other offsets than in   *)
(* another upload unless the header holds them; a byte after the stream of *)
(* every other tile.                                                       *)
Uploaded(w, h, n, moved) ==
  LET tiles == 0..(TilesOf(w, h) - 1)
      length(t) == 3 + ((t + (IF moved THEN n ELSE 0)) % 4) IN
  [pixels |-> [p \in (0..(w - 1)) \X (0..(h - 1)) |-> (p[1] + 5 * p[2] + 7 * n) % 16],
   offset |-> [t \in tiles |-> 100 + 10 * t + (IF moved THEN 3 * n ELSE 0)],
   length |-> [t \in tiles |-> length(t)],
   stream |-> [t \in tiles |-> length(t) - (t % 2)],
   broken |-> [t \in tiles |-> FALSE]]

(* The index: inline if it is one entry that fits. *)
WithIndex(fields, w, h, magic, offsets, counts) ==
  LET Entries(type, inline) ==
        LET n == TilesOf(w, h) IN
        [type |-> type, count |-> n,
         value |-> IF n = 1 /\ (type = "LONG" \/ magic = "big") THEN inline ELSE 30]
  IN [TileOffsets |-> Entries(offsets, 100), TileByteCounts |-> Entries(counts, 3)] @@ fields

File(fields, magic, uploads) ==
  [magic |-> magic, ifdEnd |-> 60, fields |-> fields, uploads |-> uploads]

One(w, h, fields, magic, offsets, counts) ==
  File(WithIndex(fields, w, h, magic, offsets, counts), magic, <<Uploaded(w, h, 0, FALSE)>>)

Layouts == {<<"u8", 1>>, <<"u8", 2>>, <<"i8", 1>>, <<"i8", 2>>, <<"f32", 1>>, <<"f32", 3>>,
            <<"i32", 1>>, <<"i32", 2>>}

(* A nodata that every sample type can hold; -7 is the byte 9. *)
Labelled(l, w, h) ==
  WithNodata(Header(w, h, l[1], l[2]), IF l[1] = "i8" THEN -7 ELSE 9, 2)

Large == Labelled(<<"u8", 2>>, 5, 3)

Overwritten(l) ==
  File(WithIndex(Labelled(l, 4, 1), 4, 1, "big", "LONG8", "LONG8"), "big",
       [n \in 1..3 |-> Uploaded(4, 1, n - 1, TRUE)])

(* Uploads that put chunks where the one before had chunks: the first tile *)
(* stays where it is, or both change places; the streams of the last are   *)
(* shorter.                                                                *)
Overlapping(l) ==
  LET At(n, first, second, stream) ==
        [Uploaded(4, 1, n, FALSE) EXCEPT !.offset = (0 :> first @@ 1 :> second),
           !.length = (0 :> stream @@ 1 :> stream), !.stream = (0 :> stream @@ 1 :> stream)]
  IN File(WithIndex(Labelled(l, 4, 1), 4, 1, "big", "LONG8", "LONG8"), "big",
          <<At(0, 100, 110, 4), At(1, 100, 120, 4), At(2, 120, 100, 3)>>)

Regular ==
  {One(d[1], d[2], Labelled(l, d[1], d[2]), "big", "LONG8", "LONG8") :
     l \in Layouts, d \in {<<5, 3>>, <<3, 4>>}}
  \cup {One(1, 2, Header(1, 2, "u8", 1), m, o, c) :
          m \in {"classic", "big"}, o \in {"LONG", "LONG8"}, c \in {"LONG", "LONG8"}}
  \cup {One(4, 2, Labelled(<<"f32", 1>>, 4, 2), "classic", "LONG", "LONG"),
        One(3, 3, Header(3, 3, "i32", 1), "big", "LONG8", "LONG"),
        Overwritten(<<"u8", 2>>), Overwritten(<<"f32", 3>>),
        Overlapping(<<"u8", 2>>)}

(* One departure each: two LONG counts in a BigTIFF header; chunks that    *)
(* are sparse, too large or broken; and a field that is missing, long,     *)
(* padded or of another value.                                             *)
Departing ==
  {One(4, 2, Labelled(<<"u8", 1>>, 4, 2), "big", "LONG8", "LONG"),
   One(5, 3, WithNodata(Large, Unset, 2), "big", "LONG8", "LONG8"),
   One(5, 3, WithNodata(Large, 9, 9), "big", "LONG8", "LONG8"),
   One(5, 3, Large, "other", "LONG8", "LONG8"),
   One(5, 3, Large, "big", "SHORT", "LONG8"),
   One(5, 3, [tag \in DOMAIN Large \ {"Predictor"} |-> Large[tag]], "big", "LONG8", "LONG8"),
   One(3, 4, Large, "big", "LONG8", "LONG8")}
  \cup {One(5, 3, [Large EXCEPT ![f[1]].value = f[2]], "big", "LONG8", "LONG8") :
          f \in {<<"TileWidth", 4>>, <<"Compression", 5>>, <<"Predictor", 3>>,
                 <<"SamplesPerPixel", 3>>, <<"ImageLength", 2^16>>, <<"ImageWidth", 0>>,
                 <<"SampleFormat", 3>>, <<"Scale", 200>>}}
  \cup {One(5, 3, [Large EXCEPT !.Scale.data = <<2, -2, 0>>], "big", "LONG8", "LONG8")}
  \cup {[One(5, 3, Large, "big", "LONG8", "LONG8") EXCEPT !.uploads[1].length[3] = n,
                                                            !.uploads[1].stream[3] = 0] :
          n \in {0, 9}}
  \cup {[One(5, 3, Large, "big", "LONG8", "LONG8") EXCEPT !.uploads[1].broken[3] = TRUE]}

SomeFiles == Regular \cup Departing

(* Around a raster whose corner is at <<8, 20>>, two units a pixel. *)
SomeBoxes ==
  {[west |-> x[1], east |-> x[2], south |-> y[1], north |-> y[2]] :
     x \in {<<3, 6>>, <<9, 9>>, <<10, 13>>, <<17, 21>>, <<3, 30>>},
     y \in {<<19, 19>>, <<13, 16>>, <<0, 30>>, <<23, 24>>}}
=============================================================================
