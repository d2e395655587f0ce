------------------------------- MODULE GgufFile -------------------------------
(***************************************************************************)
(* Model files (pictor-core/src/gguf): the writer, the reader of a whole   *)
(* file and the parser that is fed a file in chunks of any size.  Reader   *)
(* and parser share the numbers of the types and nothing else.             *)
(*                                                                         *)
(* A file is a sequence of bytes, a number in it little-endian; the value  *)
(* of a type is the number its bytes make (a float or a negative integer   *)
(* its bit pattern).  A string is a sequence of bytes; the whole key       *)
(* "general.alignment" stands for itself as one of them.  A release build: *)
(* arithmetic wraps.                                                       *)
(***************************************************************************)
EXTENDS Integers, Sequences, SequencesExt, Bitwise

CONSTANTS
    Origins,     \* of a file: [model, damage], a model to write as [metadata, tensors, alignment]
                 \* and a byte that is changed afterwards, [byte, to] or NoDamage
    ChunkSizes   \* of the chunks a file arrives in

VARIABLES
    origin,     \* a member of Origins
    file,       \* its bytes
    arrived,    \* how many of them were fed
    parser      \* GgufStreamParser, with the error of the last feed

ggufVars == <<origin, file, arrived, parser>>

NoDamage == [byte |-> 0, to |-> 0]
Huge == 2147483647         \* stands for every number from here on
NumberBytes(v, width) == [i \in 1 .. width |-> IF i > 4 THEN 0 ELSE (v \div 256 ^ (i - 1)) % 256]
Number(bytes) ==
    IF \E i \in DOMAIN bytes : bytes[i] > (IF i > 4 THEN 0 ELSE IF i = 4 THEN 127 ELSE 255) THEN Huge
    ELSE FoldRight(LAMBDA b, n : 256 * n + b, bytes, 0)

AlignmentKey == <<103>>
IsUtf8(s) == \A i \in DOMAIN s : s[i] < 128      \* no string here has longer characters
GGUF_MAGIC == 1179993927
DEFAULT_ALIGNMENT == 32
MAX_STRING_LEN == 256 * 1024 * 1024
MAX_ARRAY_COUNT == 16 * 1024 * 1024
MAX_TENSOR_DIMS == 1024

ElementCount(dims) == FoldLeft(LAMBDA n, d : n * d, 1, dims)
CeilDiv(n, d) == (n + d - 1) \div d
\* (offset + alignment - 1) & !(alignment - 1)
MaskUp(offset, alignment) ==
    IF alignment = 0 THEN 0
    ELSE LET last == offset + alignment - 1 IN last - (last & (alignment - 1))
-----------------------------------------------------------------------------
(* writer.rs                                                                 *)

\* GgufType as u32, of the kinds of values the writer offers.
WriteId == [Uint32 |-> 4, Int32 |-> 5, Float32 |-> 6, Bool |-> 7, String |-> 8, Array |-> 9,
            Uint64 |-> 10, Float64 |-> 12]
WriteWidth == [Uint32 |-> 4, Int32 |-> 4, Float32 |-> 4, Bool |-> 1, Uint64 |-> 8, Float64 |-> 8]

WriteString(s) == NumberBytes(Len(s), 8) \o s
WritePlain(type, v) == IF type = "String" THEN WriteString(v) ELSE NumberBytes(v, WriteWidth[type])

\* A value is [type, value], an array has the type of its elements in "of".
WriteValue(x) ==
    NumberBytes(WriteId[x.type], 4)
    \o (IF x.type = "Array"
        THEN NumberBytes(WriteId[x.of], 4) \o NumberBytes(Len(x.value), 8)
             \o FlattenSeq([i \in DOMAIN x.value |-> WritePlain(x.of, x.value[i])])
        ELSE WritePlain(x.type, x.value))

\* TensorType: its number, and the elements and bytes of a block.
WriteType == [F32 |-> <<0, 1, 4>>, F16 |-> <<1, 1, 2>>, Q4_0 |-> <<2, 32, 18>>, BF16 |-> <<30, 1, 2>>,
              Q8_0 |-> <<8, 32, 34>>, Q4_K |-> <<12, 256, 144>>, Q5_K |-> <<13, 256, 176>>,
              Q6_K |-> <<14, 256, 210>>, TQ2_0 |-> <<35, 256, 66>>, Q1_0_g128 |-> <<41, 128, 18>>,
              TQ2_0_g128 |-> <<42, 128, 34>>, F8_E4M3 |-> <<43, 32, 34>>, F8_E5M2 |-> <<44, 32, 34>>]
expected_bytes(t) == CeilDiv(ElementCount(t.shape), WriteType[t.type][2]) * WriteType[t.type][3]

\* The bytes of a tensor tell its name and their place, up to 251.
DataOf(t, size) == [i \in 1 .. size |-> (i + 7 * t.name[1]) % 251]

\* (mutant) The key is not added.
GivenMetadata(m) == m.metadata

\* The key is added for another alignment than the default, unless it is there.
EffectiveMetadata(m) ==
    IF m.alignment = DEFAULT_ALIGNMENT \/ \E i \in DOMAIN m.metadata : m.metadata[i].key = AlignmentKey
    THEN m.metadata
    ELSE <<[key |-> AlignmentKey, value |-> [type |-> "Uint32", value |-> m.alignment]]>> \o m.metadata

WriteTensorInfo(t, offset) ==
    WriteString(t.name) \o NumberBytes(Len(t.shape), 4)
    \o FlattenSeq([i \in DOMAIN t.shape |-> NumberBytes(t.shape[i], 8)])
    \o NumberBytes(WriteType[t.type][1], 4) \o NumberBytes(offset, 8)

pad_to_alignment(pos, alignment) ==
    IF alignment = 0 \/ pos % alignment = 0 THEN <<>>
    ELSE [i \in 1 .. alignment - (pos % alignment) |-> 0]

write(m) ==
    LET kv == EffectiveMetadata(m)
        DataOffset(k) == FoldLeft(LAMBDA n, t : n + expected_bytes(t), 0, SubSeq(m.tensors, 1, k - 1))
        head == NumberBytes(GGUF_MAGIC, 4) \o NumberBytes(3, 4)
                \o NumberBytes(Len(m.tensors), 8) \o NumberBytes(Len(kv), 8)
                \o FlattenSeq([i \in DOMAIN kv |-> WriteString(kv[i].key) \o WriteValue(kv[i].value)])
                \o FlattenSeq([k \in DOMAIN m.tensors |-> WriteTensorInfo(m.tensors[k], DataOffset(k))])
    IN  head \o pad_to_alignment(Len(head), m.alignment)
        \o FlattenSeq([k \in DOMAIN m.tensors |-> DataOf(m.tensors[k], m.tensors[k].bytes)])

\* WriteError::DataSizeMismatch otherwise.
Writable(m) == \A k \in DOMAIN m.tensors : m.tensors[k].bytes = expected_bytes(m.tensors[k])
-----------------------------------------------------------------------------
(* types.rs: what both readers take the numbers in a file for.               *)

GgufValueType == [i \in 0 .. 12 |->
    <<"Uint8", "Int8", "Uint16", "Int16", "Uint32", "Int32", "Float32", "Bool", "String", "Array",
      "Uint64", "Int64", "Float64">>[i + 1]]

\* GgufTensorType: its name, and the elements and bytes of a block.
GgufTensorType(id) ==
    CASE id = 0 -> <<"F32", 1, 4>>      [] id = 1 -> <<"F16", 1, 2>>      [] id = 2 -> <<"Q4_0", 32, 18>>
      [] id = 3 -> <<"Q4_1", 32, 20>>   [] id = 6 -> <<"Q5_0", 32, 22>>   [] id = 7 -> <<"Q5_1", 32, 24>>
      [] id = 8 -> <<"Q8_0", 32, 34>>   [] id = 9 -> <<"Q8_1", 32, 40>>   [] id = 10 -> <<"Q2_K", 256, 84>>
      [] id = 11 -> <<"Q3_K", 256, 110>> [] id = 12 -> <<"Q4_K", 256, 144>>
      [] id = 13 -> <<"Q5_K", 256, 176>> [] id = 14 -> <<"Q6_K", 256, 210>>
      [] id = 15 -> <<"Q8_K", 256, 292>> [] id = 30 -> <<"BF16", 1, 2>>
      [] id = 35 -> <<"TQ2_0", 256, 66>> [] id = 41 -> <<"Q1_0_g128", 128, 18>>
      [] id = 42 -> <<"TQ2_0_g128", 128, 34>> [] id = 43 -> <<"F8_E4M3", 32, 34>>
      [] id = 44 -> <<"F8_E5M2", 32, 34>> [] OTHER -> <<>>
-----------------------------------------------------------------------------
(* The reader of a whole file: a cursor over all of its bytes.  A result is  *)
(* a value with the position after it, or what was wrong.                    *)

Read(v, p) == [is |-> "ok", value |-> v, at |-> p]
Eof == [is |-> "eof"]
Bad == [is |-> "invalid"]
AndThen(r, F(_, _)) == IF r.is = "ok" THEN F(r.value, r.at) ELSE r

ReadLe(f, p, width) ==
    IF p + width > Len(f) THEN Eof ELSE Read(Number(SubSeq(f, p + 1, p + width)), p + width)

read_gguf_string(f, p) ==
    AndThen(ReadLe(f, p, 8), LAMBDA n, q :
        IF n > MAX_STRING_LEN THEN Bad
        ELSE IF q + n > Len(f) THEN Eof
        ELSE LET s == SubSeq(f, q + 1, q + n) IN IF IsUtf8(s) THEN Read(s, q + n) ELSE Bad)

ReadWidth == [Uint8 |-> 1, Int8 |-> 1, Uint16 |-> 2, Int16 |-> 2, Uint32 |-> 4, Int32 |-> 4,
              Float32 |-> 4, Uint64 |-> 8, Int64 |-> 8, Float64 |-> 8]

RECURSIVE read_value(_, _, _), ReadValues(_, _, _, _)
read_value(f, p, type) ==
    CASE type = "Bool" -> AndThen(ReadLe(f, p, 1), LAMBDA b, q : Read([type |-> type, value |-> b # 0], q))
      [] type = "String" -> AndThen(read_gguf_string(f, p), LAMBDA s, q : Read([type |-> type, value |-> s], q))
      [] type = "Array" ->
            AndThen(ReadLe(f, p, 4), LAMBDA id, q :
                IF id \notin DOMAIN GgufValueType THEN Bad
                ELSE AndThen(ReadLe(f, q, 8), LAMBDA n, s :
                         IF n > MAX_ARRAY_COUNT THEN Bad
                         ELSE AndThen(ReadValues(f, s, GgufValueType[id], n), LAMBDA vs, e :
                                  Read([type |-> type, value |-> vs], e))))
      [] OTHER -> AndThen(ReadLe(f, p, ReadWidth[type]), LAMBDA v, q : Read([type |-> type, value |-> v], q))
ReadValues(f, p, type, n) ==
    IF n = 0 THEN Read(<<>>, p)
    ELSE AndThen(read_value(f, p, type), LAMBDA v, q :
             AndThen(ReadValues(f, q, type, n - 1), LAMBDA vs, e : Read(<<v>> \o vs, e)))

read_kv_pair(f, p) ==
    AndThen(read_gguf_string(f, p), LAMBDA key, q :
        AndThen(ReadLe(f, q, 4), LAMBDA id, s :
            IF id \notin DOMAIN GgufValueType THEN Bad
            ELSE AndThen(read_value(f, s, GgufValueType[id]), LAMBDA v, e : Read([key |-> key, value |-> v], e))))

\* MetadataStore: of two entries with one key the later stays.
RECURSIVE MetadataStore(_, _, _, _)
MetadataStore(store, f, p, count) ==
    IF count = 0 THEN Read(store, p)
    ELSE AndThen(read_kv_pair(f, p), LAMBDA kv, q :
             MetadataStore((kv.key :> kv.value) @@ store, f, q, count - 1))

RECURSIVE ReadDims(_, _, _)
ReadDims(f, p, n) ==
    IF n = 0 THEN Read(<<>>, p)
    ELSE AndThen(ReadLe(f, p, 8), LAMBDA d, q :
             AndThen(ReadDims(f, q, n - 1), LAMBDA ds, e : Read(<<d>> \o ds, e)))

read_tensor_info(f, p) ==
    AndThen(read_gguf_string(f, p), LAMBDA name, q :
        AndThen(ReadLe(f, q, 4), LAMBDA n_dims, s :
            IF n_dims > MAX_TENSOR_DIMS THEN Bad
            ELSE AndThen(ReadDims(f, s, n_dims), LAMBDA shape, d :
                     AndThen(ReadLe(f, d, 4), LAMBDA id, t :
                         IF GgufTensorType(id) = <<>> THEN Bad
                         ELSE AndThen(ReadLe(f, t, 8), LAMBDA offset, e :
                                  Read([name |-> name, shape |-> shape, type |-> GgufTensorType(id),
                                        offset |-> offset], e))))))

RECURSIVE TensorStore(_, _, _, _)
TensorStore(store, f, p, count) ==
    IF count = 0 THEN Read(store, p)
    ELSE AndThen(read_tensor_info(f, p), LAMBDA t, q :
             TensorStore((t.name :> t) @@ store, f, q, count - 1))

\* GgufHeader::parse: [tensors, metadata], the numbers of each.
ReadHeader(f) ==
    AndThen(ReadLe(f, 0, 4), LAMBDA magic, p :
        IF magic # GGUF_MAGIC THEN Bad
        ELSE AndThen(ReadLe(f, p, 4), LAMBDA version, q :
                 IF version \notin {2, 3} THEN Bad
                 ELSE AndThen(ReadLe(f, q, 8), LAMBDA tensors, s :
                          AndThen(ReadLe(f, s, 8), LAMBDA metadata, e :
                              Read([tensors |-> tensors, metadata |-> metadata], e)))))

\* as_u32: also of a u64 or of an i32 that fits.
AlignmentOf(metadata) ==
    IF AlignmentKey \in DOMAIN metadata /\ metadata[AlignmentKey].type \in {"Uint32", "Uint64", "Int32"}
    THEN metadata[AlignmentKey].value ELSE DEFAULT_ALIGNMENT

parse(f) ==
    AndThen(ReadHeader(f), LAMBDA header, p :
        AndThen(MetadataStore(<<>>, f, p, header.metadata), LAMBDA metadata, q :
            AndThen(TensorStore(<<>>, f, q, header.tensors), LAMBDA tensors, e :
                Read([metadata |-> metadata, tensors |-> tensors,
                      data_offset |-> MaskUp(e, AlignmentOf(metadata))], e))))

data_size(t) == CeilDiv(ElementCount(t.shape), t.type[2]) * t.type[3]

\* Of the file whole was parsed from; an error when the file ends before.
tensor_data(f, whole, name) ==
    LET start == whole.data_offset + whole.tensors[name].offset
        end == start + data_size(whole.tensors[name])
    IN  IF end > Len(f) THEN Eof ELSE Read(SubSeq(f, start + 1, end), end)
-----------------------------------------------------------------------------
(* streaming.rs: the parser.  What has arrived of the next entry stays in    *)
(* the buffer until all of it is there, and is read again from its start.    *)

Waits == [is |-> "none"]

try_read_gguf_string(buf, at) ==
    IF at + 8 > Len(buf) THEN Waits
    ELSE LET len == Number(SubSeq(buf, at + 1, at + 8))
             str_end == at + 8 + len
         IN  IF len > MAX_STRING_LEN THEN Bad
             ELSE IF str_end > Len(buf) THEN Waits
             ELSE IF IsUtf8(SubSeq(buf, at + 9, str_end)) THEN Read(SubSeq(buf, at + 9, str_end), str_end)
             ELSE Bad

TryWidth == [Uint8 |-> 1, Int8 |-> 1, Uint16 |-> 2, Int16 |-> 2, Uint32 |-> 4, Int32 |-> 4,
             Float32 |-> 4, Bool |-> 1, Uint64 |-> 8, Int64 |-> 8, Float64 |-> 8]

RECURSIVE try_read_value(_, _, _), TryElements(_, _, _, _)
try_read_value(buf, at, type) ==
    CASE type = "String" ->
            AndThen(try_read_gguf_string(buf, at), LAMBDA s, e : Read([type |-> type, value |-> s], e))
      [] type = "Array" ->
            IF at + 12 > Len(buf) THEN Waits
            ELSE LET id == Number(SubSeq(buf, at + 1, at + 4))
                     count == Number(SubSeq(buf, at + 5, at + 12))
                 IN  IF id \notin DOMAIN GgufValueType \/ count > MAX_ARRAY_COUNT THEN Bad
                     ELSE AndThen(TryElements(buf, at + 12, GgufValueType[id], count), LAMBDA vs, e :
                              Read([type |-> type, value |-> vs], e))
      [] OTHER ->
            IF at + TryWidth[type] > Len(buf) THEN Waits
            ELSE LET v == Number(SubSeq(buf, at + 1, at + TryWidth[type]))
                 IN  Read([type |-> type, value |-> IF type = "Bool" THEN v # 0 ELSE v], at + TryWidth[type])
TryElements(buf, at, type, count) ==
    IF count = 0 THEN Read(<<>>, at)
    ELSE AndThen(try_read_value(buf, at, type), LAMBDA v, q :
             AndThen(TryElements(buf, q, type, count - 1), LAMBDA vs, e : Read(<<v>> \o vs, e)))

NewParser ==
    [stage |-> "header", remaining |-> 0, buffer |-> <<>>, metadata |-> <<>>, tensors |-> <<>>,
     data_offset |-> 0, consumed |-> 0, total_tensors |-> 0, failed |-> FALSE]

\* (mutant) The bytes are dropped and not counted.
DrainUncounted(s, n) == [s EXCEPT !.buffer = SubSeq(s.buffer, n + 1, Len(s.buffer))]

\* Count the first n bytes of the buffer as consumed and drop them.
Drain(s, n) == [s EXCEPT !.buffer = SubSeq(s.buffer, n + 1, Len(s.buffer)), !.consumed = @ + n]

\* Each try gives the next state of the parser, "none" to wait, or an error.
try_parse_header(s) ==
    IF Len(s.buffer) < 24 THEN Waits
    ELSE IF \/ Number(SubSeq(s.buffer, 1, 4)) # GGUF_MAGIC
            \/ Number(SubSeq(s.buffer, 5, 8)) \notin {2, 3} THEN Bad
    ELSE Read([Drain(s, 24) EXCEPT !.stage = "metadata",
                                   !.remaining = Number(SubSeq(s.buffer, 17, 24)),
                                   !.total_tensors = Number(SubSeq(s.buffer, 9, 16))], 24)

try_parse_one_metadata(s) ==
    AndThen(try_read_gguf_string(s.buffer, 0), LAMBDA key, p :
        IF p + 4 > Len(s.buffer) THEN Waits
        ELSE LET id == Number(SubSeq(s.buffer, p + 1, p + 4))
             IN  IF id \notin DOMAIN GgufValueType THEN Bad
                 ELSE AndThen(try_read_value(s.buffer, p + 4, GgufValueType[id]), LAMBDA v, e :
                          Read([Drain(s, e) EXCEPT !.metadata = Append(@, [key |-> key, value |-> v]),
                                                   !.remaining = @ - 1], e)))

\* Up to four dimensions are kept; the others are passed over.
TensorFrom(s, name, n_dims, p) ==
    LET after == p + 8 * n_dims
        U64(at) == Number(SubSeq(s.buffer, at + 1, at + 8))
        id == Number(SubSeq(s.buffer, after + 1, after + 4))
    IN  IF after + 4 > Len(s.buffer) THEN Waits      \* the two checks on the way here
        ELSE IF GgufTensorType(id) = <<>> THEN Bad
        ELSE IF after + 12 > Len(s.buffer) THEN Waits
        ELSE Read([name |-> name, n_dims |-> n_dims, type |-> GgufTensorType(id), offset |-> U64(after + 4),
                   dims |-> [i \in 1 .. 4 |-> IF i <= n_dims THEN U64(p + 8 * (i - 1)) ELSE 0]], after + 12)

try_parse_one_tensor_info(s) ==
    AndThen(try_read_gguf_string(s.buffer, 0), LAMBDA name, p :
        IF p + 4 > Len(s.buffer) THEN Waits
        ELSE LET n_dims == Number(SubSeq(s.buffer, p + 1, p + 4))
             IN  IF n_dims > MAX_TENSOR_DIMS THEN Bad
                 ELSE AndThen(TensorFrom(s, name, n_dims, p + 4), LAMBDA t, e :
                          Read([Drain(s, e) EXCEPT !.tensors = Append(@, t), !.remaining = @ - 1], e)))

\* The first entry with the key counts, and only if it is a u32.
finalize(s) ==
    LET found == SelectSeq(s.metadata, LAMBDA kv : kv.key = AlignmentKey)
        alignment == IF found # <<>> /\ Head(found).value.type = "Uint32"
                     THEN Head(found).value.value ELSE DEFAULT_ALIGNMENT
    IN  [s EXCEPT !.data_offset = MaskUp(s.consumed, alignment), !.stage = "data"]

\* The loop of feed, until it breaks or an error leaves it.
RECURSIVE Progress(_)
Continue(s, try) ==
    IF try.is = "ok" THEN Progress(try.value) ELSE [s EXCEPT !.failed = try.is = "invalid"]
Progress(s) ==
    CASE s.stage = "header" -> Continue(s, try_parse_header(s))
      [] s.stage = "metadata" /\ s.remaining = 0 ->
            Progress([s EXCEPT !.stage = "tensor info", !.remaining = s.total_tensors])
      [] s.stage = "metadata" -> Continue(s, try_parse_one_metadata(s))
      [] s.stage = "tensor info" /\ s.remaining = 0 -> finalize(s)
      [] s.stage = "tensor info" -> Continue(s, try_parse_one_tensor_info(s))
      [] OTHER -> s

feed(s, data) == Progress([s EXCEPT !.buffer = @ \o data, !.failed = FALSE])
-----------------------------------------------------------------------------
\* The file that is read: one of its bytes is changed, or none.
Damaged(f, d) == IF d = NoDamage THEN f ELSE [f EXCEPT ![d.byte] = d.to]

GgufInit ==
    /\ origin \in {o \in Origins : Writable(o.model)}
    /\ file = Damaged(write(origin.model), origin.damage)
    /\ arrived = 0 /\ parser = NewParser

\* The next chunk, the last one as long as what is left.
Feed(n) ==
    /\ arrived < Len(file)
    /\ LET upto == IF arrived + n > Len(file) THEN Len(file) ELSE arrived + n
       IN  /\ parser' = feed(parser, SubSeq(file, arrived + 1, upto))
           /\ arrived' = upto
    /\ UNCHANGED <<origin, file>>

GgufNext == \E n \in ChunkSizes : Feed(n)
-----------------------------------------------------------------------------
IsComplete == parser.stage = "data"

\* The two readers find the alignment in different places unless the key is
\* there once at most, and then as a u32.
OneAlignment(metadata) ==
    \A i, j \in DOMAIN metadata :
        metadata[i].key = AlignmentKey /\ metadata[j].key = AlignmentKey
            => i = j /\ metadata[i].value.type = "Uint32"

\* What the parser made of its chunks is what the reader makes of all bytes in
\* one piece; a later entry stands for an earlier one of the same name.
LikeWholeFile(whole) ==
    /\ \A i \in DOMAIN parser.metadata :
          \/ whole.metadata[parser.metadata[i].key] = parser.metadata[i].value
          \/ \E j \in i + 1 .. Len(parser.metadata) : parser.metadata[j].key = parser.metadata[i].key
    /\ \A i \in DOMAIN parser.tensors :
          LET t == parser.tensors[i]
              u == whole.tensors[t.name]
          IN  \/ /\ u.type = t.type /\ u.offset = t.offset /\ Len(u.shape) = t.n_dims
                 /\ \A k \in 1 .. 4 : t.dims[k] = IF k <= Len(u.shape) THEN u.shape[k] ELSE 0
              \/ \E j \in i + 1 .. Len(parser.tensors) : parser.tensors[j].name = t.name
    /\ DOMAIN whole.metadata = {parser.metadata[i].key : i \in DOMAIN parser.metadata}
    /\ DOMAIN whole.tensors = {parser.tensors[i].name : i \in DOMAIN parser.tensors}
    /\ OneAlignment(parser.metadata) => whole.data_offset = parser.data_offset

\* And both are what was written.
LikeModel(whole) ==
    /\ parser.metadata = [i \in DOMAIN EffectiveMetadata(origin.model) |->
                             LET kv == EffectiveMetadata(origin.model)[i]
                             IN  [kv EXCEPT !.value = [type |-> @.type, value |->
                                     IF @.type = "Array"
                                     THEN [e \in DOMAIN @.value |-> [type |-> @.of, value |-> @.value[e]]]
                                     ELSE IF @.type = "Bool" THEN @.value # 0 ELSE @.value]]]
    /\ \A k \in DOMAIN origin.model.tensors :
          LET t == origin.model.tensors[k]
              found == tensor_data(file, whole, t.name)
          IN  /\ whole.tensors[t.name].shape = t.shape /\ whole.tensors[t.name].type[1] = t.type
              /\ found.is = "ok" /\ found.value = DataOf(t, t.bytes)

\* However a file is cut into chunks, the streaming parser is complete exactly
\* from the byte on at which the whole-file reader accepts what has arrived,
\* with the same content, and reports an error only for a file the reader
\* refuses too, not one that merely ends; an undamaged file gives back the
\* metadata and the data of every tensor that the writer was given
\* (streaming.rs feed against reader.rs parse and tensor_data, writer.rs write).
FilesReadAsWritten ==
    LET whole == parse(SubSeq(file, 1, arrived))
    IN  /\ IsComplete <=> whole.is = "ok"
        /\ parser.failed => whole.is = "invalid"
        /\ IsComplete => LikeWholeFile(whole.value)
        /\ origin.damage = NoDamage /\ arrived = Len(file) => IsComplete /\ LikeModel(whole.value)
=============================================================================
