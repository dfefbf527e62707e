------------------------------- MODULE Codec -------------------------------
(***************************************************************************)
(* The on-disk format byte by byte: codec.rs, and the loop of Store::open  *)
(* that reads the log back.  Module Store takes the bytes of a batch for   *)
(* one segment; here every field has its bytes, a crash leaves any prefix  *)
(* of a batch, and a payload may hold any bytes, those of a batch header   *)
(* among them.                                                             *)
(*                                                                         *)
(* The widths and the number base are scaled down.  A byte is <<d>>, with  *)
(* d a digit in 0..Base-1; a CRC32 is one cell that holds what it was      *)
(* computed from, so that two inputs never collide.                        *)
(***************************************************************************)
EXTENDS Integers, Sequences, SequencesExt

CONSTANTS
  Base,               \* 256 in the code
  Width,              \* bytes of each field: see Fields
  MAX_EVENT_TYPE_LEN, MAX_EVENT_SIZE,
  Proposals,          \* what append may be given: a stream and its events
  MaxAppends,         \* bound: appends that begin to write
  MaxMishaps          \* bound: bytes that go bad, appends that fail half way

Fields == {"magic", "version", "count", "position", "time", "uuid", "type_len",
           "len"}
Digits == 0..(Base - 1)

ASSUME BaseAssumption == Base \in Nat /\ Base > 3
ASSUME WidthAssumption == Width \in [Fields -> Nat \ {0}] /\ Width.magic > 1

(***************************************************************************)
(* What append accepts fits the casts of encode_record: a type length in   *)
(* its u16 (256 < 2^16), a body length in its u32 (64 KiB < 2^32).         *)
(***************************************************************************)
ASSUME CastAssumption ==
  MAX_EVENT_TYPE_LEN < Base^Width.type_len /\ MAX_EVENT_SIZE < Base^Width.len

(* x in the bytes of w, least significant first; higher digits are cut off. *)
to_le_bytes(x, w) == [i \in 1..Width[w] |-> <<(x \div Base^(i - 1)) % Base>>]

(* A checksum read as a number gives an arbitrary digit: 0.                *)
from_le_bytes(b) ==
  LET value[i \in 0..Len(b)] ==
        IF i = 0 THEN 0 ELSE value[i - 1] + (b[i][1] % Base) * Base^(i - 1)
  IN value[Len(b)]

(* Variant: the checksum of no bytes, whatever the bytes.                  *)
crc32OfNothing(b) == <<<<Base>>>>

(* Collision-free, and never equal to a byte.                              *)
crc32(b) == <<<<Base>> \o b>>
CrcSize == 1

Zeros(n) == [i \in 1..n |-> <<0>>]
MAGIC == Zeros(Width.magic - 1) \o <<<<1>>>>
BATCH_HEADER_MAGIC == Zeros(Width.magic - 1) \o <<<<2>>>>
BATCH_FOOTER_MAGIC == Zeros(Width.magic - 1) \o <<<<3>>>>
FORMAT_VERSION == 3

(* DecodeOutcome, and the errors that take its place.                      *)
Complete(v, n) == [is |-> "Complete", value |-> v, consumed |-> n]
Incomplete == [is |-> "Incomplete"]
CorruptRecord == [is |-> "CorruptRecord"]

(* What follows a decoder that may not have completed: ? and match.        *)
AndThen(outcome, F(_)) == IF outcome.is = "Complete" THEN F(outcome) ELSE outcome

From(b, offset) == SubSeq(b, offset + 1, Len(b))
Slice(b, offset, n) == SubSeq(b, offset + 1, offset + n)
Number(b, offset, w) == from_le_bytes(Slice(b, offset, Width[w]))

-----------------------------------------------------------------------------
(* The file header.                                                        *)

HEADER_SIZE == Width.magic + Width.version

encode_header == MAGIC \o to_le_bytes(FORMAT_VERSION, "version")

decode_header(b) ==
  /\ Slice(b, 0, Width.magic) = MAGIC
  /\ Number(b, Width.magic, "version") = FORMAT_VERSION

-----------------------------------------------------------------------------
(* A record: length prefix, body, checksum of the body.                    *)

LENGTH_PREFIX_SIZE == Width.len

(* Bytes before event_type_len: position, time, stream, version, event.    *)
TypeLenAt == 2 * Width.position + Width.time + 2 * Width.uuid

FIXED_BODY_SIZE == TypeLenAt + Width.type_len + 2 * Width.len + CrcSize

(* Variant: the metadata is written before its length.                     *)
encode_bodySwapped(e) ==
  to_le_bytes(e.global_position, "position") \o to_le_bytes(e.recorded_at, "time")
  \o to_le_bytes(e.stream_id, "uuid") \o to_le_bytes(e.stream_version, "position")
  \o to_le_bytes(e.event_id, "uuid")
  \o to_le_bytes(Len(e.event_type), "type_len") \o e.event_type
  \o e.metadata \o to_le_bytes(Len(e.metadata), "len")
  \o to_le_bytes(Len(e.payload), "len") \o e.payload

encode_body(e) ==
  to_le_bytes(e.global_position, "position") \o to_le_bytes(e.recorded_at, "time")
  \o to_le_bytes(e.stream_id, "uuid") \o to_le_bytes(e.stream_version, "position")
  \o to_le_bytes(e.event_id, "uuid")
  \o to_le_bytes(Len(e.event_type), "type_len") \o e.event_type
  \o to_le_bytes(Len(e.metadata), "len") \o e.metadata
  \o to_le_bytes(Len(e.payload), "len") \o e.payload

encode_record(e) ==
  LET body_len == FIXED_BODY_SIZE + Len(e.event_type) + Len(e.metadata)
                  + Len(e.payload)
  IN to_le_bytes(body_len, "len") \o encode_body(e) \o crc32(encode_body(e))

(* str::from_utf8: the largest digit stands for a byte no string has.      *)
Utf8(b) == \A i \in 1..Len(b) : b[i] # <<Base - 1>>

(* A length at this offset, and so many bytes behind it: read_bytes! twice. *)
read_bytes(p, at, w, F(_, _)) ==
  LET start == at + Width[w]
  IN IF start <= Len(p) /\ start + Number(p, at, w) <= Len(p)
     THEN F(Slice(p, start, Number(p, at, w)), start + Number(p, at, w))
     ELSE CorruptRecord

(* The fields of a body whose checksum matched; bytes behind the payload   *)
(* are ignored.                                                            *)
decode_body(p, total) ==
  read_bytes(p, TypeLenAt, "type_len", LAMBDA event_type, metaAt :
    IF ~Utf8(event_type) THEN CorruptRecord
    ELSE read_bytes(p, metaAt, "len", LAMBDA metadata, payAt :
           read_bytes(p, payAt, "len", LAMBDA payload, end :
             Complete(
               [global_position |-> Number(p, 0, "position"),
                recorded_at |-> Number(p, Width.position, "time"),
                stream_id |-> Number(p, Width.position + Width.time, "uuid"),
                stream_version |->
                  Number(p, Width.position + Width.time + Width.uuid, "position"),
                event_id |-> Number(p, TypeLenAt - Width.uuid, "uuid"),
                event_type |-> event_type,
                metadata |-> metadata,
                payload |-> payload], total))))

decode_record(b) ==
  LET total == LENGTH_PREFIX_SIZE + Number(b, 0, "len")
      crcAt == total - CrcSize
      protected == Slice(b, LENGTH_PREFIX_SIZE, crcAt - LENGTH_PREFIX_SIZE)
  IN IF Len(b) < LENGTH_PREFIX_SIZE \/ Len(b) < total THEN Incomplete
     ELSE IF \/ crcAt < LENGTH_PREFIX_SIZE
             \/ Slice(b, crcAt, CrcSize) # crc32(protected)
          THEN CorruptRecord
          ELSE decode_body(protected, total)

-----------------------------------------------------------------------------
(* The envelope of a batch.                                                *)

BATCH_HEADER_SIZE == Width.magic + Width.count + Width.position
BATCH_FOOTER_SIZE == Width.magic + CrcSize

(* Variant: the position is written where the count belongs.               *)
encode_batch_headerSwapped(count, first) ==
  BATCH_HEADER_MAGIC \o to_le_bytes(first, "position") \o to_le_bytes(count, "count")

encode_batch_header(count, first) ==
  BATCH_HEADER_MAGIC \o to_le_bytes(count, "count") \o to_le_bytes(first, "position")

decode_batch_header(b) ==
  IF Len(b) < BATCH_HEADER_SIZE THEN Incomplete
  ELSE IF Slice(b, 0, Width.magic) # BATCH_HEADER_MAGIC THEN CorruptRecord
  ELSE Complete(
         [record_count |-> Number(b, Width.magic, "count"),
          first_global_pos |-> Number(b, Width.magic + Width.count, "position")],
         BATCH_HEADER_SIZE)

encode_batch_footer(crc) == BATCH_FOOTER_MAGIC \o crc

(* Variant: a footer that ends the file counts as cut short.               *)
decode_batch_footerShort(b) ==
  IF Len(b) <= BATCH_FOOTER_SIZE THEN Incomplete
  ELSE IF Slice(b, 0, Width.magic) # BATCH_FOOTER_MAGIC THEN CorruptRecord
  ELSE Complete(Slice(b, Width.magic, CrcSize), BATCH_FOOTER_SIZE)

decode_batch_footer(b) ==
  IF Len(b) < BATCH_FOOTER_SIZE THEN Incomplete
  ELSE IF Slice(b, 0, Width.magic) # BATCH_FOOTER_MAGIC THEN CorruptRecord
  ELSE Complete(Slice(b, Width.magic, CrcSize), BATCH_FOOTER_SIZE)

(* Store::append: header, records, footer in one buffer.                   *)
encode_batch(recorded, first) ==
  LET covered == encode_batch_header(Len(recorded), first)
                 \o FlattenSeq([k \in 1..Len(recorded) |->
                                  encode_record(recorded[k])])
  IN covered \o encode_batch_footer(crc32(covered))

-----------------------------------------------------------------------------
(* Store::open: the recovery loop over the bytes of the file.              *)

has_valid_batch_after(data, start) ==
  \E probe \in (start + 1)..(Len(data) - 1) :
     decode_batch_header(From(data, probe)).is = "Complete"

RECURSIVE decode_records(_, _, _)
decode_records(data, offset, count) ==
  IF count = 0 THEN Complete(<<>>, offset)
  ELSE AndThen(decode_record(From(data, offset)), LAMBDA r :
         AndThen(decode_records(data, offset + r.consumed, count - 1),
                 LAMBDA rest : Complete(<<r.value>> \o rest.value, rest.consumed)))

(* Steps 2 to 4 of a turn of the loop: the records and the footer of the   *)
(* batch at start.                                                         *)
decode_content(data, start, count) ==
  AndThen(decode_records(data, start + BATCH_HEADER_SIZE, count), LAMBDA records :
    AndThen(decode_batch_footer(From(data, records.consumed)), LAMBDA footer :
      IF footer.value = crc32(Slice(data, start, records.consumed - start))
      THEN Complete(records.value, records.consumed + BATCH_FOOTER_SIZE)
      ELSE Incomplete))

(* Steps 1 to 4; consumed is where the batch ends.  Behind a good header,  *)
(* whatever is wrong cuts the log.                                         *)
decode_batch(data, start) ==
  AndThen(decode_batch_header(From(data, start)), LAMBDA header :
    LET content == decode_content(data, start, header.value.record_count)
    IN IF content.is = "Complete" THEN content ELSE Incomplete)

Opened(answer, evs, length) ==
  [answer |-> answer, events |-> evs, length |-> length]

(* Step 5, and what ends the loop: the end of the file, a refusal, a cut.  *)
RECURSIVE recover_from(_, _, _)
recover_from(data, offset, evs) ==
  IF offset = Len(data) THEN Opened("ok", evs, offset)
  ELSE LET b == decode_batch(data, offset)
       IN IF b.is = "Complete" THEN recover_from(data, b.consumed, evs \o b.value)
          ELSE IF b.is = "CorruptRecord" /\ has_valid_batch_after(data, offset)
          THEN Opened("CorruptRecord", <<>>, Len(data))
          ELSE Opened("ok", evs, offset)

recover(data) ==
  IF Len(data) < HEADER_SIZE \/ ~decode_header(data)
  THEN Opened("InvalidHeader", <<>>, Len(data))
  ELSE recover_from(data, HEADER_SIZE, <<>>)

(* The counts handed to Vec::with_capacity on the way, in this order.      *)
RECURSIVE reservations(_, _)
reservations(data, offset) ==
  LET header == decode_batch_header(From(data, offset))
      b == decode_batch(data, offset)
  IN IF offset >= Len(data) \/ header.is # "Complete" THEN <<>>
     ELSE <<header.value.record_count>>
          \o IF b.is = "Complete" THEN reservations(data, b.consumed) ELSE <<>>

-----------------------------------------------------------------------------
(* A store over these bytes.                                               *)

VARIABLES
  up,        \* a process has the log open
  file,      \* the bytes of the log
  events,    \* EventLog.events
  opened,    \* what the last open answered
  reserved,  \* the capacities the last open reserved
  written,   \* history: the batches that were completely written, each with
             \*          the length of the file behind it, and whether the
             \*          process that has the log open knows of it
  failed,    \* history: since the log was opened, an append failed and left
             \*          bytes behind
  bad,       \* history: the bytes that went bad
  mishaps,   \* counter for the bound
  appends    \* counter for the bound

vars == <<up, file, events, opened, reserved, written, failed, bad, mishaps, appends>>

(* The log was created, or the process died on the way to that.            *)
Init ==
  /\ events = <<>> /\ written = <<>> /\ reserved = <<>>
  /\ failed = FALSE /\ bad = {} /\ mishaps = 0 /\ appends = 0
  /\ \/ up = TRUE /\ file = encode_header /\ opened = "ok"
     \/ /\ up = FALSE /\ opened = "none"
        /\ \E n \in 0..(HEADER_SIZE - 1) : file = SubSeq(encode_header, 1, n)

(* append, step 2: the positions and the time stamp are the server's.      *)
Recorded(p) ==
  LET version == Len(SelectSeq(events, LAMBDA e : e.stream_id = p.stream_id))
  IN [k \in 1..Len(p.events) |->
        [global_position |-> Len(events) + k - 1,
         recorded_at |-> 1,
         stream_id |-> p.stream_id,
         stream_version |-> version + k - 1,
         event_id |-> p.events[k].event_id,
         event_type |-> p.events[k].event_type,
         metadata |-> p.events[k].metadata,
         payload |-> p.events[k].payload]]

Accepted(p) ==
  \A k \in 1..Len(p.events) :
     /\ Len(p.events[k].event_type) \in 1..MAX_EVENT_TYPE_LEN
     /\ Len(encode_record(Recorded(p)[k])) <= MAX_EVENT_SIZE

(* append gets n bytes of the envelope into the file; it knows of the      *)
(* batch if it goes on to the index.                                       *)
Wrote(p, n, known) ==
  LET envelope == encode_batch(Recorded(p), Len(events))
  IN /\ up
     /\ appends < MaxAppends
     /\ appends' = appends + 1
     /\ Accepted(p)
     /\ n \in 0..Len(envelope)
     /\ file' = file \o SubSeq(envelope, 1, n)
     /\ written' = IF n = Len(envelope)
                   THEN Append(written, [events |-> Recorded(p),
                                         end |-> Len(file'),
                                         known |-> known])
                   ELSE written
     /\ UNCHANGED <<opened, reserved, bad>>

EnvelopeSize(p) == Len(encode_batch(Recorded(p), Len(events)))

AppendSucceeds(p) ==
  /\ Wrote(p, EnvelopeSize(p), TRUE)
  /\ events' = events \o Recorded(p)
  /\ UNCHANGED <<up, failed, mishaps>>

(* write_all fails half way, or sync_all behind the last byte; the process *)
(* goes on, and writes behind what is there.                               *)
AppendFails(p, n) ==
  /\ mishaps < MaxMishaps
  /\ mishaps' = mishaps + 1
  /\ n > 0
  /\ Wrote(p, n, FALSE)
  /\ failed' = TRUE
  /\ UNCHANGED <<up, events>>

(* The process dies while it writes, or before it answers.                 *)
AppendCrashes(p, n) ==
  /\ Wrote(p, n, FALSE)
  /\ up' = FALSE /\ events' = <<>>
  /\ UNCHANGED <<failed, mishaps>>

Stop ==
  /\ up /\ up' = FALSE
  /\ events' = <<>>
  /\ UNCHANGED <<file, opened, reserved, written, failed, bad, mishaps, appends>>

Damage(i, d) ==
  /\ ~up
  /\ mishaps < MaxMishaps
  /\ mishaps' = mishaps + 1
  /\ file[i] # <<d>>
  /\ file' = [file EXCEPT ![i] = <<d>>]
  /\ bad' = bad \cup {i}
  /\ UNCHANGED <<up, events, opened, reserved, written, failed, appends>>

(* set_len cuts the file at the end of the last batch that was accepted.   *)
Open ==
  LET r == recover(file)
  IN /\ ~up
     /\ opened' = r.answer
     /\ up' = (r.answer = "ok")
     /\ events' = r.events
     /\ file' = SubSeq(file, 1, r.length)
     /\ reserved' = IF r.answer = "InvalidHeader" THEN <<>>
                     ELSE reservations(file, HEADER_SIZE)
     /\ LET kept == SelectSeq(written, LAMBDA b : b.end <= r.length)
        IN written' = [i \in 1..Len(kept) |-> [kept[i] EXCEPT !.known = up']]
     /\ failed' = (failed /\ ~up')
     /\ bad' = bad \cap 1..r.length
     /\ UNCHANGED <<mishaps, appends>>

Next ==
  \/ \E p \in Proposals :
        \/ AppendSucceeds(p)
        \/ \E n \in 0..EnvelopeSize(p) : AppendFails(p, n) \/ AppendCrashes(p, n)
  \/ Stop
  \/ \E i \in 1..Len(file), d \in Digits : Damage(i, d)
  \/ Open

Spec == Init /\ [][Next]_vars

-----------------------------------------------------------------------------

(***************************************************************************)
(* Whatever the server holds in memory it would read back from its file:   *)
(* open on the bytes of an open log gives the same events, in every field, *)
(* and cuts nothing off.  It covers encode_record and decode_record, the   *)
(* envelope, and truncate_and_return, which must leave a log that a later  *)
(* append may extend.  It does not hold in a process that has survived a   *)
(* failed append, and holds again once such a log has been reopened.       *)
(***************************************************************************)
IndexIsFile == up /\ ~failed => recover(file) = Opened("ok", events, Len(file))

(***************************************************************************)
(* A crash at any byte costs nothing that was completely written: the next *)
(* open keeps every batch whose last byte got there and refuses the file   *)
(* only if its own eight header bytes are cut short.  This is said of a    *)
(* file with no bad bytes and of a process that has survived no failed     *)
(* append since it opened the log.                                         *)
(***************************************************************************)
CrashRecovers ==
  [][~up /\ bad = {} /\ ~failed =>
       /\ Len(written') = Len(written)
       /\ opened' # "CorruptRecord"
       /\ opened' = "InvalidHeader" => Len(file) < HEADER_SIZE]_vars

(***************************************************************************)
(* Bytes that went bad, or that a failed append left in the middle, can    *)
(* cost events, but never make one up or tear a batch: a server that has   *)
(* just opened the log has the batches that lie in the part of the file it *)
(* kept, whole, and nothing else, and later what it has appended since.  A *)
(* batch whose append failed behind its last byte is one of them from the  *)
(* next open on.  A changed length field sends decode_record to the wrong  *)
(* bytes; the checksums stop it.                                           *)
(***************************************************************************)
NothingInvented ==
  up => LET known == SelectSeq(written, LAMBDA b : b.known)
        IN events = FlattenSeq([i \in 1..Len(known) |-> known[i].events])

(* The bytes of the record_count of a batch header at this offset.         *)
CountBytes(offset) ==
  (offset + Width.magic + 1)..(offset + Width.magic + Width.count)

(***************************************************************************)
(* Vec::with_capacity(record_count) comes before any checksum is checked.  *)
(* An open reserves once for each batch it keeps, as many events as that   *)
(* batch has, and at most once more, for the header at which it then cuts  *)
(* the log.  That last count is one that append wrote, unless a byte of    *)
(* this very field went bad or a failed append left half a batch there:    *)
(* then it is whatever these bytes say.                                    *)
(***************************************************************************)
ReservationBounded ==
  [][~up /\ up' =>
       LET counts == [i \in 1..Len(written') |-> Len(written'[i].events)]
       IN \/ reserved' = counts
          \/ /\ Len(reserved') = Len(counts) + 1
             /\ Front(reserved') = counts
             /\ \/ \E p \in Proposals : Last(reserved') = Len(p.events)
                \/ bad \cap CountBytes(Len(file')) # {}
                \/ failed]_vars
====
