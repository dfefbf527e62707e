------------------------------ MODULE Service ------------------------------
(***************************************************************************)
(* What the gRPC handlers compute: the checks and conversions of           *)
(* service.rs, the reads of reader.rs and the interceptor of auth.rs.      *)
(* Module Server calls them.                                               *)
(*                                                                         *)
(* A UUID is a natural number, ordered as its hyphenated text is.  On the  *)
(* wire it is a text, of which there are several for one UUID and some     *)
(* for none.                                                               *)
(***************************************************************************)
EXTENDS Integers, Sequences, FiniteSets

CONSTANTS
  StreamIds,    \* stream UUIDs
  MaxU64        \* u64::MAX, scaled down

ASSUME StreamIdsAssumption == StreamIds \subseteq Nat
ASSUME MaxU64Assumption == MaxU64 \in Nat \ {0}

Wrapped(n) == n % (MaxU64 + 1)
Smaller(a, b) == IF a < b THEN a ELSE b

-----------------------------------------------------------------------------
(* Texts, and what the handlers make of the fields of a request.           *)

(* A text is a UUID in one of its spellings, or garbage.                   *)
Invalid == -1

(* Uuid's parser takes more spellings than its formatter produces.         *)
parse_uuid(text) == IF text.spelled = "garbage" THEN Invalid ELSE text.uuid
to_string(uuid) == [uuid |-> uuid, spelled |-> "hyphenated"]

(* ExpectedVersion: Any, NoStream, or Exact(n) written as n itself.        *)
AnyVersion == -3
NoStream == -2

(* The message may be absent, and so may its oneof.                        *)
proto_to_expected_version(ev) ==
  CASE ev.kind \in {"unset", "no_kind"} -> Invalid
    [] ev.kind = "any" -> AnyVersion
    [] ev.kind = "no_stream" -> NoStream
    [] ev.kind = "exact" -> ev.version

(* Only the ID of a proposed event is checked here.                        *)
proto_to_proposed_event(p) == parse_uuid(p)

recorded_to_proto(e) ==
  [event_id |-> to_string(e.event_id), stream_id |-> to_string(e.stream_id),
   stream_version |-> e.stream_version, global_position |-> e.global_position]

stream_info_to_proto(s) == [s EXCEPT !.stream_id = to_string(@)]

Mapped(Op(_), seq) == [i \in 1..Len(seq) |-> Op(seq[i])]

error_to_status ==
  [WrongExpectedVersion |-> "FAILED_PRECONDITION", StreamNotFound |-> "NOT_FOUND",
   Io |-> "INTERNAL", CorruptRecord |-> "DATA_LOSS", InvalidHeader |-> "DATA_LOSS",
   EventTooLarge |-> "INVALID_ARGUMENT", InvalidArgument |-> "INVALID_ARGUMENT"]

(* A response: a status, and the body that goes with OK.                   *)
Status(code) == [status |-> code, body |-> <<>>]
Response(body) == [status |-> "OK", body |-> body]

(* What stands between a request and WriterHandle::append.                 *)
append_valid(r) ==
  /\ parse_uuid(r.stream_id) # Invalid
  /\ proto_to_expected_version(r.expected_version) # Invalid
  /\ r.events # <<>>
  /\ \A k \in 1..Len(r.events) : proto_to_proposed_event(r.events[k]) # Invalid

(* Indexing panics where start > end or out of bounds, which the task of   *)
(* the handler dies of.                                                    *)
Panics == [status |-> "panic", body |-> <<>>]

(* The response names the first and the last event.                        *)
append_response(recorded) ==
  LET first == recorded[1]
      last == recorded[Len(recorded)]
  IN IF recorded = <<>> THEN Panics
     ELSE Response([first_stream_version |-> first.stream_version,
                    last_stream_version |-> last.stream_version,
                    first_global_position |-> first.global_position,
                    last_global_position |-> last.global_position])

-----------------------------------------------------------------------------
(***************************************************************************)
(* ReadIndex.  Each read holds the lock of the index, log, from start to   *)
(* end: log.events in global order, log.streams the positions by stream.   *)
(***************************************************************************)

(* Variant: the sum wraps around.                                          *)
wrapping_add(a, b) == Wrapped(a + b)

saturating_add(a, b) == IF a + b > MaxU64 THEN MaxU64 ELSE a + b

Slice(seq, from, max) ==
  LET start == Smaller(from, Len(seq))
      end == Smaller(saturating_add(from, max), Len(seq))
  IN IF start > end THEN Panics ELSE Response(SubSeq(seq, start + 1, end))

read_all(log, from, max) == Slice(log.events, from, max)

read_stream(log, s, from, max) ==
  IF s \notin DOMAIN log.streams THEN Status(error_to_status.StreamNotFound)
  ELSE LET found == Slice(log.streams[s], from, max)
       IN [found EXCEPT !.body = Mapped(LAMBDA p : log.events[p + 1], @)]

stream_version(log, s) == Wrapped(Len(log.streams[s]) - 1)

sort_by(S) ==
  [i \in 1..Cardinality(S) |->
     CHOOSE x \in S : Cardinality({y \in S : y < x}) = i - 1]

(* HashMap iteration has no order; sort_by gives it one.                   *)
list_streams(log) ==
  Mapped(LAMBDA s : [stream_id |-> s, event_count |-> Len(log.streams[s]),
                     latest_version |-> stream_version(log, s)],
         sort_by(DOMAIN log.streams))

-----------------------------------------------------------------------------
(***************************************************************************)
(* JwtInterceptor.  jsonwebtoken::decode checks the HS256 signature, that  *)
(* the claims exp and sub are there, and, without leeway, that exp has     *)
(* not passed.                                                             *)
(***************************************************************************)
decode_token(token) ==
  token.signed /\ {"exp", "sub"} \subseteq token.claims /\ ~token.expired

(* No header, or not ASCII, or no "Bearer " in front: same status.         *)
intercept(header) == header.form = "bearer" /\ decode_token(header.token)
====
