---------------------------- MODULE RecordEncoding ----------------------------
(***************************************************************************)
(* The content of records on its way from a caller into the log and back   *)
(* out of it: the request that ipc.go decodes or the arguments of the emit *)
(* command, the value that Emit hashes in canonical form and writes in     *)
(* another one, and what the verifier reads and hashes again.              *)
(*                                                                         *)
(* encoding/json is external.  A string is one character of it: a letter;  *)
(* "<", which stands for the characters that Marshal escapes for HTML and  *)
(* canonical does not; U+FFFD, the replacement character; or a byte that   *)
(* is not UTF-8.  Objects and lists pass their leaves on one by one, so an *)
(* event is a ts, a field, and a leaf inside its context.                  *)
(***************************************************************************)
EXTENDS Integers, Sequences

CONSTANTS
  Width,       \* an int64 has this many bits beside its sign
  Far,         \* bound: the numbers of requests, either side of zero
  MaxRecords   \* bound: records

ASSUME EncodingAssumption == {Width, Far, MaxRecords} \subseteq Nat /\ Far > 2^Width

Int64 == -(2^Width)..(2^Width - 1)

Fields == {"ts", "target", "context"}

\* JSON values as text: a number written as an integer or with a point or an exponent,
\* and a string whose character may be written as an escape.
JSONNumber == [json : {"integer", "fraction"}, n : -Far..Far]
JSONString == [json : {"string"}, text : {"a", "<", "\\u003c", "U+FFFD", "\\ufffd", "bad byte"}]

\* Values in memory.
Number(literal) == [go |-> "json.Number", literal |-> literal]
I64(n) == [go |-> "int64", n |-> n]
Str(s) == [go |-> "string", s |-> s]

VARIABLES
  records,   \* the lines of the log, each with the event it was made from (history)
  lastHash   \* Chain.prevHash

encodingVars == <<records, lastHash>>

EncodingInit == records = << >> /\ lastHash = << >>

-----------------------------------------------------------------------------
(* encoding/json *)

\* Bytes that are not UTF-8 come out as the replacement character.
unquote(text) ==
  CASE text = "\\u003c"                -> "<"
    [] text \in {"\\ufffd", "bad byte"} -> "U+FFFD"
    [] OTHER                           -> text

\* They go in as an escape of it, while the character itself is written as it is.
quote(s, escapeHTML) ==
  CASE s = "bad byte"           -> "\\ufffd"
    [] s = "<" /\ escapeHTML    -> "\\u003c"
    [] OTHER                    -> s

decode(json) == IF json.json = "string" THEN Str(unquote(json.text)) ELSE Number(json)

encode(v, escapeHTML) ==
  IF v.go = "string"
    THEN [json |-> "string", text |-> quote(v.s, escapeHTML)]
    ELSE [json |-> "integer", n |-> v.n]

-----------------------------------------------------------------------------
(* Canonical form, and numbers *)

canonical(rec) == [f \in Fields |-> encode(rec[f], FALSE)]
marshal(rec) == [f \in Fields |-> encode(rec[f], TRUE)]

\* hashRecord: all that came before, and the canonical form of the record.
contentHash(prev, rec) == Append(prev, canonical(rec))

\* Mutant of normalizeJSONNumberValue: the high bits of a number are lost.
normalizeJSONNumberValueWraps(v) ==
  IF v.go # "json.Number" THEN {v}
  ELSE IF v.literal.json = "integer"
    THEN {I64(((v.literal.n + 2^Width) % 2^(Width + 1)) - 2^Width)}
    ELSE {}

\* The int64 that strconv.ParseInt finds, or no value and a refusal.
normalizeJSONNumberValue(v) ==
  IF v.go # "json.Number" THEN {v}
  ELSE IF v.literal.json = "integer" /\ v.literal.n \in Int64 THEN {I64(v.literal.n)}
  ELSE {}

\* A refused leaf refuses the whole.
normalizeJSONNumbers(event) ==
  IF \E f \in Fields: normalizeJSONNumberValue(event[f]) = {} THEN {}
  ELSE {[f \in Fields |-> CHOOSE v \in normalizeJSONNumberValue(event[f]) : TRUE]}

\* Of a value that is no number, 0.
toInt64(v) == IF v.go = "int64" THEN v.n ELSE 0

-----------------------------------------------------------------------------
(* Emit *)

RecordOf(event) == [event EXCEPT !.ts = I64(toInt64(@))]

\* Mutant of Emit: the hash is over the record as Marshal writes it.
EmitHashesTheLine(event, source, said) ==
  LET line == marshal(RecordOf(event)) IN
  /\ Len(records) < MaxRecords
  /\ lastHash' = Append(lastHash, line)
  /\ records' = Append(records, [text |-> line, prev_hash |-> lastHash, hash |-> lastHash',
                                 source |-> source, said |-> said])

Emit(event, source, said) ==
  /\ Len(records) < MaxRecords
  /\ lastHash' = contentHash(lastHash, RecordOf(event))
  /\ records' = Append(records, [text |-> marshal(RecordOf(event)), prev_hash |-> lastHash,
                                 hash |-> lastHash', source |-> source, said |-> said])

\* Requests with one value of interest.
Requests ==
  {[[g \in Fields |-> [json |-> "string", text |-> "a"]] EXCEPT ![f] = value] :
     f \in Fields, value \in JSONNumber \union JSONString}

\* A request with a number that does not normalise is refused before anything is hashed.
SocketEmit ==
  \E request \in Requests:
    \E event \in normalizeJSONNumbers([f \in Fields |-> decode(request[f])]):
      Emit(event, "socket", request)

\* Arguments are bytes, and go to Emit as they are.
CommandEmit ==
  \E s \in {"a", "<", "U+FFFD", "bad byte"}:
    LET event == [ts |-> I64(1), target |-> Str(s), context |-> Str("a")] IN
      Emit(event, "command", event)

EncodingNext == SocketEmit \/ CommandEmit

EncodingSpec == EncodingInit /\ [][EncodingNext]_encodingVars

-----------------------------------------------------------------------------
(* The verifier, and properties *)

\* The record that the verifier makes of line k, if it can.
Reread(k) == normalizeJSONNumbers([f \in Fields |-> decode(records[k].text[f])])

\* verifyChainStateFrom passes line k.
Recomputes(k) ==
  /\ records[k].prev_hash = (IF k = 1 THEN << >> ELSE records[k - 1].hash)
  /\ \E rec \in Reread(k): contentHash(records[k].prev_hash, rec) = records[k].hash

(***************************************************************************)
(* What is accepted over the socket verifies: canonical form is a function *)
(* of the content that survives being written and read, although the line  *)
(* is written in another form than the one that was hashed, and whatever   *)
(* records the commands have put next to it.                               *)
(***************************************************************************)
SocketRecordsRecompute ==
  \A k \in DOMAIN records: records[k].source = "socket" => Recomputes(k)

\* The value that a client means.
Meant(json) == IF json.json = "string" THEN decode(json) ELSE I64(json.n)

(***************************************************************************)
(* Numbers are recorded as they were sent or not at all: no rounding, no   *)
(* wrapping around at the ends of int64, no fraction cut off, at any depth *)
(* of the event.  Only a ts that is no number becomes 0.                   *)
(***************************************************************************)
RecordsSayWhatWasSent ==
  \A k \in DOMAIN records: records[k].source = "socket" =>
    \E rec \in Reread(k): \A f \in Fields:
      LET meant == Meant(records[k].said[f]) IN
        /\ records[k].said[f].json # "fraction"
        /\ rec[f] = IF f = "ts" /\ meant.go # "int64" THEN I64(0) ELSE meant

(***************************************************************************)
(* data-model.md, 34: "hash recomputes exactly from the record's canonical *)
(* content", for every record that Emit has accepted.                      *)
(***************************************************************************)
ContentBinding == \A k \in DOMAIN records: Recomputes(k)
=============================================================================
