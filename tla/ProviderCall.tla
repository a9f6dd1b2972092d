---------------------------- MODULE ProviderCall ----------------------------
(***************************************************************************)
(* One call of a provider adapter (packages/ai/src): what the router asks  *)
(* for, the request with its retries, the answer, the reading of a stream  *)
(* (server-sent events cut into chunks anywhere), and what the caller gets.*)
(* chat and stream hand their errors to the router's candidate loop, which *)
(* is AiRouter; embed and transcribe try two candidates themselves; list   *)
(* and health turn every error into an answer.  No caller passes a signal  *)
(* of its own, so that only the timeout aborts a request.                  *)
(***************************************************************************)
EXTENDS Integers, Sequences, SequencesExt, Places

CONSTANTS
  MaxRetries,   \* max_retries of the provider's row
  Lists,        \* the candidate lists: sequences of two provider rows
  Scripts       \* the streams a provider may send: sequences of bytes

ASSUME RetriesAssumption == MaxRetries \in Nat

Ops == {"chat", "stream", "embed", "transcribe", "list", "health"}
Kinds == {"openai_compatible", "anthropic", "custom_http", "mock"}

\* The segments of an address: versions as openAiUrl knows them, one that it
\* does not (v1beta), any other name, and the endpoint that is asked for:
\* chat/completions, embeddings, audio/transcriptions or models.
Numbered == {"v1", "v2"}
Segments == Numbered \cup {"v1beta", "name", "endpoint"}

\* A provider row: `sound` says that a custom_http template and its kind of
\* authentication can be rendered, and that a mock's mode is "success"; `base`
\* and `path` are what the panel was given as base_url and chatPath, `home` is
\* where the provider really has its endpoints.
Rows == [kind : Kinds, key : BOOLEAN, sound : BOOLEAN,
         base : Seq(Segments), path : Seq(Segments), home : Seq(Segments)]

ASSUME ListsAssumption == \A l \in Lists : l \in [1 .. 2 -> Rows]

\* The bytes of a stream: every delta n is a character of two bytes.
Lead(n) == <<"lead", n>>
Trail(n) == <<"trail", n>>
Mark(name) == <<name>>
Bytes == {Mark(name) : name \in {"data", "nl", "done", "junk", "comment"}}
           \cup ({"lead", "trail"} \X Nat)

\* Where the deltas of a stream are complete.
Trails(s) == {i \in DOMAIN s : s[i][1] = "trail"}

\* What a provider that keeps to the protocol sends: characters are whole,
\* every delta is a data line of its own, and [DONE] is the end of it.
WellFormed(s) ==
  \A i \in DOMAIN s :
    /\ s[i][1] = "lead" =>
         /\ i > 1 /\ s[i - 1] = Mark("data") /\ (i > 2 => s[i - 2] = Mark("nl"))
         /\ i < Len(s) /\ s[i + 1] = Trail(s[i][2])
         /\ i + 1 < Len(s) => s[i + 2] = Mark("nl")
    /\ s[i][1] = "trail" => i > 1 /\ s[i - 1][1] = "lead"
    /\ s[i] = Mark("done") => \A j \in Trails(s) : j < i

ASSUME ScriptsAssumption == \A s \in Scripts : s \in Seq(Bytes) /\ WellFormed(s)

VARIABLES
  list,    \* the candidates of this caller
  call,    \* [op, at, pc, attempt]: what is asked, of whom, how far it is
  script,  \* what the provider sends in the stream being read ...
  wire,    \* ... and the part of it still to come
  reader,  \* [held, buffer, out]: undecoded bytes, text, deltas handed on
  result,  \* [is, kind]: what the caller got
  heard    \* history: how the requests to the candidate at hand have ended

callVars == <<list, call, script, wire, reader, result, heard>>

NoStream == [held |-> <<>>, buffer |-> <<>>, out |-> <<>>]
Nothing == [is |-> "nothing", kind |-> "none"]

Row == list[call.at]

-----------------------------------------------------------------------------
(* Before the request: keys, templates, addresses.                          *)

\* Only the OpenAI adapter has these methods, whatever the others declare as
\* their capabilities: the rest is a TypeError.
Implements(row, op) ==
  op \in {"stream", "embed", "transcribe"} => row.kind = "openai_compatible"

\* Embeddings and the OpenAI catalogue are asked for without a key, too.
NeedsKey(row, op) ==
  \/ row.kind = "openai_compatible" /\ op \in {"chat", "health", "stream", "transcribe"}
  \/ row.kind = "anthropic" /\ op \in {"chat", "health", "list"}

\* A custom_http request is rendered from templates that may not fit, and its
\* authentication may be of a type that #buildHeaders does not know.
Rendered(row, op) == row.kind = "custom_http" /\ op \in {"chat", "health"} => row.sound

\* The error raised before anything is sent.
Refusal(row, op) ==
  IF ~Implements(row, op) THEN "raw"
  ELSE IF NeedsKey(row, op) /\ ~row.key THEN "auth"
  ELSE IF ~Rendered(row, op) THEN "bad_response"
  ELSE "none"

\* The mock never calls the network; a custom provider has no catalogue.
Local(row, op) == row.kind = "mock" \/ (row.kind = "custom_http" /\ op = "list")

\* Mutant: the path keeps its own version.
AddressKeepsPath(base, path) ==
  LET versioned == \E i \in DOMAIN base : base[i] \in Numbered
  IN  base \o (IF path # <<>> /\ path[1] = "endpoint" /\ ~versioned THEN <<"v1">> ELSE <<>>) \o path

\* openAiUrl.  A version anywhere in the base makes the path lose one that it
\* begins with; a path that begins with the endpoint gets v1 without one.
Address(base, path) ==
  LET versioned == \E i \in DOMAIN base : base[i] \in Numbered
      rest == IF versioned /\ path # <<>> /\ path[1] \in Numbered THEN Tail(path) ELSE path
  IN  base \o (IF rest # <<>> /\ rest[1] = "endpoint" /\ ~versioned THEN <<"v1">> ELSE <<>>) \o rest

\* Only the path of the chat is configured (nobody sets modelsPath).
Path(row, op) == IF op \in {"chat", "stream", "health"} THEN row.path ELSE <<"endpoint">>

-----------------------------------------------------------------------------
(* The errors.                                                              *)

Statuses == {401, 403, 408, 429, 400, 404, 500, 503}

Classify(status) ==
  CASE status \in {401, 403} -> "auth"
    [] status = 429 -> "rate_limit"
    [] status = 408 -> "timeout"
    [] status >= 500 -> "server_error"
    [] OTHER -> "bad_response"

Transient == {"timeout", "network", "capacity", "server_error", "rate_limit"}

\* Mutant: the first request counts as a retry.
RetriesShort(kind) == kind \in Transient /\ call.attempt < MaxRetries

\* Whether requestJson tries again after an answer of this kind.  A request
\* that found no answer at all is never repeated.
Retries(kind) == kind \in Transient /\ call.attempt <= MaxRetries

-----------------------------------------------------------------------------

CallInit ==
  /\ list \in Lists
  /\ call = [op |-> "chat", at |-> 1, pc |-> "idle", attempt |-> 0]
  /\ script = <<>> /\ wire = <<>> /\ reader = NoStream
  /\ result = Nothing /\ heard = <<>>

Goes(pc) == call' = [call EXCEPT !.pc = pc]

\* The caller gets its answer.
Settles(is, kind) ==
  /\ Goes("done")
  /\ result' = [is |-> is, kind |-> kind]

\* Mutant: after an error the same candidate is asked again.
FailsInPlace(kind) ==
  CASE call.op \in {"chat", "stream"} -> Settles("error", kind)
    [] call.op = "health" -> Settles("unhealthy", kind)
    [] call.op = "list" -> Settles("unsupported", kind)
    [] OTHER -> Goes("choose") /\ UNCHANGED result

\* Two candidates are tried for an embedding or a transcription; null stands
\* for none.  The router's chat and stream loops see the error itself.
Fails(kind) ==
  CASE call.op \in {"chat", "stream"} -> Settles("error", kind)
    [] call.op = "health" -> Settles("unhealthy", kind)
    [] call.op = "list" -> Settles("unsupported", kind)
    [] OTHER -> /\ call' = [call EXCEPT !.at = 2, !.pc = IF call.at = 1 THEN "choose" ELSE "done"]
                /\ result' = IF call.at = 1 THEN result ELSE [is |-> "null", kind |-> kind]

\* A request has ended so: with an error status, with an answer or with none.
Hears(how) == heard' = Append(heard, how)

\* Somebody asks: the router for a chat, a stream, an embedding or a
\* transcription; the panel or the worker for the catalogue or the health.
Begin(op) ==
  /\ call.pc \in {"idle", "done"}
  /\ call' = [op |-> op, at |-> 1, pc |-> "choose", attempt |-> 0]
  /\ script' = <<>> /\ wire' = <<>> /\ reader' = NoStream
  /\ result' = Nothing /\ heard' = <<>>
  /\ UNCHANGED list

\* The router skips a candidate without a key, and one that cannot stream;
\* testProvider and listProviderModels call the adapter in any case.
Skips(row, op) ==
  \/ op \in {"chat", "stream", "embed", "transcribe"} /\ ~row.key
  \/ op = "stream" /\ ~Implements(row, op)

Choose ==
  /\ call.pc = "choose"
  /\ \/ /\ Skips(Row, call.op)
        /\ Fails("capacity")
     \/ /\ ~Skips(Row, call.op)
        /\ Goes("enter")
        /\ UNCHANGED result
  /\ UNCHANGED <<list, script, wire, reader, heard>>

\* The adapter builds its request and sends it, or answers by itself.
Enter ==
  /\ call.pc = "enter"
  /\ LET refusal == Refusal(Row, call.op) IN
     \/ refusal # "none" /\ Fails(refusal) /\ UNCHANGED heard
     \/ /\ refusal = "none" /\ Local(Row, call.op)
        /\ IF Row.kind = "custom_http" THEN Settles("unsupported", "none")
           ELSE IF Row.sound THEN Settles("value", "none")
           ELSE \E kind \in {"timeout", "rate_limit", "server_error", "auth", "bad_response"} :
                  Fails(kind)
        /\ UNCHANGED heard
     \/ /\ refusal = "none" /\ ~Local(Row, call.op)
        /\ call' = [call EXCEPT !.pc = "sent", !.attempt = 1] /\ heard' = <<>>
        /\ UNCHANGED result
  /\ UNCHANGED <<list, script, wire, reader>>

\* The provider knows its own addresses only.
Found ==
  Row.kind = "openai_compatible" =>
    Address(Row.base, Path(Row, call.op)) = Append(Row.home, "endpoint")

Repeats == call.op \in {"chat", "health", "embed"}   \* requestJson

\* An answer with an error status.
AnswersError(status) ==
  /\ call.pc = "sent"
  /\ ~Found => status = 404
  /\ IF Repeats /\ Retries(Classify(status))
       THEN Goes("backoff") /\ UNCHANGED result
       ELSE Fails(Classify(status))
  /\ Hears(Classify(status))
  /\ UNCHANGED <<list, script, wire, reader>>

\* 400 ms, 800 ms, ... later.
BackoffEnds ==
  /\ call.pc = "backoff"
  /\ call' = [call EXCEPT !.pc = "sent", !.attempt = @ + 1]
  /\ UNCHANGED <<list, script, wire, reader, result, heard>>

\* No answer: refused, reset, or the timeout.  An abort by the timeout comes
\* as a TimeoutError, which wrapNetworkError takes for a network error.
FindsNobody ==
  /\ call.pc = "sent"
  /\ Fails("network") /\ Hears("network")
  /\ UNCHANGED <<list, script, wire, reader>>

\* What is missing in a well-formed answer matters to chat only, and there
\* not to the Anthropic adapter, which takes it for an empty text.  An
\* embedding that is missing is null, and recorded all the same.
Complains == call.op \in {"chat", "health"} /\ Row.kind # "anthropic"

\* An answer with status 200, whose body is complete, lacks the text, is no
\* JSON, or breaks off.
AnswersWell(body) ==
  /\ call.pc = "sent" /\ call.op # "stream" /\ Found
  /\ CASE body = "broken" -> Fails("raw")
       [] body = "no JSON" -> Fails(IF call.op = "transcribe" THEN "raw" ELSE "bad_response")
       [] body = "hollow" /\ Complains -> Fails("bad_response")
       [] body = "hollow" /\ call.op = "transcribe" -> Settles("null", "none")
       [] OTHER -> IF call.op = "embed" THEN Goes("record") /\ UNCHANGED result
                                        ELSE Settles("value", "none")
  /\ Hears("answered")
  /\ UNCHANGED <<list, script, wire, reader>>

\* embed() records the usage inside the try: when that fails, the embedding
\* that was paid for is dropped and the next candidate is asked for it.
Recorded ==
  /\ call.pc = "record"
  /\ Settles("value", "none") \/ Fails("raw")
  /\ UNCHANGED <<list, script, wire, reader, heard>>

-----------------------------------------------------------------------------
(* Reading a stream.                                                        *)

Opens(s) ==
  /\ call.pc = "sent" /\ call.op = "stream" /\ Found
  /\ script' = s /\ wire' = s
  /\ Goes("reading") /\ Hears("answered")
  /\ UNCHANGED <<list, reader, result>>

\* Mutant: every chunk is decoded by itself.
DecodeAfresh(held, chunk) ==
  LET bad(b, i) == \/ b[1] = "lead" /\ i = Len(chunk)
                   \/ b[1] = "trail" /\ i = 1
  IN  [text |-> [i \in 1 .. Len(chunk) |->
                   IF bad(chunk[i], i) THEN Mark("bad") ELSE chunk[i]],
       held |-> <<>>]

\* TextDecoder with stream: true keeps the first byte of a character whose
\* second has not come yet.
Decode(held, chunk) ==
  LET whole == held \o chunk
  IN  IF whole # <<>> /\ Last(whole)[1] = "lead"
        THEN [text |-> Front(whole), held |-> <<Last(whole)>>]
        ELSE [text |-> whole, held |-> <<>>]

\* The next n bytes arrive.
Chunk(n) ==
  /\ call.pc = "reading" /\ n \in 1 .. Len(wire)
  /\ LET d == Decode(reader.held, SubSeq(wire, 1, n)) IN
       reader' = [reader EXCEPT !.held = d.held, !.buffer = @ \o d.text]
  /\ wire' = SubSeq(wire, n + 1, Len(wire))
  /\ Goes("lines")
  /\ UNCHANGED <<list, script, result, heard>>

Newlines == {i \in 1 .. Len(reader.buffer) : reader.buffer[i] = Mark("nl")}
Line == LET i == CHOOSE i \in Newlines : \A j \in Newlines : i <= j
        IN  SubSeq(reader.buffer, 1, i - 1)
Payload == Tail(Line)
IsData == Line # <<>> /\ Head(Line) = Mark("data")
IsDone == IsData /\ Payload = <<Mark("done")>>

\* The deltas of a payload: none when it is not the JSON expected, and a
\* garbled character (0) is a delta as well.
Deltas ==
  CASE Len(Payload) = 2 /\ Payload[1][1] = "lead" -> <<Payload[1][2]>>
    [] \E i \in 1 .. Len(Payload) : Payload[i] = Mark("bad") -> <<0>>
    [] OTHER -> <<>>

\* The first whole line of the buffer is taken.
TakeLine ==
  /\ call.pc = "lines" /\ Newlines # {}
  /\ reader' = [reader EXCEPT !.buffer = SubSeq(@, Len(Line) + 2, Len(@)),
                              !.out = IF IsData THEN @ \o Deltas ELSE @]
  /\ IF IsDone THEN Settles("value", "none") ELSE UNCHANGED <<call, result>>
  /\ UNCHANGED <<list, script, wire, heard>>

\* No whole line is left: the rest waits for the next chunk.
KeepRest ==
  /\ call.pc = "lines" /\ Newlines = {}
  /\ Goes("reading")
  /\ UNCHANGED <<list, script, wire, reader, result, heard>>

\* The connection is closed: the loop ends as after [DONE], and a last line
\* without a newline is lost.
Closes ==
  /\ call.pc = "reading" /\ wire = <<>>
  /\ Settles("value", "none")
  /\ UNCHANGED <<list, script, wire, reader, heard>>

\* The connection breaks, or the timeout of the whole request strikes.
BreaksOff ==
  /\ call.pc = "reading"
  /\ Fails("raw")
  /\ UNCHANGED <<list, script, wire, reader, heard>>

-----------------------------------------------------------------------------

Proceeds == Choose \/ Enter \/ BackoffEnds \/ Recorded \/ TakeLine \/ KeepRest

Answers ==
  \/ \E status \in Statuses : AnswersError(status)
  \/ \E body \in {"good", "hollow", "no JSON", "broken"} : AnswersWell(body)
  \/ FindsNobody
  \/ \E s \in Scripts : Opens(s)
  \/ \E n \in 1 .. Len(wire) : Chunk(n)
  \/ Closes
  \/ BreaksOff

CallNext == Proceeds \/ Answers \/ \E op \in Ops : Begin(op)

CallSpec == CallInit /\ [][CallNext]_callVars

(***************************************************************************)
(* The code takes its steps, and every request ends: it is answered, or    *)
(* AbortSignal.timeout ends the wait or the stream.  Nobody must ask.      *)
(***************************************************************************)
FairCallSpec == CallSpec /\ WF_callVars(Proceeds) /\ WF_callVars(Answers)

-----------------------------------------------------------------------------

\* The deltas of a stream, in the order in which the provider sends them.
Said(s) ==
  LET trails == Picked(s, Trails(s))
  IN  [n \in DOMAIN trails |-> trails[n][2]]

\* However the network cuts a stream, and wherever it breaks, the user sees
\* the deltas the provider sent, in order, none garbled and none twice; a
\* stream that ends with a newline and was read to its end arrives whole.
StreamsArriveIntact ==
  /\ IsPrefix(reader.out, Said(script))
  /\ call.op = "stream" /\ result.is = "value" /\ (script = <<>> \/ Last(script) = Mark("nl"))
       => reader.out = Said(script)

\* What an administrator may well type for a provider: the address of its
\* endpoints, when a numbered version is in it, or that address without its
\* last v1; and the path to the endpoint with or without a version.
WellGiven(row, op) ==
  LET plain == {<<"endpoint">>, <<"v1", "endpoint">>} IN
  IF \E i \in DOMAIN row.base : row.base[i] \in Numbered
    THEN row.base = row.home /\ Path(row, op) \in plain \cup {<<"v2", "endpoint">>}
    ELSE Append(row.base, "v1") = row.home /\ Path(row, op) \in plain

\* The address of every operation is one the provider knows (openAiUrl), as
\* far as the row was given well, whichever of base_url and path the version
\* stands in.  Rows that name a version like v1beta, or none where the
\* provider has none, are not: openAiUrl puts a v1 of its own in.
AddressesAreKnown ==
  call.pc = "sent" /\ Row.kind = "openai_compatible" /\ WellGiven(Row, call.op) => Found

\* A provider is asked again only after an error that may pass, and then as
\* often as its row allows, neither once more nor once less; never after an
\* answer, nor by an operation that does not repeat (requestJson).
RetriesAreDue ==
  LET n == Len(heard)
      over == call.pc \in {"choose", "enter", "done"}
  IN  /\ n <= MaxRetries + 1
      /\ \A i \in 1 .. n - 1 : Repeats /\ heard[i] \in {"timeout", "server_error", "rate_limit"}
      /\ n > 0 /\ over /\ Repeats /\ heard[n] \in {"timeout", "server_error", "rate_limit"}
           => n = MaxRetries + 1

\* Every call ends: retries stop, and no stream holds its caller for ever.
EveryCallSettles == call.pc = "choose" ~> call.pc = "done"

=============================================================================
