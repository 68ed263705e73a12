----------------------------- MODULE RestRequest -----------------------------
(***************************************************************************)
(* One connection of the REST server, as its handler thread runs it: the   *)
(* state machine of libmicrohttpd (MHD_connection_handle_idle), the        *)
(* microhttpd_request that rest_server keeps for it, and the generator     *)
(* that streams the answer.                                                *)
(*                                                                         *)
(* The thread waits in poll, reads or writes some, runs the state machine  *)
(* until it has to wait again, and looks at the timeout.  The client's     *)
(* stream is a sequence of units: lines, bytes of the body, and the lines  *)
(* of chunked uploads; it arrives in arbitrary pieces.  Every response of  *)
(* rest_server says "Connection: close", so that there is one request per  *)
(* connection and no response is sent in chunks.  Forms are read by the    *)
(* post processor while they arrive.                                       *)
(***************************************************************************)
EXTENDS PostProcessor

CONSTANTS
  Requests,       \* the requests considered: records, see Stream
  Outputs,        \* generators: the length of the output after each generate
  BodySizes,      \* sizes of responses made from a buffer
  MinGenerated,   \* set_min_generated
  BufferSize,     \* the 32 kB that generator_callback may fill
  UnsignedRange,  \* 2^32, the range of remaining_request_body_size
  SizeUnknown     \* MHD_SIZE_UNKNOWN

ASSUME SizesAssumption ==
  /\ MinGenerated \in Nat /\ BufferSize \in Nat \ {0}
  /\ UnsignedRange \in Nat
  /\ \A r \in Requests : r.limit \in Nat /\ r.limit + 1 < UnsignedRange
  /\ SizeUnknown \in Nat \ {0}
  /\ \A n \in BodySizes : n \in Nat /\ n < SizeUnknown

(* What a response is made of: a buffer or a generator of the application, *)
(* or the message of an error the library answers itself.                  *)
Kinds == {"buffer", "generator", "error"}

(* A generator only appends to its output.                                 *)
ASSUME OutputsAssumption ==
  \A o \in Outputs :
    /\ o \in Seq(Nat) /\ Len(o) > 0 /\ Last(o) < SizeUnknown
    /\ \A i, j \in DOMAIN o : i <= j => o[i] <= o[j]

ASSUME NoneAssumption ==
  /\ None \notin Nat /\ None \notin {"request", "deleted"}
  /\ None \notin [code : Nat, kind : Kinds, size : Nat]

VARIABLES
  request,     \* what the client sends
  input,       \* the part of its stream that is not read yet
  buffer,      \* connection->read_buffer
  state,       \* connection->state
  pc,          \* "poll", "write", "idle", "body", "post", "after body", "end", "done"
  socketShut,  \* MHD_connection_close has shut the socket down
  upload,      \* connection->remaining_upload_size
  chunk,       \* bytes of the chunk still to come, None before its first line
  aware,       \* connection->client_aware
  context,     \* *con_cls: the microhttpd_request, None, or deleted
  remaining,   \* remaining_request_body_size
  body,        \* request->body, or what the post processor was given
  post,        \* request->post_processor and params, or NoPostProcessor
  given,       \* history: how many bytes handle_request was given
  seen,        \* body and params when service->handle was called, or None
  response,    \* connection->response: its kind and total_size, or None
  position,    \* connection->response_write_position
  ready,       \* the data of the response from data_start on
  start,       \* response->data_start
  generator,   \* [output, index, offset, consumed] of request->generator
  sent,        \* the bytes of the body sent to the client
  ending       \* why the connection was closed

readVars == <<input, buffer>>
uploadVars == <<upload, chunk>>
requestVars == <<aware, context, remaining, body, post, given, seen>>
responseVars == <<response, position, ready, start, generator>>
vars == <<request, readVars, state, pc, socketShut, uploadVars, requestVars,
          responseVars, sent, ending>>

-----------------------------------------------------------------------------
(* The client: a request has a method, the way its body is uploaded        *)
(* ("none", "length", "chunked", "other", or "unreadable" for a length that *)
(* is no number), whether it expects "100 continue", the form in its body  *)
(* or None, the sizes of its chunks or of its only part, the arguments in  *)
(* its query, and which line is malformed; limit is                        *)
(* set_max_request_body_size of the server, 0 for no limit.                *)
Byte(n) == <<"byte", n>>
Bytes(from, n) == [i \in 1 .. n |-> Byte(from + i - 1)]

(* How many bytes the first i chunks have.                                 *)
BytesUpTo(r) ==
  LET upTo[i \in 0 .. Len(r.sizes)] ==
        IF i = 0 THEN 0 ELSE upTo[i - 1] + r.sizes[i]
  IN upTo

Upload(r) == IF r.upload = "none" THEN <<>>
             ELSE IF r.form # None THEN FormBody(r.form)
             ELSE Bytes(1, BytesUpTo(r)[Len(r.sizes)])

Chunk(r, i) ==
  << <<"size", r.sizes[i]>> >>
  \o SubSeq(Upload(r), BytesUpTo(r)[i - 1] + 1, BytesUpTo(r)[i])
  \o << <<"newline">> >>

ChunksOf(r) == FlattenSeq([i \in 1 .. Len(r.sizes) |-> Chunk(r, i)])

Stream(r) ==
  << <<"first">>, <<"header">>, <<"blank">> >>
  \o CASE r.upload = "none" -> <<>>
       [] r.upload = "chunked" ->
            ChunksOf(r) \o << <<"size", 0>>, <<"header">>, <<"blank">> >>
       [] r.upload = "length" -> Upload(r) \o << <<"extra">> >>
       [] OTHER -> Upload(r)

(* With line number r.malformed replaced by rubbish, 0 for none.           *)
Sent(r) == [i \in 1 .. Len(Stream(r)) |->
              IF i = r.malformed THEN <<"rubbish">> ELSE Stream(r)[i]]

(* Only lines are malformed; the chunks hold the whole upload, and none of *)
(* them is empty, which would be the end.                                  *)
IsLine(unit) ==
  unit[1] \in {"first", "header", "blank", "size", "newline", "extra"}

ASSUME RequestsAssumption ==
  \A r \in Requests :
    /\ r.upload \in {"none", "length", "chunked", "other", "unreadable"}
    /\ r.sizes \in Seq(Nat)
    /\ Upload(r) \in Seq(ToSet(Upload(r))) /\ Len(Upload(r)) < SizeUnknown
    /\ \A i \in DOMAIN Upload(r) : ~IsLine(Upload(r)[i])
    /\ r.upload = "chunked" =>
         /\ \A i \in DOMAIN r.sizes : r.sizes[i] > 0
         /\ BytesUpTo(r)[Len(r.sizes)] = Len(Upload(r))
    /\ r.malformed \in DOMAIN Stream(r) => IsLine(Stream(r)[r.malformed])

(* What post is of a request without one.                                  *)
NoPostProcessor == [state |-> "None"]

(* output[i] is the length of all output after i - 1 calls of generate; the *)
(* last call returns false.                                                *)
NewGenerator(o) == [output |-> o, index |-> 1, offset |-> 0, consumed |-> 0]

Init ==
  /\ request \in Requests
  /\ input = Sent(request) /\ buffer = <<>>
  /\ state = "INIT" /\ pc = "poll" /\ socketShut = FALSE
  /\ upload = 0 /\ chunk = None
  /\ aware = FALSE /\ context = None
  /\ remaining = 0 /\ body = <<>> /\ given = 0 /\ seen = None
  /\ post = NoPostProcessor
  /\ response = None /\ position = 0 /\ ready = <<>> /\ start = 0
  /\ generator = None
  /\ sent = <<>> /\ ending = None

HeaderStates == {"INIT", "URL_RECEIVED", "HEADER_PART_RECEIVED"}
FooterStates == {"BODY_RECEIVED", "FOOTER_PART_RECEIVED"}
SendStates == {"CONTINUE_SENDING", "HEADERS_SENDING", "NORMAL_BODY_READY"}

(* What the thread polls for, MHD_connection_update_event_loop_info.       *)
EventLoopInfo ==
  CASE state \in HeaderStates \cup FooterStates -> "READ"
    [] state = "CONTINUE_SENT" -> "READ"
    [] state \in SendStates -> "WRITE"
    [] state = "CLOSED" -> "CLEANUP"
    [] OTHER -> "BLOCK"

-----------------------------------------------------------------------------
(* MHD_connection_close: request_completed deletes the request, and its    *)
(* post processor, if the application knows of it.                         *)
CompletedByClient == context
Completed == IF aware /\ context # None THEN "deleted" ELSE context

ConnectionClose(why) ==
  /\ state' = "CLOSED" /\ socketShut' = TRUE
  /\ context' = Completed /\ aware' = FALSE
  /\ post' = IF context' = context THEN post ELSE NoPostProcessor
  /\ ending' = why

(* MHD_queue_response; HEAD pretends that the body has been sent.          *)
PositionFor(size) ==
  IF request.method = "HEAD" /\ state # "INIT" THEN size ELSE 0

QueueResponse(code, kind, size) ==
  /\ response' = [code |-> code, kind |-> kind, size |-> size]
  /\ position' = PositionFor(size)
  /\ start' = 0
  /\ ready' = IF kind = "generator" THEN <<>> ELSE Bytes(1, size)

(* transmit_error_response, also for a connection that is closed already.  *)
TransmitError(code) ==
  /\ QueueResponse(code, "error", 1)
  /\ state' = "HEADERS_SENDING"
  /\ UNCHANGED generator

-----------------------------------------------------------------------------
(* poll                                                                    *)

(* Some of what the client sent is read; it does not matter how much of it *)
(* the client had sent before.                                             *)
Read ==
  /\ pc = "poll" /\ EventLoopInfo # "CLEANUP" /\ ~socketShut
  /\ \E n \in 1 .. Len(input) :
       /\ buffer' = buffer \o SubSeq(input, 1, n)
       /\ input' = SubSeq(input, n + 1, Len(input))
  /\ pc' = "idle"
  /\ UNCHANGED <<request, state, socketShut, uploadVars, requestVars,
                 responseVars, sent, ending>>

(* The client closes its side, or the socket fails: whatever is to be      *)
(* sent, the connection is closed.                                         *)
ReadEnd ==
  /\ pc = "poll" /\ EventLoopInfo # "CLEANUP"
  /\ ConnectionClose("client")
  /\ pc' = "idle"
  /\ UNCHANGED <<request, readVars, uploadVars, remaining, body, given, seen,
                 responseVars, sent>>

(* poll returns with nothing: at once when the state machine is blocked,   *)
(* otherwise after the timeout.                                            *)
CanTimeOutIfBlocked == EventLoopInfo = "BLOCK"
CanTimeOut == TRUE

PollTimesOut ==
  /\ pc = "poll" /\ CanTimeOut
  /\ pc' = "idle"
  /\ UNCHANGED <<request, readVars, state, socketShut, uploadVars,
                 requestVars, responseVars, sent, ending>>

(* The loop ends when the daemon shuts down.                               *)
SeeShutdown ==
  /\ pc = "poll" /\ state # "CLOSED"
  /\ ConnectionClose("shutdown")
  /\ pc' = "idle"
  /\ UNCHANGED <<request, readVars, uploadVars, remaining, body, given, seen,
                 responseVars, sent>>

(* The headers, or "100 continue", are written to the end.                 *)
WriteHeaders ==
  /\ pc = "poll" /\ state \in {"CONTINUE_SENDING", "HEADERS_SENDING"}
  /\ ~socketShut
  /\ state' = IF state = "HEADERS_SENDING" THEN "HEADERS_SENT"
              ELSE "CONTINUE_SENT"
  /\ pc' = "idle"
  /\ UNCHANGED <<request, readVars, socketShut, uploadVars, requestVars,
                 responseVars, sent, ending>>

-----------------------------------------------------------------------------
(* microhttpd_request::generator_callback with room for max bytes: what it *)
(* returns, and the generator afterwards.                                  *)
Minimum(max) == Min({MinGenerated, max})

(* generate is called until there is enough or the generator ends.         *)
Generated(g, max) ==
  CHOOSE i \in g.index .. Len(g.output) :
    /\ \/ g.output[i] - g.consumed - g.offset >= Minimum(max)
       \/ i = Len(g.output)
    /\ \A j \in g.index .. i - 1 :
         g.output[j] - g.consumed - g.offset < Minimum(max)

Copied(g, i, max) == Min({g.output[i] - g.consumed - g.offset, max})

(* What was copied is dropped once too little of it is left.               *)
ConsumeAll(g, i, offset, max) ==
  [g EXCEPT !.index = i, !.consumed = g.output[i], !.offset = 0]
Consume(g, i, offset, max) ==
  IF g.output[i] - g.consumed - offset < Minimum(max)
  THEN [g EXCEPT !.index = i, !.consumed = @ + offset, !.offset = 0]
  ELSE [g EXCEPT !.index = i, !.offset = offset]

GeneratorCallback(g, max) ==
  LET i == Generated(g, max)
      n == Copied(g, i, max)
  IN IF g.output[i] - g.consumed <= g.offset
     THEN [end |-> TRUE, data |-> <<>>, generator |-> [g EXCEPT !.index = i]]
     ELSE [end |-> FALSE, data |-> Bytes(g.consumed + g.offset + 1, n),
           generator |-> Consume(g, i, g.offset + n, max)]

(* try_ready_normal_body: is there data to send, or can it be made?  Its   *)
(* end closes the connection, which is how the client learns of it.        *)
InRange == start <= position /\ position < start + Len(ready)
IsReady == response.kind # "generator" \/ InRange

CallReader ==
  LET called == GeneratorCallback(generator,
                  Min({BufferSize, response.size - position}))
  IN /\ generator' = called.generator
     /\ IF called.end
        THEN /\ response' = [response EXCEPT !.size = position]
             /\ ConnectionClose("completed")
             /\ UNCHANGED <<ready, start>>
        ELSE /\ ready' = called.data /\ start' = position
             /\ state' = IF called.data = <<>> THEN "NORMAL_BODY_UNREADY"
                         ELSE "NORMAL_BODY_READY"
             /\ UNCHANGED <<socketShut, aware, context, post, response,
                            ending>>

(* MHD_connection_handle_write when what was made has been sent.           *)
RefillBody ==
  /\ pc = "poll" /\ state = "NORMAL_BODY_READY" /\ ~IsReady
  /\ CallReader
  /\ pc' = IF state' = "NORMAL_BODY_READY" THEN "write" ELSE "idle"
  /\ UNCHANGED <<request, readVars, uploadVars, remaining, body, given, seen,
                 position, sent>>

(* Its sending part: as much as the socket takes, maybe nothing.           *)
SendBody ==
  /\ pc = "write" \/ (pc = "poll" /\ state = "NORMAL_BODY_READY" /\ IsReady)
  /\ LET left == SubSeq(ready, position - start + 1, Len(ready)) IN
     \E n \in 0 .. Len(left) :
       /\ sent' = sent \o SubSeq(left, 1, n)
       /\ position' = position + n
  /\ state' = IF position' = response.size THEN "FOOTERS_SENT" ELSE state
  /\ pc' = "idle"
  /\ UNCHANGED <<request, readVars, socketShut, uploadVars, requestVars,
                 response, ready, start, generator, ending>>

-----------------------------------------------------------------------------
(* MHD_connection_handle_idle: one action for each state; "end" where the  *)
(* code breaks out of its loop, "idle" where it continues.                 *)

Idle(s) == pc = "idle" /\ state = s
Becomes(s) == state' = s /\ pc' = "idle"
Wait == pc' = "end" /\ UNCHANGED state

(* get_next_header_line and what becomes of the line.                      *)
TakeUnit == buffer' = Tail(buffer) /\ UNCHANGED input

NextHeaderState ==
  CASE Head(buffer) = <<"first">> -> "URL_RECEIVED"
    [] Head(buffer) = <<"blank">> /\ state \in HeaderStates ->
         "HEADERS_RECEIVED"
    [] Head(buffer) = <<"blank">> /\ state \notin HeaderStates ->
         "FOOTERS_RECEIVED"
    [] OTHER -> IF state \in HeaderStates THEN "HEADER_PART_RECEIVED"
                ELSE "FOOTER_PART_RECEIVED"

HeaderLine ==
  /\ pc = "idle" /\ state \in HeaderStates \cup FooterStates
  /\ buffer # <<>> /\ Head(buffer) # <<"rubbish">>
  /\ TakeUnit
  /\ Becomes(NextHeaderState)
  /\ UNCHANGED <<request, socketShut, uploadVars, requestVars, responseVars,
                 sent, ending>>

NoHeaderLine ==
  /\ pc = "idle" /\ state \in HeaderStates \cup FooterStates
  /\ buffer = <<>>
  /\ Wait
  /\ UNCHANGED <<request, readVars, socketShut, uploadVars, requestVars,
                 responseVars, sent, ending>>

(* parse_initial_message_line fails.                                       *)
MalformedFirstLine ==
  /\ Idle("INIT") /\ buffer # <<>> /\ Head(buffer) = <<"rubbish">>
  /\ TakeUnit
  /\ ConnectionClose("error")
  /\ pc' = "idle"
  /\ UNCHANGED <<request, uploadVars, remaining, body, given, seen,
                 responseVars, sent>>

(* process_header_line closes the connection and transmit_error_response   *)
(* makes it send an answer nevertheless.                                   *)
MalformedHeader ==
  /\ pc = "idle" /\ state \in (HeaderStates \ {"INIT"}) \cup FooterStates
  /\ buffer # <<>> /\ Head(buffer) = <<"rubbish">>
  /\ TakeUnit
  /\ TransmitError(400)
  /\ socketShut' = TRUE /\ context' = Completed /\ aware' = FALSE
  /\ post' = IF context' = context THEN post ELSE NoPostProcessor
  /\ ending' = "error"
  /\ pc' = "end"
  /\ UNCHANGED <<request, uploadVars, remaining, body, given, seen, sent>>

(* The memory of the connection, which is not modelled, does not suffice   *)
(* for its lines or for what is kept of them: 414 before the URL is known, *)
(* 413 after it.  If it is the arguments or the cookies that do not fit,   *)
(* the code queues the answer and goes through the rest of the headers     *)
(* that it has, without a call of the application; here it has not         *)
(* answered before it is through.                                          *)
MemoryEnds ==
  pc = "idle" /\ state \in HeaderStates \cup FooterStates \cup {"HEADERS_RECEIVED"}

HeaderTooLarge ==
  /\ MemoryEnds
  /\ TransmitError(IF state = "INIT" THEN 414 ELSE 413)
  /\ pc' = "end"
  /\ UNCHANGED <<request, readVars, socketShut, uploadVars, requestVars, sent,
                 ending>>

(* The connection is closed with no answer.                                *)
CloseUnanswered ==
  /\ ConnectionClose("error")
  /\ pc' = "idle"
  /\ UNCHANGED <<request, readVars, uploadVars, remaining, body, given, seen,
                 responseVars, sent>>

(* It does not even suffice for the headers of the error.                  *)
NoMemoryForAnswer == MemoryEnds /\ CloseUnanswered

(* parse_connection_headers; the length must be a number.                  *)
UnreadableLength ==
  Idle("HEADERS_RECEIVED") /\ request.upload = "unreadable" /\ CloseUnanswered

ParseHeaders ==
  /\ Idle("HEADERS_RECEIVED") /\ request.upload # "unreadable"
  /\ upload' = CASE request.upload = "none" -> 0
                 [] request.upload = "length" -> Len(Upload(request))
                 [] OTHER -> SizeUnknown
  /\ Becomes("HEADERS_PROCESSED")
  /\ UNCHANGED <<request, readVars, socketShut, chunk, requestVars,
                 responseVars, sent, ending>>

(* What the request may still take, so that 0 says "too much".             *)
MaxBody == request.limit
AllowanceOffByOne == MaxBody % UnsignedRange
Allowance == (MaxBody + 1) % UnsignedRange

(* Forms are read by a post processor; without a boundary there is none.   *)
IsForm == request.form # None /\ request.method = "POST"
CreatedPostProcessor ==
  IF IsForm /\ (request.form.encoding = "multipart" =>
                 request.form.boundary # <<>>)
  THEN NewPostProcessor(request.form, request.query) ELSE NoPostProcessor

(* handle_request, its first call: the request is created.                 *)
FirstCall ==
  /\ Idle("HEADERS_PROCESSED")
  /\ aware' = TRUE /\ context' = "request"
  /\ remaining' = Allowance /\ post' = CreatedPostProcessor
  /\ IF request.expect
     THEN state' = "CONTINUE_SENDING" /\ pc' = "end"
     ELSE Becomes(IF upload = 0 THEN "FOOTERS_RECEIVED" ELSE "CONTINUE_SENT")
  /\ UNCHANGED <<request, readVars, socketShut, uploadVars, body, given, seen,
                 responseVars, sent, ending>>

(* Until "100 continue" and the headers are written there is nothing to do.*)
NothingToDo ==
  /\ pc = "idle" /\ state \in SendStates
  /\ Wait
  /\ UNCHANGED <<request, readVars, socketShut, uploadVars, requestVars,
                 responseVars, sent, ending>>

-----------------------------------------------------------------------------
(* MHD_CONNECTION_CONTINUE_SENT and process_request_body                   *)

EnterBody ==
  /\ Idle("CONTINUE_SENT") /\ buffer # <<>>
  /\ pc' = "body"
  /\ UNCHANGED <<request, readVars, state, socketShut, uploadVars,
                 requestVars, responseVars, sent, ending>>

(* After the loop over the buffer, or without it.                          *)
BodyIsRead == (Idle("CONTINUE_SENT") /\ buffer = <<>>) \/ pc = "after body"

AfterBody ==
  /\ BodyIsRead
  /\ IF upload = 0
     THEN Becomes(IF request.upload = "chunked" THEN "BODY_RECEIVED"
                  ELSE "FOOTERS_RECEIVED")
     ELSE Wait
  /\ UNCHANGED <<request, readVars, socketShut, uploadVars, requestVars,
                 responseVars, sent, ending>>

(* There is more to come, and no memory is left to read it into.           *)
NoMemoryForBody ==
  /\ BodyIsRead /\ upload # 0
  /\ TransmitError(500)
  /\ pc' = "end"
  /\ UNCHANGED <<request, readVars, socketShut, uploadVars, requestVars, sent,
                 ending>>

Chunked == request.upload = "chunked"

(* The loop goes on while there is something in the buffer.                *)
Again == IF Chunked /\ buffer' # <<>> THEN "body" ELSE "after body"

(* The line before a chunk, or the newline after it.                       *)
ChunkLine ==
  /\ pc = "body" /\ Chunked
  /\ chunk \in {None, 0}
  /\ TakeUnit
  /\ IF Head(buffer)[1] = (IF chunk = None THEN "size" ELSE "newline")
     THEN /\ chunk' = IF chunk = None THEN Head(buffer)[2] ELSE None
          /\ upload' = IF Head(buffer) = <<"size", 0>> THEN 0 ELSE upload
          /\ pc' = IF upload' = 0 THEN "after body" ELSE Again
          /\ UNCHANGED <<state, socketShut, aware, context, post, ending>>
     ELSE /\ ConnectionClose("error")
          /\ pc' = "idle"
          /\ UNCHANGED uploadVars
  /\ UNCHANGED <<request, remaining, body, given, seen, responseVars, sent>>

(* How much of the buffer is given to the application.                     *)
AvailableUnbounded == IF Chunked THEN Min({chunk, Len(buffer)})
                      ELSE Len(buffer)
Available ==
  IF Chunked THEN Min({chunk, Len(buffer)})
  ELSE IF upload \notin {0, SizeUnknown} THEN Min({upload, Len(buffer)})
  ELSE Len(buffer)

(* Its body is kept while it is shorter than the limit.                    *)
Fits(n) == MaxBody = 0 \/ remaining > n

(* handle_request for a part of the body                                   *)
ProcessRequestBody(n) ==
  IF Fits(n)
  THEN /\ body' = body \o SubSeq(buffer, 1, n)
       /\ remaining' = IF MaxBody = 0 THEN remaining ELSE remaining - n
  ELSE remaining' = 0 /\ UNCHANGED body

InChunk == pc = "body" /\ ~(Chunked /\ chunk \in {None, 0})
Posting == IsForm /\ Fits(Available)

(* MHD_post_process is called for a part of a form, turns and returns.     *)
PostCall ==
  /\ InChunk /\ Posting /\ post # NoPostProcessor
  /\ post' = Begin(post, SubSeq(buffer, 1, Available))
  /\ pc' = "post"
  /\ UNCHANGED <<request, readVars, state, socketShut, uploadVars, aware,
                 context, remaining, body, given, seen, responseVars, sent,
                 ending>>

PostTurn ==
  /\ pc = "post" /\ ~Finished(post)
  /\ post' = Turn(post)
  /\ UNCHANGED <<request, readVars, state, pc, socketShut, uploadVars, aware,
                 context, remaining, body, given, seen, responseVars, sent,
                 ending>>

BodyCall ==
  /\ \/ InChunk /\ ~Posting
     \/ pc = "post" /\ Finished(post) /\ post.ok
  /\ LET n == Available IN
     /\ ProcessRequestBody(n)
     /\ buffer' = SubSeq(buffer, n + 1, Len(buffer))
     /\ given' = given + n
     /\ chunk' = IF Chunked THEN chunk - n ELSE chunk
     /\ upload' = IF upload = SizeUnknown THEN upload
                  ELSE (upload - n) % (SizeUnknown + 1)
     /\ pc' = IF Chunked THEN Again ELSE "after body"
  /\ UNCHANGED <<request, input, state, socketShut, aware, context, post,
                 seen, responseVars, sent, ending>>

(* There is no post processor, or it returns MHD_NO.                       *)
PostFails ==
  /\ \/ InChunk /\ Posting /\ post = NoPostProcessor
     \/ pc = "post" /\ Finished(post) /\ ~post.ok
  /\ CloseUnanswered

-----------------------------------------------------------------------------
(* MHD_CONNECTION_FOOTERS_RECEIVED: handle_request, its last call          *)

TooLarge == MaxBody # 0 /\ remaining = 0

(* request->handle deletes the post processor, which may bring a last      *)
(* value, and refuses some requests.                                       *)
FinalParams == IF post = NoPostProcessor THEN request.query
               ELSE Destroyed(post).params

Verdict ==
  CASE ~request.allowed -> 405
    [] request.allowed /\ post # NoPostProcessor /\ post.unsupported -> 415
    [] OTHER -> IF TooLarge THEN 413
                ELSE IF ValidUtf8(FinalParams) THEN 200 ELSE 415

Refuse ==
  /\ Verdict # 200
  /\ QueueResponse(Verdict, "buffer", 1)
  /\ UNCHANGED <<generator, seen>>

ServiceHandle ==
  /\ Verdict = 200
  /\ seen' = [body |-> body, params |-> FinalParams]
  /\ \/ \E n \in BodySizes :
          QueueResponse(200, "buffer", n) /\ UNCHANGED generator
     \/ \E o \in Outputs :
          /\ QueueResponse(200, "generator", SizeUnknown)
          /\ generator' = NewGenerator(o)

FinalCall ==
  /\ Idle("FOOTERS_RECEIVED")
  /\ Refuse \/ ServiceHandle
  /\ post' = IF request.allowed THEN NoPostProcessor ELSE post
  /\ state' = "HEADERS_SENDING" /\ pc' = "end"
  /\ UNCHANGED <<request, readVars, socketShut, uploadVars, aware, context,
                 remaining, body, given, sent, ending>>

(* service->handle or a respond_ method fails, or the headers cannot be    *)
(* built.                                                                  *)
FinalCallFails ==
  /\ Idle("FOOTERS_RECEIVED")
  /\ \/ UNCHANGED seen
     \/ Verdict = 200 /\ seen' = [body |-> body, params |-> FinalParams]
  /\ ConnectionClose("error")
  /\ pc' = "idle"
  /\ UNCHANGED <<request, readVars, uploadVars, remaining, body, given,
                 responseVars, sent>>

-----------------------------------------------------------------------------
(* The states after the headers.                                           *)

HeadersSent ==
  /\ Idle("HEADERS_SENT")
  /\ Becomes("NORMAL_BODY_UNREADY")
  /\ UNCHANGED <<request, readVars, socketShut, uploadVars, requestVars,
                 responseVars, sent, ending>>

UnreadyBody ==
  /\ Idle("NORMAL_BODY_UNREADY") /\ (response.size = 0 \/ IsReady)
  /\ IF response.size = 0 THEN Becomes("BODY_SENT")
     ELSE state' = "NORMAL_BODY_READY" /\ pc' = "end"
  /\ UNCHANGED <<request, readVars, socketShut, uploadVars, requestVars,
                 responseVars, sent, ending>>

ReadBody ==
  /\ Idle("NORMAL_BODY_UNREADY") /\ response.size # 0 /\ ~IsReady
  /\ CallReader
  /\ pc' = "end"
  /\ UNCHANGED <<request, readVars, uploadVars, remaining, body, given, seen,
                 position, sent>>

BodySent ==
  /\ Idle("BODY_SENT")
  /\ Becomes("FOOTERS_SENT")
  /\ UNCHANGED <<request, readVars, socketShut, uploadVars, requestVars,
                 responseVars, sent, ending>>

(* The application is told, and because of "Connection: close" the         *)
(* connection is closed.                                                   *)
FootersSent ==
  /\ Idle("FOOTERS_SENT")
  /\ response' = None /\ position' = 0
  /\ buffer' = <<>>
  /\ ConnectionClose("completed")
  /\ pc' = "idle"
  /\ UNCHANGED <<request, input, uploadVars, remaining, body, given, seen,
                 ready, start, generator, sent>>

(* cleanup_connection                                                      *)
Closed ==
  /\ Idle("CLOSED")
  /\ response' = None
  /\ pc' = "done"
  /\ UNCHANGED <<request, readVars, state, socketShut, uploadVars,
                 requestVars, position, ready, start, generator, sent, ending>>

(* The end of handle_idle: back to poll, or the timeout is over.           *)
Leave ==
  /\ pc = "end"
  /\ pc' = IF state = "CLOSED" THEN "idle" ELSE "poll"
  /\ UNCHANGED <<request, readVars, state, socketShut, uploadVars,
                 requestVars, responseVars, sent, ending>>

Timeout ==
  /\ pc = "end" /\ state # "CLOSED"
  /\ ConnectionClose("timeout")
  /\ pc' = "idle"
  /\ UNCHANGED <<request, readVars, uploadVars, remaining, body, given, seen,
                 responseVars, sent>>

-----------------------------------------------------------------------------
Client == Read \/ ReadEnd \/ SeeShutdown
Write == WriteHeaders \/ RefillBody \/ SendBody
ReceiveHeaders == HeaderLine \/ NoHeaderLine \/ MalformedFirstLine
                  \/ MalformedHeader \/ HeaderTooLarge \/ NoMemoryForAnswer
                  \/ UnreadableLength \/ ParseHeaders \/ FirstCall
                  \/ NothingToDo
ReceiveBody == EnterBody \/ AfterBody \/ NoMemoryForBody \/ ChunkLine \/ BodyCall
               \/ PostCall \/ PostTurn \/ PostFails
Answer == FinalCall \/ FinalCallFails \/ HeadersSent \/ UnreadyBody
          \/ ReadBody \/ BodySent \/ FootersSent \/ Closed

Next == Client \/ PollTimesOut \/ Write \/ ReceiveHeaders \/ ReceiveBody
        \/ Answer \/ Leave \/ Timeout

(* The handler thread runs on its own; the client need not send, read or   *)
(* leave.  The connection's timeout passes in the end, however often the   *)
(* thread goes back to poll meanwhile.                                     *)
Fairness ==
  /\ WF_vars(PollTimesOut \/ (pc = "write" /\ SendBody) \/ ReceiveHeaders
             \/ ReceiveBody \/ Answer \/ Leave)
  /\ SF_vars(Timeout)

Spec == Init /\ [][Next]_vars /\ Fairness

-----------------------------------------------------------------------------
(* The request of the application lives as long as it is used: the calls   *)
(* for the body and the reader of the response find it, and it is deleted  *)
(* when the connection ends (rest_server.cpp:506, con_cls dangles after).  *)
RequestLivesWhileUsed ==
  /\ aware <=> context = "request"
  /\ pc \in {"body", "post"} \/ Idle("FOOTERS_RECEIVED") => context = "request"
  /\ /\ response # None /\ response.kind = "generator"
     /\ state \in {"HEADERS_SENDING", "HEADERS_SENT", "NORMAL_BODY_READY",
                   "NORMAL_BODY_UNREADY"}
     => context = "request"
  /\ pc = "done" => context # "request"

(* However the upload arrives and in whatever chunks, the service sees all *)
(* of it and nothing else, and refuses it as too large exactly when it is  *)
(* longer than the limit (rest_server.cpp:180).  The library has the same  *)
(* status, 413, for headers and trailers that do not fit its memory: then  *)
(* the service has not seen the request.                                   *)
RefusedAsTooLarge ==
  response # None /\ response.code = 413 /\ response.kind # "error"

WholeBodyOrTooLarge ==
  LET whole == Upload(request) IN
  /\ seen # None => seen.body = whole /\ (MaxBody = 0 \/ Len(whole) <= MaxBody)
  /\ RefusedAsTooLarge => MaxBody # 0 /\ Len(whole) > MaxBody
  /\ response # None /\ response.kind = "error" => seen = None

(* A form means the same to the service into whatever pieces the network,   *)
(* the chunks and the buffers cut it: while it is read no piece of it is    *)
(* refused, the parameters are its fields and the arguments of the query,   *)
(* and it is refused only for what it says (rest_server.cpp:156-173).       *)
EndsAsAForm(form) ==
  form.after = <<>> \/ (form.encoding = "multipart" /\ form.after = NewLine)
WellFormedForm == request.form # None /\ EndsAsAForm(request.form)

(* What it takes of the clients.                                           *)
FormsAreReadable ==
  \A r \in Requests :
    r.form # None /\ EndsAsAForm(r.form) =>
      /\ r.method = "POST" /\ r.upload # "none" /\ IsReadable(r.form)
      /\ r.query \in [DOMAIN r.query -> Text]

FormIsUnderstood ==
  WellFormedForm =>
    /\ seen # None => seen.params = Parameters(request.form, request.query)
    /\ pc = "post" => post.ok
    /\ response # None /\ response.code = 415 =>
         \/ ~IsSupported(request.form)
         \/ ~ValidUtf8(Parameters(request.form, request.query))

(* The client gets a prefix of the answer without gap or repetition, and a *)
(* connection that is closed as completed has delivered all of it, however *)
(* the output of the generator grows and whatever the socket takes.        *)
AnswerSize == IF response.kind = "generator" THEN Last(generator.output)
              ELSE response.size
Delivered == state \in {"BODY_SENT", "FOOTERS_SENT"}
             \/ (state = "CLOSED" /\ ending = "completed")

AnswerIsWhole ==
  /\ sent = Bytes(1, Len(sent))
  /\ request.method = "HEAD" /\ context # None => sent = <<>>
  /\ response # None /\ Delivered /\ request.method # "HEAD" =>
       Len(sent) = AnswerSize

(* The handler does what libmicrohttpd promises to its application.        *)
Life == CASE context = None -> "none"
          [] context = "deleted" -> "completed"
          [] context = "request" /\ response = None -> "open"
          [] context = "request" /\ response # None /\ response.kind = "error" ->
               "abandoned"
          [] OTHER -> "answered"

Contract == INSTANCE RequestLife
              WITH Uploads <- {Upload(r) : r \in Requests},
                   upload <- Upload(request), life <- Life,
                   given <- given

KeepsContract == Contract!Spec

(* Every connection comes to its end, with whatever client.                *)
ConnectionEnds == <>(pc = "done")
=============================================================================
