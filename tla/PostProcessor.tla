---------------------------- MODULE PostProcessor ----------------------------
(***************************************************************************)
(* MHD_PostProcessor, which reads a form from the pieces in which it       *)
(* arrives, with the post_iterator of rest_server, which collects the      *)
(* parameters.  The post processor is a record p; Turn(p) is one turn of   *)
(* the loop of post_process_urlencoded or post_process_multipart over      *)
(* p.left, the part of the piece it has not looked at yet.  Nested         *)
(* multiparts are left out.                                                *)
(***************************************************************************)
EXTENDS Forms

CONSTANTS
  PostBuffer,   \* buffer_size
  EscapeBuffer  \* XBUF_SIZE

ASSUME PostBuffersAssumption ==
  PostBuffer \in Nat \ {0} /\ EscapeBuffer \in Nat /\ EscapeBuffer > 2

(* The key comes from an unfinished piece, or from a header; None before. *)
NewPostProcessor(form, query) ==
  [encoding |-> form.encoding, boundary |-> form.boundary,
   state |-> "Init", name |-> None, transfer |-> "none",
   buf |-> <<>>, escape |-> <<>>, offset |-> 0, must |-> FALSE,
   skip |-> "Inactive", dash |-> "Error",
   left |-> <<>>, changed |-> FALSE, ok |-> TRUE,
   params |-> query, unsupported |-> FALSE]

(* MHD_post_process is called with a piece, and returns.                   *)
Begin(p, piece) == [p EXCEPT !.left = piece, !.changed = TRUE]

Finished(p) ==
  \/ ~p.ok
  \/ /\ p.left = <<>>
     /\ p.encoding = "multipart" => p.buf = <<>> \/ ~p.changed

Failed(p) == [p EXCEPT !.state = "Error", !.ok = FALSE]

-----------------------------------------------------------------------------
(* post_iterator: a value comes in parts, the first one with offset 0.     *)
ParamBefore(p) ==
  IF p.offset > 0 /\ p.name \in DOMAIN p.params THEN p.params[p.name] ELSE <<>>

WithParam(params, name, value) ==
  [k \in DOMAIN params \cup {name} |-> IF k = name THEN value ELSE params[k]]

PostIterator(p, data) ==
  IF p.name = None \/ p.unsupported THEN p
  ELSE IF p.transfer \notin Supported THEN [p EXCEPT !.unsupported = TRUE]
  ELSE [p EXCEPT !.params = WithParam(@, p.name, ParamBefore(p) \o data)]

(* It is called from either encoding, which then moves on in the value.    *)
Deliver(p, data) ==
  [PostIterator(p, data) EXCEPT !.must = FALSE, !.offset = @ + Len(data)]

-----------------------------------------------------------------------------
(* post_process_urlencoded                                                 *)

(* The first position of s with a unit of S, or the one after its end.     *)
Find(s, S) == Min({i \in 1 .. Len(s) : s[i] \in S} \cup {Len(s) + 1})

(* MHD_unescape_plus and MHD_http_unescape: an escape without its digits   *)
(* ends the text, one with other characters stands for itself.             *)
Unescape(s) ==
  LET From[i \in 1 .. Len(s) + 3] ==
        IF i > Len(s) THEN <<>>
        ELSE IF s[i] = Char("+") THEN <<Char(" ")>> \o From[i + 1]
        ELSE IF s[i] # Char("%") THEN <<s[i]>> \o From[i + 1]
        ELSE IF i + 2 > Len(s) THEN <<>>
        ELSE LET digits == <<s[i + 1][2], s[i + 2][2]>> IN
             IF digits \in DOMAIN Hex
             THEN <<Char(Hex[digits])>> \o From[i + 3]
             ELSE <<s[i]>> \o From[i + 1]
  IN From[1]

ReadKey(p) ==
  LET e == Find(p.left, {Char("=")}) - 1 IN
  IF e + Len(p.buf) > PostBuffer THEN Failed(p)
  ELSE IF e = Len(p.left) THEN [p EXCEPT !.buf = @ \o p.left, !.left = <<>>]
  ELSE [p EXCEPT !.name = Unescape(p.buf \o SubSeq(p.left, 1, e)),
                 !.buf = <<>>, !.offset = 0, !.state = "ProcessValue",
                 !.left = SubSeq(p.left, e + 2, Len(p.left))]

EndOfValue == {Char("&"), LF, CR}

(* How much of the end of x is an escape that may go on in the next piece. *)
Incomplete(x) ==
  IF x # <<>> /\ Last(x) = Char("%") THEN 1
  ELSE IF Len(x) > 1 /\ x[Len(x) - 1] = Char("%") THEN 2 ELSE 0

ReadValue(p) ==
  LET amper == Min({Find(p.left, EndOfValue) - 1, EscapeBuffer})
      ended == amper < Len(p.left) /\ p.left[amper + 1] \in EndOfValue
      taken == Min({amper, EscapeBuffer - Len(p.escape)})
      x == p.escape \o SubSeq(p.left, 1, taken)
      kept == Len(x) - Incomplete(x)
      left == SubSeq(p.left, taken + 1, Len(p.left))
      q == [p EXCEPT !.escape = SubSeq(x, kept + 1, Len(x)), !.left = left]
      sent == Deliver(q, Unescape(SubSeq(x, 1, kept)))
  IN IF kept = 0 /\ left = <<>> THEN q
     ELSE IF ~ended \/ left[1] \notin EndOfValue THEN sent
     ELSE IF left[1] = Char("&")
     THEN [sent EXCEPT !.left = Tail(left), !.state = "Init"]
     ELSE [sent EXCEPT !.state = "ExpectNewLine"]

(* The rest of this piece is not looked at.                                *)
ReadNewLine(p) == [p EXCEPT !.left = <<>>, !.state = "Done"]

UrlTurn(p) ==
  CASE p.state = "Init" -> ReadKey(p)
    [] p.state = "ProcessValue" -> ReadValue(p)
    [] p.state = "ExpectNewLine" -> ReadNewLine(p)
    [] OTHER -> Failed(p)

-----------------------------------------------------------------------------
(* post_process_multipart                                                  *)

(* Input is moved to the buffer first.                                     *)
Room(p) == Min({PostBuffer - Len(p.buf), Len(p.left)})
Move(p) ==
  [p EXCEPT !.buf = @ \o SubSeq(p.left, 1, Room(p)),
            !.left = SubSeq(@, Room(p) + 1, Len(@)), !.changed = FALSE]

Drop(p, n) ==
  [p EXCEPT !.buf = SubSeq(@, n + 1, Len(@)), !.changed = @ \/ n > 0]

(* The machine for the ends of lines and for the dashes after a boundary.  *)
SkipTurn(p) ==
  LET first == p.buf[1]
      lineEnd == p.skip \in {"OptN", "Dash", "Full"}
  IN CASE p.skip = "OptN" /\ first = LF -> [Drop(p, 1) EXCEPT !.skip = "Inactive"]
       [] p.skip \in {"OptN", "Dash"} /\ first = Char("-") ->
            [Drop(p, 1) EXCEPT !.skip = "Dash2"]
       [] lineEnd /\ first = CR /\ Len(p.buf) > 1 /\ p.buf[2] = LF ->
            [Drop(p, 2) EXCEPT !.skip = "Inactive"]
       [] lineEnd /\ first = CR /\ ~(Len(p.buf) > 1 /\ p.buf[2] = LF) ->
            [Drop(p, 1) EXCEPT !.skip = "OptN"]
       [] lineEnd /\ first = LF /\ p.skip # "OptN" ->
            [Drop(p, 1) EXCEPT !.skip = "Inactive"]
       [] p.skip = "Dash2" /\ first = Char("-") ->
            [Drop(p, 1) EXCEPT !.skip = "Full", !.state = p.dash]
       [] OTHER -> Failed(p)

(* find_boundary before the first part, where other text is passed over.   *)
FindBoundary(p) ==
  LET mark == Dashes \o p.boundary
      dash == Find(p.buf, {Char("-")})
  IN IF Len(p.buf) < Len(mark)
     THEN IF Len(p.buf) = PostBuffer THEN [p EXCEPT !.state = "Error"] ELSE p
     ELSE IF SubSeq(p.buf, 1, Len(mark)) # mark
     THEN Drop(p, IF dash = 1 THEN 1 ELSE dash - 1)
     ELSE [Drop(p, Len(mark)) EXCEPT !.skip = "Dash", !.dash = "Done",
                                     !.state = "ProcessEntryHeaders"]

(* The first value of a header that is there counts.                       *)
WithHeader(p, unit) ==
  CASE unit[1] = "name" /\ p.name = None -> [p EXCEPT !.name = unit[2]]
    [] unit[1] = "transfer" /\ p.transfer = "none" ->
         [p EXCEPT !.transfer = unit[2]]
    [] OTHER -> p

NeedMore(p) == IF p.left = <<>> THEN p ELSE Failed(p)

ReadHeader(p) ==
  LET newline == Find(p.buf, {CR, LF}) - 1
      q == [p EXCEPT !.must = TRUE]
  IN IF newline = Len(p.buf)
     THEN IF newline = PostBuffer THEN Failed(q) ELSE NeedMore(q)
     ELSE IF newline = 0
     THEN [q EXCEPT !.skip = "Full", !.state = "PerformCheckMultipart",
                    !.changed = TRUE]
     ELSE [Drop(WithHeader(q, p.buf[1]), newline + 1) EXCEPT
             !.skip = IF p.buf[newline + 1] = CR THEN "OptN" ELSE @]

(* process_value_to_boundary: how many units in front belong to the value, *)
(* as far as that is known yet.  A line that begins with two dashes but    *)
(* not with the boundary is passed over; two such lines do not overlap.    *)
Line == NewLine \o Dashes
Lines(buf) == {n \in 0 .. Len(buf) - 5 : SubSeq(buf, n + 1, n + 4) = Line}
HasBoundary(p, n) ==
  SubSeq(p.buf, n + 5, n + 4 + Len(p.boundary)) = p.boundary
CanCheck(p, n) == n + Len(p.boundary) + 4 <= Len(p.buf)

(* A mutant of Known: the end of the buffer may begin a boundary.          *)
AllKnown(p) ==
  LET stops == {n \in Lines(p.buf) : CanCheck(p, n) => HasBoundary(p, n)}
  IN IF stops # {} THEN Min(stops) ELSE Len(p.buf)
Known(p) ==
  LET stops == {n \in Lines(p.buf) : CanCheck(p, n) => HasBoundary(p, n)}
  IN IF stops # {} THEN Min(stops)
     ELSE Max({0, Len(p.buf) - 4} \cup {n + 4 : n \in Lines(p.buf)})

ReadPart(p) ==
  LET n == Known(p)
      found == n \in Lines(p.buf) /\ CanCheck(p, n)
      value == SubSeq(p.buf, 1, n)
      q == IF p.must \/ n # 0 THEN Deliver(p, value) ELSE p
  IN IF ~found /\ n = 0 /\ Len(p.buf) = PostBuffer THEN Failed(p)
     ELSE IF ~found THEN Drop(q, n)
     ELSE [Drop(q, n + Len(p.boundary) + 4) EXCEPT
             !.skip = "Dash", !.state = "PerformCleanup", !.dash = "Done"]

MainTurn(p) ==
  CASE p.state = "Init" -> FindBoundary(p)
    [] p.state = "ProcessEntryHeaders" -> ReadHeader(p)
    [] p.state = "PerformCheckMultipart" ->
         [p EXCEPT !.state = "ProcessValueToBoundary", !.offset = 0,
                   !.changed = TRUE]
    [] p.state = "ProcessValueToBoundary" -> ReadPart(p)
    [] p.state = "PerformCleanup" ->
         [p EXCEPT !.name = None, !.transfer = "none",
                   !.state = "ProcessEntryHeaders", !.changed = TRUE]
    [] OTHER -> Failed(p)

MultipartTurn(p) ==
  IF Room(p) = 0 /\ ~p.changed /\ p.left # <<>> THEN Failed(p)
  ELSE IF p.skip = "Inactive" THEN MainTurn(Move(p))
  ELSE SkipTurn(Move(p))

Turn(p) == IF p.encoding = "urlencoded" THEN UrlTurn(p) ELSE MultipartTurn(p)

-----------------------------------------------------------------------------
(* MHD_destroy_post_processor: the last value of a urlencoded form is      *)
(* finished by a newline, in two turns.                                    *)
Destroyed(p) ==
  IF p.state = "ProcessValue" THEN UrlTurn(UrlTurn(Begin(p, <<LF>>))) ELSE p

-----------------------------------------------------------------------------
(* Forms that are written as a client has to, with keys and a boundary     *)
(* that fit into the buffer.                                               *)
ReadableUrl(form) ==
  /\ form.before = <<>>
  /\ \A i \in DOMAIN form.fields :
       /\ IsEscapable(form.fields[i].key) /\ IsEscapable(form.fields[i].value)
       /\ Len(EscapedAll(form.fields[i].key)) <= PostBuffer

ReadableMultipart(form) ==
  LET mark == Dashes \o form.boundary IN
  /\ form.before \in Text /\ form.boundary \in Text
  /\ Len(Line \o form.boundary) <= PostBuffer
  /\ OccursFirst(mark, form.before \o mark, Len(form.before))
  /\ \A i \in DOMAIN form.fields :
       OccursFirst(NewLine \o mark, form.fields[i].value \o NewLine \o mark,
                   Len(form.fields[i].value))

IsReadable(form) ==
  /\ form.fields \in Seq(Fields)
  /\ \/ form.encoding = "urlencoded" /\ ReadableUrl(form)
     \/ form.encoding = "multipart" /\ ReadableMultipart(form)
=============================================================================
