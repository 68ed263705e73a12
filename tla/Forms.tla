-------------------------------- MODULE Forms --------------------------------
(***************************************************************************)
(* Forms as the clients of the REST server send them in the body of a POST *)
(* request, and the parameters they stand for.  A body is a sequence of    *)
(* units: characters, and for multipart/form-data the lines of the header  *)
(* of a part, each in one unit.                                            *)
(***************************************************************************)
EXTENDS Integers, Sequences, SequencesExt, FiniteSetsExt, TLC

CONSTANTS
  Hex,  \* escaped characters: a function from pairs of hex digits
  None

(* What means something in the text of an url-encoded form.                *)
Special == {"%", "+", "&", "=", "CR", "LF"}

ASSUME HexAssumption ==
  \A d \in DOMAIN Hex :
    /\ d \in STRING \X STRING /\ Hex[d] \in STRING
    /\ d[1] \notin Special /\ d[2] \notin Special

Char(c) == <<"char", c>>
Chars(s) == [i \in 1 .. Len(s) |-> Char(s[i])]
CR == Char("CR")
LF == Char("LF")
NewLine == <<CR, LF>>
Dashes == Chars(<<"-", "-">>)

(* application/x-www-form-urlencoded                                       *)
Escaped(u) ==
  IF u = Char(" ") THEN <<Char("+")>>
  ELSE IF \E d \in DOMAIN Hex : Char(Hex[d]) = u
       THEN <<Char("%")>> \o Chars(CHOOSE d \in DOMAIN Hex : Char(Hex[d]) = u)
       ELSE <<u>>

EscapedAll(s) == FlattenSeq([i \in 1 .. Len(s) |-> Escaped(s[i])])

UrlEncoded(fields) ==
  FlattenSeq([i \in 1 .. Len(fields) |->
    (IF i = 1 THEN <<>> ELSE <<Char("&")>>)
    \o EscapedAll(fields[i].key) \o <<Char("=")>> \o EscapedAll(fields[i].value)])

(* multipart/form-data                                                     *)
Part(field, boundary) ==
  Dashes \o boundary \o NewLine
  \o << <<"name", field.key>> >> \o NewLine
  \o (IF field.transfer = "none" THEN <<>>
      ELSE << <<"transfer", field.transfer>> >> \o NewLine)
  \o NewLine \o field.value \o NewLine

Multipart(fields, boundary) ==
  FlattenSeq([i \in 1 .. Len(fields) |-> Part(fields[i], boundary)])
  \o Dashes \o boundary \o Dashes

(* A form is [encoding, boundary, fields, before, after]: what a client    *)
(* puts before the first boundary, and what follows the form.              *)
FormBody(form) ==
  form.before
  \o (IF form.encoding = "urlencoded" THEN UrlEncoded(form.fields)
      ELSE Multipart(form.fields, form.boundary))
  \o form.after

(* Text of a form is written in characters, and a client escapes those     *)
(* that mean something.                                                    *)
Text == Seq({"char"} \X STRING)
Fields == [key : Text \ {None}, value : Text, transfer : STRING]

IsEscapable(s) ==
  \A i \in DOMAIN s : s[i][2] \in Special => \E d \in DOMAIN Hex : Hex[d] = s[i][2]

(* It chooses a boundary that does not occur in a value.                   *)
OccursFirst(mark, s, n) ==
  \A m \in 0 .. n - 1 : SubSeq(s, m + 1, m + Len(mark)) # mark

(* What it means: the last field with a key counts, and a field of the     *)
(* body more than an argument of the query.                                *)
Parameters(form, query) ==
  LET at(k) == {i \in 1 .. Len(form.fields) : form.fields[i].key = k} IN
  [k \in DOMAIN query \cup {form.fields[i].key : i \in 1 .. Len(form.fields)} |->
     IF at(k) = {} THEN query[k] ELSE form.fields[Max(at(k))].value]

Supported == {"none", "binary", "7bit", "8bit"}
IsSupported(form) ==
  form.encoding = "multipart" =>
    \A i \in 1 .. Len(form.fields) : form.fields[i].transfer \in Supported

(* valid_utf8: every other byte belongs to a character.                    *)
ValidUtf8(params) ==
  \A k \in DOMAIN params :
    Char("bad") \notin ToSet(k) \cup ToSet(params[k])
=============================================================================
