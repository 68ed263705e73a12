---------------------------- MODULE MCRestRequest ----------------------------
(* A small instance of RestRequest: bodies of up to five bytes around a     *)
(* limit of three, in one part or in chunks, forms in both encodings, and   *)
(* generators that produce nothing, something at once, or more than fits.   *)
EXTENDS RestRequest

Plain(method, sizes) ==
  [method |-> method, allowed |-> TRUE, form |-> None, expect |-> FALSE,
   upload |-> IF sizes = <<>> THEN "none" ELSE "length", sizes |-> sizes,
   malformed |-> 0, query |-> <<>>, limit |-> 3]

Get == Plain("GET", <<>>)
Post(n) == Plain("POST", <<n>>)
ChunkedPost(sizes) == [Post(1) EXCEPT !.upload = "chunked", !.sizes = sizes]

PlainRequests ==
  {Get, Plain("HEAD", <<>>),
   [Get EXCEPT !.allowed = FALSE], [Get EXCEPT !.expect = TRUE]}
  \cup {[Get EXCEPT !.malformed = i] : i \in 1 .. 2}
  \cup {Post(n) : n \in 2 .. 5} \cup {[Post(4) EXCEPT !.limit = 0]}
  \cup {[Post(3) EXCEPT !.expect = TRUE], [Post(1) EXCEPT !.upload = "other"],
        [Post(1) EXCEPT !.upload = "unreadable"]}
  \cup {ChunkedPost(s) : s \in {<<1, 2>>, <<2, 2>>, <<3>>, <<2, 1, 2>>}}
  \cup {[ChunkedPost(<<1, 1>>) EXCEPT !.malformed = i] :
          i \in {3, 4, 6, 11, 12}}

MCHex == <<"2", "6">> :> "&" @@ <<"2", "5">> :> "%" @@ <<"F", "F">> :> "bad"

Field(key, value) ==
  [key |-> Chars(key), value |-> Chars(value), transfer |-> "none"]
Url(fields, after) ==
  [encoding |-> "urlencoded", boundary |-> <<>>, fields |-> fields,
   before |-> <<>>, after |-> after]

(* Escapes that cross every limit of the small buffer, values that escape   *)
(* an escape, empty values, a key given twice, and bytes that are no text.  *)
UrlForms ==
  {Url(<<Field(<<"k">>, <<"a", "&", " ", "&">>), Field(<<"l">>, <<>>)>>, <<>>),
   Url(<<Field(<<"k">>, <<"%", "2", "6">>), Field(<<"k">>, <<"b">>)>>, <<>>),
   Url(<<Field(<<"&", "k">>, <<"a", "b", "a", "b", "&", "b">>)>>, <<>>),
   Url(<<Field(<<"k">>, <<"bad">>)>>, <<>>),
   Url(<<Field(<<"k">>, <<"a">>)>>, NewLine)}

Boundary == Chars(<<"B", "B">>)
Parts(fields, before, after) ==
  [encoding |-> "multipart", boundary |-> Boundary, fields |-> fields,
   before |-> before, after |-> after]

(* Values that look like a boundary, empty ones, text around the form, and  *)
(* an encoding that is not supported.                                       *)
PartForms ==
  {Parts(<<Field(<<"k">>, <<"a", "CR", "LF", "-", "-", "B", "a">>)>>, <<>>, <<>>),
   Parts(<<Field(<<"k">>, <<>>), Field(<<"l">>, <<"CR", "-">>)>>, <<>>, NewLine),
   Parts(<<Field(<<"k">>, <<>>), Field(<<"k">>, <<"b">>)>>,
         Chars(<<"a", "-", "-", "B">>), <<>>),
   Parts(<<[Field(<<"k">>, <<"a">>) EXCEPT !.transfer = "base64"]>>, <<>>, <<>>),
   Parts(<<Field(<<"k">>, <<"a">>)>>, <<>>, NewLine \o Chars(<<"a">>)),
   [Parts(<<Field(<<"k">>, <<"a">>)>>, <<>>, <<>>) EXCEPT !.boundary = <<>>]}

FormPost(f, limit) == [Post(0) EXCEPT !.form = f, !.limit = limit]
Halves(n) == <<n \div 2, n - n \div 2>>

FormRequests ==
  {FormPost(f, 0) : f \in UrlForms \cup PartForms}
  \cup UNION {{FormPost(f, Len(FormBody(f))), FormPost(f, Len(FormBody(f)) - 1),
               [FormPost(f, 0) EXCEPT !.query = Chars(<<"k">>) :> Chars(<<"q">>)],
               [FormPost(f, 0) EXCEPT !.upload = "chunked",
                                      !.sizes = Halves(Len(FormBody(f)))]} :
                f \in {Url(<<Field(<<"k">>, <<"%", "2">>)>>, <<>>)}}

MCRequests == PlainRequests \cup FormRequests

MCOutputs == {<<0>>, <<1, 1>>, <<0, 1, 4>>, <<0, 2, 5>>, <<4, 4, 6>>}
MCBodySizes == {0, 2}

ASSUME FormsAreReadable
==============================================================================
