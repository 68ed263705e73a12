----------------------------- MODULE RequestLife -----------------------------
(***************************************************************************)
(* What libmicrohttpd promises to its application about one connection,    *)
(* and what rest_server relies on: a first call opens the request, then    *)
(* come calls with the parts of the upload, then one final call, unless    *)
(* the library answers with an error of its own before it, and the request *)
(* is completed exactly once if it was opened, whatever happens.           *)
(* Nothing is called for a request after its completion.                   *)
(***************************************************************************)
EXTENDS Naturals, Sequences

CONSTANT Uploads  \* what a client may upload: sequences

VARIABLES
  upload, \* what it uploads
  life,   \* "none", "open", "answered" (after the final call), "abandoned"
          \* (the library answers itself), "completed"
  given   \* how much of the upload the application was given

Init == upload \in Uploads /\ life = "none" /\ given = 0

First == life = "none" /\ life' = "open" /\ UNCHANGED <<upload, given>>

Part ==
  /\ life = "open"
  /\ given' \in given + 1 .. Len(upload)
  /\ UNCHANGED <<upload, life>>

(* The final call comes when the upload is complete.                       *)
Final ==
  /\ life = "open" /\ given = Len(upload)
  /\ life' = "answered"
  /\ UNCHANGED <<upload, given>>

Abandon == life = "open" /\ life' = "abandoned" /\ UNCHANGED <<upload, given>>

Complete ==
  /\ life \in {"open", "answered", "abandoned"}
  /\ life' = "completed"
  /\ UNCHANGED <<upload, given>>

Next == First \/ Part \/ Final \/ Abandon \/ Complete

Spec == Init /\ [][Next]_<<upload, life, given>>
=============================================================================
