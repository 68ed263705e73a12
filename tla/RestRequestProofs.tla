-------------------------- MODULE RestRequestProofs --------------------------
(***************************************************************************)
(* Proofs about a connection of the REST server, for every set of          *)
(* requests, whatever the pieces in which they arrive.                     *)
(***************************************************************************)
EXTENDS RestRequest, SequenceTheorems, FiniteSetTheorems, WellFoundedInduction,
        TLAPS

LEMMA LeastExists ==
  ASSUME NEW S \in SUBSET Nat, S # {}
  PROVE  \E n \in S : \A k \in S : n <= k
  <1>1. IsWellFoundedOn({pair \in Nat \X Nat : pair[1] < pair[2]}, Nat)
    BY NatLessThanWellFounded DEF OpToRel
  <1>2. PICK least \in S : \A k \in S : <<k, least>> \notin {pair \in Nat \X Nat : pair[1] < pair[2]}
    <2>1. S \subseteq Nat /\ S # {}
      OBVIOUS
    <2> QED BY <1>1, <2>1, WFMin
  <1>3. ASSUME NEW k \in S
        PROVE  least <= k
    <2>1. least \in Nat /\ k \in Nat /\ <<k, least>> \in Nat \X Nat
      OBVIOUS
    <2>2. ~(k < least)
      BY <1>2, <2>1
    <2> QED BY <2>1, <2>2
  <1> QED BY <1>3

-----------------------------------------------------------------------------
(* The chunks of an upload: their bytes are counted and their units are    *)
(* laid out by recursive functions.                                        *)

SumsUpTo(n, sizes, sums) ==
  sums = [i \in 0 .. n |-> IF i = 0 THEN 0 ELSE sums[i - 1] + sizes[i]]

LEMMA SumsExist ==
  ASSUME NEW sizes, NEW n \in Nat
  PROVE  \E sums : SumsUpTo(n, sizes, sums)
  <1> DEFINE without == {k \in Nat : ~\E sums : SumsUpTo(k, sizes, sums)}
  <1> SUFFICES ASSUME without # {} PROVE FALSE
    OBVIOUS
  <1>1. PICK least \in without : \A k \in without : least <= k
    <2>1. without \in SUBSET Nat
      OBVIOUS
    <2> HIDE DEF without
    <2> QED BY <2>1, LeastExists
  <1>2. least \in Nat /\ ~\E sums : SumsUpTo(least, sizes, sums)
    BY <1>1
  <1>3. least # 0
    <2>1. SumsUpTo(0, sizes, [i \in 0 .. 0 |-> 0])
      BY DEF SumsUpTo
    <2> QED BY <1>2, <2>1
  <1>4. PICK shorter : SumsUpTo(least - 1, sizes, shorter)
    <2>1. least - 1 \in Nat /\ least - 1 < least
      BY <1>2, <1>3
    <2>2. least - 1 \notin without
      BY <1>1, <2>1
    <2> QED BY <2>1, <2>2
  <1> DEFINE longer == [i \in 0 .. least |->
                          IF i = 0 THEN 0 ELSE shorter[i - 1] + sizes[i]]
  <1>5. ASSUME NEW i \in 0 .. least - 1
        PROVE  longer[i] = shorter[i]
    <2>1. shorter[i] = IF i = 0 THEN 0 ELSE shorter[i - 1] + sizes[i]
      BY <1>4 DEF SumsUpTo
    <2>2. i \in 0 .. least
      BY <1>2
    <2> QED BY <2>1, <2>2
  <1>6. ASSUME NEW i \in 0 .. least, i # 0
        PROVE  longer[i] = longer[i - 1] + sizes[i]
    <2>1. i - 1 \in 0 .. least - 1
      BY <1>2, <1>6
    <2>2. longer[i - 1] = shorter[i - 1]
      BY <1>5, <2>1
    <2> QED BY <1>6, <2>2
  <1>7. SumsUpTo(least, sizes, longer)
    BY <1>6 DEF SumsUpTo
  <1> QED BY <1>2, <1>7

LEMMA BytesUpToFacts ==
  ASSUME NEW r \in Requests
  PROVE  /\ BytesUpTo(r) \in [0 .. Len(r.sizes) -> Nat]
         /\ BytesUpTo(r)[0] = 0
         /\ \A i \in 1 .. Len(r.sizes) :
              BytesUpTo(r)[i] = BytesUpTo(r)[i - 1] + r.sizes[i]
         /\ \A i \in 1 .. Len(r.sizes) : r.sizes[i] \in Nat
         /\ Len(r.sizes) \in Nat
  <1> DEFINE n == Len(r.sizes)
             sums == BytesUpTo(r)
  <1>1. n \in Nat /\ \A i \in 1 .. n : r.sizes[i] \in Nat
    BY RequestsAssumption
  <1>2. SumsUpTo(n, r.sizes, sums)
    <2>1. sums = CHOOSE s : SumsUpTo(n, r.sizes, s)
      BY DEF BytesUpTo, SumsUpTo
    <2> HIDE DEF n, sums
    <2> QED BY <1>1, <2>1, SumsExist
  <1> HIDE DEF n, sums
  <1>3. /\ DOMAIN sums = 0 .. n /\ sums[0] = 0
        /\ \A i \in 1 .. n : sums[i] = sums[i - 1] + r.sizes[i]
        /\ sums = [i \in 0 .. n |-> sums[i]]
    <2>1. sums = [i \in 0 .. n |-> IF i = 0 THEN 0 ELSE sums[i - 1] + r.sizes[i]]
      BY <1>2 DEF SumsUpTo
    <2>2. ASSUME NEW i \in 0 .. n
          PROVE  sums[i] = IF i = 0 THEN 0 ELSE sums[i - 1] + r.sizes[i]
      BY <2>1
    <2>3. DOMAIN sums = 0 .. n /\ sums = [i \in 0 .. n |-> sums[i]]
      BY <2>1
    <2>4. 0 \in 0 .. n /\ \A i \in 1 .. n : i \in 0 .. n /\ i # 0
      BY <1>1
    <2> QED BY <2>2, <2>3, <2>4
  <1> DEFINE bad == {i \in Nat : i <= n /\ sums[i] \notin Nat}
  <1>4. bad = {}
    <2> SUFFICES ASSUME bad # {} PROVE FALSE
      OBVIOUS
    <2>1. PICK least \in bad : \A k \in bad : least <= k
      <3>1. bad \in SUBSET Nat
        OBVIOUS
      <3> HIDE DEF bad
      <3> QED BY <3>1, LeastExists
    <2>2. least \in Nat /\ least <= n /\ sums[least] \notin Nat
      BY <2>1
    <2>3. least # 0
      BY <1>3, <2>2
    <2>4. least - 1 \in Nat /\ least - 1 <= n /\ least - 1 < least /\ least \in 1 .. n
      BY <1>1, <2>2, <2>3
    <2>5. sums[least - 1] \in Nat
      BY <2>1, <2>4
    <2>6. sums[least] = sums[least - 1] + r.sizes[least] /\ r.sizes[least] \in Nat
      BY <1>1, <1>3, <2>4
    <2> QED BY <2>2, <2>5, <2>6
  <1>5. \A i \in 0 .. n : sums[i] \in Nat
    BY <1>1, <1>4
  <1> QED BY <1>1, <1>3, <1>5 DEF n, sums

Flattening(n, seqs, flat) ==
  flat = [i \in 1 .. n |-> IF i = 1 THEN seqs[i] ELSE flat[i - 1] \o seqs[i]]

LEMMA FlatteningExists ==
  ASSUME NEW seqs, NEW n \in Nat
  PROVE  \E flat : Flattening(n, seqs, flat)
  <1> DEFINE without == {k \in Nat : ~\E flat : Flattening(k, seqs, flat)}
  <1> SUFFICES ASSUME without # {} PROVE FALSE
    OBVIOUS
  <1>1. PICK least \in without : \A k \in without : least <= k
    <2>1. without \in SUBSET Nat
      OBVIOUS
    <2> HIDE DEF without
    <2> QED BY <2>1, LeastExists
  <1>2. least \in Nat /\ ~\E flat : Flattening(least, seqs, flat)
    BY <1>1
  <1>3. least # 0
    <2>1. Flattening(0, seqs, [i \in 1 .. 0 |-> 0])
      BY DEF Flattening
    <2> QED BY <1>2, <2>1
  <1>4. PICK shorter : Flattening(least - 1, seqs, shorter)
    <2>1. least - 1 \in Nat /\ least - 1 < least
      BY <1>2, <1>3
    <2>2. least - 1 \notin without
      BY <1>1, <2>1
    <2> QED BY <2>1, <2>2
  <1> DEFINE longer == [i \in 1 .. least |->
                          IF i = 1 THEN seqs[i] ELSE shorter[i - 1] \o seqs[i]]
  <1>5. ASSUME NEW i \in 1 .. least - 1
        PROVE  longer[i] = shorter[i]
    <2>1. shorter[i] = IF i = 1 THEN seqs[i] ELSE shorter[i - 1] \o seqs[i]
      BY <1>4 DEF Flattening
    <2>2. i \in 1 .. least
      BY <1>2
    <2> QED BY <2>1, <2>2
  <1>6. ASSUME NEW i \in 1 .. least, i # 1
        PROVE  longer[i] = longer[i - 1] \o seqs[i]
    <2>1. i - 1 \in 1 .. least - 1
      BY <1>2, <1>6
    <2>2. longer[i - 1] = shorter[i - 1]
      BY <1>5, <2>1
    <2> QED BY <1>6, <2>2
  <1>7. Flattening(least, seqs, longer)
    BY <1>6 DEF Flattening
  <1> QED BY <1>2, <1>7

(* The units of a flattened sequence are found where the lengths of its    *)
(* parts say.                                                              *)
Parts(S, n, seqs, before) ==
  /\ n \in Nat /\ seqs \in [1 .. n -> Seq(S)]
  /\ before \in [0 .. n -> Nat] /\ before[0] = 0
  /\ \A i \in 1 .. n : before[i] = before[i - 1] + Len(seqs[i])

LEMMA PartFacts ==
  ASSUME NEW S, NEW n, NEW seqs, NEW before, Parts(S, n, seqs, before),
         NEW i \in 1 .. n
  PROVE  /\ seqs[i] \in Seq(S) /\ Len(seqs[i]) \in Nat
         /\ before[i] \in Nat /\ before[i - 1] \in Nat
         /\ before[i] = before[i - 1] + Len(seqs[i])
         /\ n \in Nat /\ i \in Nat /\ i - 1 \in Nat /\ i > 0
  <1>1. n \in Nat
    BY DEF Parts
  <1>2. i \in Nat /\ i > 0 /\ i - 1 \in Nat /\ i - 1 \in 0 .. n /\ i \in 0 .. n
    BY <1>1
  <1>3. seqs[i] \in Seq(S) /\ before[i] \in Nat /\ before[i - 1] \in Nat
    BY <1>2 DEF Parts
  <1>4. before[i] = before[i - 1] + Len(seqs[i])
    BY DEF Parts
  <1> QED BY <1>1, <1>2, <1>3, <1>4

LaidOut(S, seqs, before, s, k) ==
  /\ s \in Seq(S) /\ Len(s) = before[k]
  /\ \A i \in 1 .. k :
       /\ before[i] <= before[k]
       /\ \A j \in 1 .. Len(seqs[i]) : s[before[i - 1] + j] = seqs[i][j]

LEMMA LaidOutNext ==
  ASSUME NEW S, NEW n, NEW seqs, NEW before, Parts(S, n, seqs, before),
         NEW k \in 1 .. n, k # 1,
         NEW s, LaidOut(S, seqs, before, s, k - 1)
  PROVE  LaidOut(S, seqs, before, s \o seqs[k], k)
  <1> DEFINE t == s \o seqs[k]
  <1>0. n \in Nat /\ k \in Nat /\ k > 1 /\ k - 1 \in 1 .. n
    BY PartFacts
  <1>1. seqs[k] \in Seq(S) /\ Len(seqs[k]) \in Nat
    BY PartFacts
  <1>2. /\ before[k] = before[k - 1] + Len(seqs[k]) /\ before[k - 1] \in Nat
        /\ before[k] \in Nat
    BY PartFacts
  <1>3. s \in Seq(S) /\ Len(s) = before[k - 1]
    BY DEF LaidOut
  <1>4. /\ t \in Seq(S) /\ Len(t) = Len(s) + Len(seqs[k])
        /\ \A q \in 1 .. Len(s) + Len(seqs[k]) :
             t[q] = IF q <= Len(s) THEN s[q] ELSE seqs[k][q - Len(s)]
    BY <1>1, <1>3, ConcatProperties
  <1> HIDE DEF t
  <1>5. ASSUME NEW i \in 1 .. k
        PROVE  /\ before[i] <= before[k]
               /\ \A j \in 1 .. Len(seqs[i]) : t[before[i - 1] + j] = seqs[i][j]
    <2>1. CASE i = k
      <3>1. ASSUME NEW j \in 1 .. Len(seqs[k])
            PROVE  t[before[k - 1] + j] = seqs[k][j]
        <4> DEFINE q == before[k - 1] + j
        <4>1. /\ q \in 1 .. Len(s) + Len(seqs[k])
              /\ ~(q <= Len(s)) /\ q - Len(s) = j
          BY <1>1, <1>2, <1>3
        <4> HIDE DEF q
        <4>2. t[q] = seqs[k][j]
          BY <1>4, <4>1
        <4> QED BY <4>2 DEF q
      <3>2. before[k] <= before[k]
        BY <1>1, <1>2
      <3> QED BY <2>1, <3>1, <3>2
    <2>2. CASE i # k
      <3>1. i \in 1 .. k - 1 /\ i \in 1 .. n
        BY <1>0, <2>2
      <3>2. before[i] <= before[k - 1]
        BY <3>1 DEF LaidOut
      <3>3. /\ before[i] = before[i - 1] + Len(seqs[i]) /\ Len(seqs[i]) \in Nat
            /\ before[i] \in Nat /\ before[i - 1] \in Nat
        BY <3>1, PartFacts
      <3>4. ASSUME NEW j \in 1 .. Len(seqs[i])
            PROVE  t[before[i - 1] + j] = seqs[i][j]
        <4>1. s[before[i - 1] + j] = seqs[i][j]
          BY <3>1 DEF LaidOut
        <4> DEFINE q == before[i - 1] + j
        <4>2. q \in 1 .. Len(s) + Len(seqs[k]) /\ q <= Len(s)
          <5>1. q \in Nat /\ q >= 1 /\ q <= before[i]
            BY <3>3
          <5>2. before[k - 1] \in Nat /\ q <= before[k - 1]
            BY <1>2, <3>2, <3>3, <5>1
          <5> HIDE DEF q
          <5> QED BY <1>1, <1>3, <5>1, <5>2
        <4> HIDE DEF q
        <4>3. t[q] = s[q]
          BY <1>4, <4>2
        <4> QED BY <4>1, <4>3 DEF q
      <3>5. before[i] <= before[k]
        BY <1>1, <1>2, <3>2, <3>3
      <3> QED BY <3>4, <3>5
    <2> QED BY <2>1, <2>2
  <1>6. Len(t) = before[k]
    BY <1>2, <1>3, <1>4
  <1>7. LaidOut(S, seqs, before, t, k)
    BY <1>4, <1>5, <1>6 DEF LaidOut
  <1> QED BY <1>7 DEF t

LEMMA FlattenSeqFacts ==
  ASSUME NEW S, NEW n, NEW seqs, NEW before, Parts(S, n, seqs, before)
  PROVE  LaidOut(S, seqs, before, FlattenSeq(seqs), n)
  <1>1. Len(seqs) = n /\ n \in Nat
    BY DEF Parts
  <1>2. CASE n = 0
    <2>1. FlattenSeq(seqs) = seqs
      BY <1>1, <1>2 DEF FlattenSeq
    <2>2. seqs \in Seq(S) /\ before[0] = 0
      BY <1>2 DEF Parts
    <2> QED BY <1>1, <1>2, <2>1, <2>2 DEF LaidOut
  <1>3. CASE n # 0
    <2> DEFINE flat == CHOOSE f : Flattening(n, seqs, f)
    <2>1. FlattenSeq(seqs) = flat[n]
      BY <1>1, <1>3 DEF FlattenSeq, Flattening
    <2>2. Flattening(n, seqs, flat)
      BY <1>1, FlatteningExists
    <2> HIDE DEF flat
    <2>3. ASSUME NEW i \in 1 .. n
          PROVE  flat[i] = IF i = 1 THEN seqs[i] ELSE flat[i - 1] \o seqs[i]
      BY <2>2 DEF Flattening
    <2> DEFINE wrong == {k \in Nat : k \in 1 .. n
                           /\ ~LaidOut(S, seqs, before, flat[k], k)}
    <2>4. wrong = {}
      <3> SUFFICES ASSUME wrong # {} PROVE FALSE
        OBVIOUS
      <3>1. PICK least \in wrong : \A k \in wrong : least <= k
        <4>1. wrong \in SUBSET Nat
          OBVIOUS
        <4> HIDE DEF wrong
        <4> QED BY <4>1, LeastExists
      <3>2. least \in Nat /\ least \in 1 .. n /\ ~LaidOut(S, seqs, before, flat[least], least)
        BY <3>1
      <3>3. least # 1
        <4> SUFFICES ASSUME least = 1 PROVE FALSE
          OBVIOUS
        <4>1. flat[1] = seqs[1]
          BY <2>3, <3>2
        <4>2. /\ seqs[1] \in Seq(S) /\ before[1] = before[1 - 1] + Len(seqs[1])
              /\ Len(seqs[1]) \in Nat /\ before[1] \in Nat
          BY <3>2, PartFacts
        <4>3. before[1 - 1] = 0 /\ before[1] = Len(seqs[1])
          BY <4>2 DEF Parts
        <4>4. \A j \in 1 .. Len(seqs[1]) : flat[1][before[1 - 1] + j] = seqs[1][j]
          BY <4>1, <4>3
        <4>5. LaidOut(S, seqs, before, flat[1], 1)
          BY <4>1, <4>2, <4>3, <4>4 DEF LaidOut
        <4> QED BY <3>2, <4>5
      <3>4. least - 1 \in Nat /\ least - 1 \in 1 .. n /\ least - 1 < least
        BY <1>1, <3>2, <3>3
      <3>5. LaidOut(S, seqs, before, flat[least - 1], least - 1)
        <4>1. least - 1 \notin wrong
          BY <3>1, <3>4
        <4> QED BY <3>4, <4>1
      <3>6. flat[least] = flat[least - 1] \o seqs[least]
        BY <2>3, <3>2, <3>3
      <3>7. LaidOut(S, seqs, before, flat[least], least)
        BY <3>2, <3>3, <3>5, <3>6, LaidOutNext
      <3> QED BY <3>2, <3>7
    <2>5. LaidOut(S, seqs, before, flat[n], n)
      <3>1. n \in 1 .. n
        BY <1>1, <1>3
      <3> QED BY <1>1, <2>4, <3>1
    <2> QED BY <2>1, <2>5
  <1> QED BY <1>2, <1>3

LEMMA BytesGrow ==
  ASSUME NEW r \in Requests, NEW i \in 0 .. Len(r.sizes)
  PROVE  BytesUpTo(r)[i] <= BytesUpTo(r)[Len(r.sizes)]
  <1> DEFINE n == Len(r.sizes)
             sums == BytesUpTo(r)
             bad == {k \in Nat : k <= n /\ \E q \in 0 .. k : ~(sums[q] <= sums[k])}
  <1>1. /\ n \in Nat /\ sums \in [0 .. n -> Nat]
        /\ \A k \in 1 .. n : sums[k] = sums[k - 1] + r.sizes[k]
        /\ \A k \in 1 .. n : r.sizes[k] \in Nat
    BY BytesUpToFacts
  <1> HIDE DEF n, sums
  <1>2. bad = {}
    <2> SUFFICES ASSUME bad # {} PROVE FALSE
      OBVIOUS
    <2>1. PICK least \in bad : \A k \in bad : least <= k
      <3>1. bad \in SUBSET Nat
        OBVIOUS
      <3> HIDE DEF bad
      <3> QED BY <3>1, LeastExists
    <2>2. PICK q \in 0 .. least : ~(sums[q] <= sums[least])
      BY <2>1
    <2>3. /\ least \in Nat /\ least <= n /\ q \in Nat /\ q <= least
          /\ least \in 0 .. n /\ q \in 0 .. n
      BY <1>1, <2>1, <2>2
    <2>4. sums[q] \in Nat /\ sums[least] \in Nat
      BY <1>1, <2>3
    <2>5. q # least
      BY <2>2, <2>4
    <2>6. /\ least - 1 \in Nat /\ least - 1 < least /\ q \in 0 .. least - 1
          /\ least \in 1 .. n /\ least - 1 <= n
      BY <1>1, <2>3, <2>5
    <2>7. sums[q] <= sums[least - 1]
      <3> DEFINE k == least - 1
      <3>1. k \in Nat /\ k < least /\ q \in 0 .. k /\ k <= n
        BY <2>6
      <3> HIDE DEF k
      <3>2. k \notin bad
        <4>1. ~(least <= k)
          BY <2>3, <3>1
        <4> HIDE DEF bad
        <4> QED BY <2>1, <4>1
      <3>3. sums[q] <= sums[k]
        BY <3>1, <3>2
      <3> QED BY <3>3 DEF k
    <2>8. sums[least] = sums[least - 1] + r.sizes[least] /\ r.sizes[least] \in Nat
      BY <1>1, <2>6
    <2>9. sums[least - 1] \in Nat
      BY <1>1, <2>6
    <2>10. \A x, y, s, m \in Nat : x <= y /\ s = y + m => x <= s
      OBVIOUS
    <2>11. sums[q] <= sums[least]
      BY <2>4, <2>7, <2>8, <2>9, <2>10
    <2> QED BY <2>2, <2>11
  <1>3. i \in Nat /\ i <= n /\ i \in 0 .. n
    BY <1>1 DEF n
  <1>4. n \notin bad
    BY <1>2
  <1>5. sums[i] <= sums[n]
    BY <1>1, <1>3, <1>4
  <1> QED BY <1>5 DEF n, sums

-----------------------------------------------------------------------------
(* The stream of a client.                                                 *)

Units(r) ==
  {<<"first">>, <<"header">>, <<"blank">>, <<"newline">>, <<"extra">>,
   <<"rubbish">>}
  \cup {<<"size", n>> : n \in Nat} \cup ToSet(Upload(r))

LEMMA UploadFacts ==
  ASSUME NEW r \in Requests
  PROVE  /\ Upload(r) \in Seq(Units(r)) /\ Len(Upload(r)) \in Nat
         /\ Len(Upload(r)) < SizeUnknown /\ SizeUnknown \in Nat
         /\ DOMAIN Upload(r) = 1 .. Len(Upload(r))
         /\ \A i \in 1 .. Len(Upload(r)) : ~IsLine(Upload(r)[i])
         /\ r.upload = "chunked" =>
              /\ BytesUpTo(r)[Len(r.sizes)] = Len(Upload(r))
              /\ \A i \in 1 .. Len(r.sizes) : r.sizes[i] > 0
  <1>1. Upload(r) \in Seq(ToSet(Upload(r)))
    BY RequestsAssumption
  <1>2. ToSet(Upload(r)) \subseteq Units(r)
    BY DEF Units
  <1>3. Upload(r) \in Seq(Units(r))
    BY <1>1, <1>2, SeqMonotonic
  <1>4. Len(Upload(r)) \in Nat /\ DOMAIN Upload(r) = 1 .. Len(Upload(r))
    BY <1>3
  <1>5. /\ Len(Upload(r)) < SizeUnknown
        /\ \A i \in DOMAIN Upload(r) : ~IsLine(Upload(r)[i])
    BY RequestsAssumption
  <1>6. r.upload = "chunked" =>
          /\ BytesUpTo(r)[Len(r.sizes)] = Len(Upload(r))
          /\ \A i \in DOMAIN r.sizes : r.sizes[i] > 0
    BY RequestsAssumption
  <1>7. DOMAIN r.sizes = 1 .. Len(r.sizes)
    BY RequestsAssumption
  <1> QED BY <1>3, <1>4, <1>5, <1>6, <1>7, SizesAssumption

LEMMA ChunkFacts ==
  ASSUME NEW r \in Requests, r.upload = "chunked", NEW i \in 1 .. Len(r.sizes)
  PROVE  /\ Chunk(r, i) \in Seq(Units(r))
         /\ Len(Chunk(r, i)) = r.sizes[i] + 2
         /\ Chunk(r, i)[1] = <<"size", r.sizes[i]>>
         /\ \A j \in 1 .. r.sizes[i] :
              Chunk(r, i)[1 + j] = Upload(r)[BytesUpTo(r)[i - 1] + j]
         /\ Chunk(r, i)[r.sizes[i] + 2] = <<"newline">>
  <1> DEFINE U == Upload(r)
             n == Len(r.sizes)
             a == BytesUpTo(r)[i - 1]
             b == BytesUpTo(r)[i]
             z == r.sizes[i]
             S == Units(r)
             data == SubSeq(U, a + 1, b)
             line == << <<"size", z>> >>
             end == << <<"newline">> >>
  <1>1. /\ a \in Nat /\ b \in Nat /\ z \in Nat /\ b = a + z /\ b <= Len(U)
        /\ Len(U) \in Nat
    <2>1. n \in Nat /\ i \in 0 .. n /\ i - 1 \in 0 .. n
      BY BytesUpToFacts
    <2>2. a \in Nat /\ b \in Nat /\ z \in Nat /\ b = a + z
      BY <2>1, BytesUpToFacts
    <2>3. b <= Len(U)
      BY <2>1, BytesGrow, UploadFacts
    <2> QED BY <2>2, <2>3, UploadFacts
  <1>2. U \in Seq(S)
    BY UploadFacts
  <1>3. line \in Seq(S) /\ end \in Seq(S)
    <2>1. <<"size", z>> \in S /\ <<"newline">> \in S
      BY <1>1 DEF Units
    <2> HIDE DEF S, z
    <2> QED BY <2>1
  <1> HIDE DEF U, a, b, z, S
  <1>4. /\ data \in Seq(S) /\ Len(data) = z
        /\ \A j \in 1 .. z : data[j] = U[a + j]
    <2>1. \A k \in a + 1 .. b : U[k] \in S
      BY <1>1, <1>2
    <2>2. /\ data \in Seq(S)
          /\ Len(data) = IF a + 1 <= b THEN b - (a + 1) + 1 ELSE 0
          /\ \A k \in 1 .. b - (a + 1) + 1 : data[k] = U[a + 1 + k - 1]
      <3>1. a + 1 \in Int /\ b \in Int
        BY <1>1
      <3> QED BY <2>1, <3>1, SubSeqProperties
    <2>3. Len(data) = z
      BY <1>1, <2>2
    <2>4. ASSUME NEW j \in 1 .. z
          PROVE  data[j] = U[a + j]
      <3>1. j \in 1 .. b - (a + 1) + 1 /\ a + 1 + j - 1 = a + j
        BY <1>1
      <3> QED BY <2>2, <3>1
    <2> QED BY <2>2, <2>3, <2>4
  <1> HIDE DEF data
  <1>5. Len(line) = 1 /\ line[1] = <<"size", z>> /\ Len(end) = 1 /\ end[1] = <<"newline">>
    OBVIOUS
  <1> HIDE DEF line, end
  <1> DEFINE both == line \o data
  <1>6. /\ both \in Seq(S) /\ Len(both) = 1 + z
        /\ both[1] = <<"size", z>>
        /\ \A j \in 1 .. z : both[1 + j] = U[a + j]
    <2>1. /\ both \in Seq(S) /\ Len(both) = Len(line) + Len(data)
          /\ \A q \in 1 .. Len(line) + Len(data) :
               both[q] = IF q <= Len(line) THEN line[q] ELSE data[q - Len(line)]
      BY <1>3, <1>4, ConcatProperties
    <2> HIDE DEF both
    <2>2. both[1] = line[1]
      BY <1>1, <1>4, <1>5, <2>1
    <2>3. ASSUME NEW j \in 1 .. z
          PROVE  both[1 + j] = data[j]
      <3>1. 1 + j \in 1 .. 1 + z /\ ~(1 + j <= 1) /\ 1 + j - 1 = j
        BY <1>1
      <3> QED BY <1>4, <1>5, <2>1, <3>1
    <2> QED BY <1>4, <1>5, <2>1, <2>2, <2>3
  <1> HIDE DEF both
  <1> DEFINE all == both \o end
  <1>7. /\ all \in Seq(S) /\ Len(all) = z + 2
        /\ all[1] = <<"size", z>>
        /\ \A j \in 1 .. z : all[1 + j] = U[a + j]
        /\ all[z + 2] = <<"newline">>
    <2>1. /\ all \in Seq(S) /\ Len(all) = Len(both) + Len(end)
          /\ \A q \in 1 .. Len(both) + Len(end) :
               all[q] = IF q <= Len(both) THEN both[q] ELSE end[q - Len(both)]
      BY <1>3, <1>6, ConcatProperties
    <2> HIDE DEF all
    <2>2. all[1] = both[1]
      BY <1>1, <1>5, <1>6, <2>1
    <2>3. ASSUME NEW j \in 1 .. z
          PROVE  all[1 + j] = both[1 + j]
      <3>1. 1 + j \in 1 .. 1 + z + 1 /\ 1 + j <= 1 + z
        BY <1>1
      <3> QED BY <1>5, <1>6, <2>1, <3>1
    <2>4. all[z + 2] = end[1]
      <3>1. z + 2 \in 1 .. 1 + z + 1 /\ ~(z + 2 <= 1 + z) /\ z + 2 - (1 + z) = 1
        BY <1>1
      <3> QED BY <1>5, <1>6, <2>1, <3>1
    <2>5. Len(all) = z + 2
      BY <1>1, <1>5, <1>6, <2>1
    <2> QED BY <1>5, <1>6, <2>1, <2>2, <2>3, <2>4, <2>5
  <1>8. Chunk(r, i) = all
    BY DEF Chunk, all, both, line, data, end, U, a, b, z
  <1> QED BY <1>7, <1>8 DEF U, a, z, S

LEMMA ChunksOfFacts ==
  ASSUME NEW r \in Requests, r.upload = "chunked"
  PROVE  /\ ChunksOf(r) \in Seq(Units(r))
         /\ Len(ChunksOf(r)) = Len(Upload(r)) + 2 * Len(r.sizes)
         /\ \A i \in 1 .. Len(r.sizes) : \A j \in 1 .. r.sizes[i] + 2 :
              ChunksOf(r)[BytesUpTo(r)[i - 1] + 2 * (i - 1) + j] = Chunk(r, i)[j]
  <1> DEFINE S == Units(r)
             n == Len(r.sizes)
             sums == BytesUpTo(r)
             seqs == [i \in 1 .. n |-> Chunk(r, i)]
             before == [i \in 0 .. n |-> sums[i] + 2 * i]
  <1>1. /\ n \in Nat /\ sums \in [0 .. n -> Nat] /\ sums[0] = 0
        /\ sums[n] = Len(Upload(r))
        /\ \A i \in 1 .. n : sums[i] = sums[i - 1] + r.sizes[i] /\ r.sizes[i] \in Nat
    BY BytesUpToFacts, UploadFacts
  <1>2. \A i \in 1 .. n : Chunk(r, i) \in Seq(S) /\ Len(Chunk(r, i)) = r.sizes[i] + 2
    BY ChunkFacts
  <1>3. ChunksOf(r) = FlattenSeq(seqs)
    BY DEF ChunksOf
  <1> HIDE DEF S, n, sums
  <1>4. seqs \in [1 .. n -> Seq(S)] /\ \A i \in 1 .. n : seqs[i] = Chunk(r, i)
    BY <1>2
  <1>5. /\ before \in [0 .. n -> Nat]
        /\ \A i \in 0 .. n : before[i] = sums[i] + 2 * i
    BY <1>1
  <1> HIDE DEF seqs, before
  <1>6. before[0] = 0
    BY <1>1, <1>5
  <1>7. ASSUME NEW i \in 1 .. n
        PROVE  before[i] = before[i - 1] + Len(seqs[i])
    <2>1. i \in 0 .. n /\ i - 1 \in 0 .. n /\ i \in Nat
      BY <1>1
    <2>2. before[i] = sums[i] + 2 * i /\ before[i - 1] = sums[i - 1] + 2 * (i - 1)
      BY <1>5, <2>1
    <2>3. Len(seqs[i]) = r.sizes[i] + 2 /\ r.sizes[i] \in Nat
      BY <1>1, <1>2, <1>4, <2>1
    <2>4. sums[i] = sums[i - 1] + r.sizes[i] /\ sums[i - 1] \in Nat
      BY <1>1, <2>1
    <2>5. ASSUME NEW x \in Nat, NEW z \in Nat, NEW k \in Nat
          PROVE  (x + z) + 2 * k = (x + 2 * (k - 1)) + (z + 2)
      OBVIOUS
    <2>6. (sums[i - 1] + r.sizes[i]) + 2 * i
            = (sums[i - 1] + 2 * (i - 1)) + (r.sizes[i] + 2)
      BY <2>1, <2>3, <2>4, <2>5
    <2> QED BY <2>2, <2>3, <2>4, <2>6
  <1>8. LaidOut(S, seqs, before, FlattenSeq(seqs), n)
    BY <1>1, <1>4, <1>5, <1>6, <1>7, FlattenSeqFacts DEF Parts
  <1>9. ChunksOf(r) \in Seq(S) /\ Len(ChunksOf(r)) = Len(Upload(r)) + 2 * n
    <2>1. n \in 0 .. n
      BY <1>1
    <2> QED BY <1>1, <1>3, <1>5, <1>8, <2>1 DEF LaidOut
  <1>10. ASSUME NEW i \in 1 .. n, NEW j \in 1 .. r.sizes[i] + 2
         PROVE  ChunksOf(r)[sums[i - 1] + 2 * (i - 1) + j] = Chunk(r, i)[j]
    <2>1. i - 1 \in 0 .. n
      BY <1>1
    <2>2. before[i - 1] = sums[i - 1] + 2 * (i - 1)
      BY <1>5, <2>1
    <2>3. i \in 1 .. n /\ seqs[i] = Chunk(r, i) /\ j \in 1 .. Len(seqs[i])
      BY <1>2, <1>4
    <2>4. ChunksOf(r)[before[i - 1] + j] = seqs[i][j]
      BY <1>3, <1>8, <2>3 DEF LaidOut
    <2> QED BY <2>2, <2>3, <2>4
  <1> QED BY <1>9, <1>10 DEF S, n, sums

(* The lines before the upload, and what follows them.                     *)
After(r) ==
  CASE r.upload = "none" -> <<>>
    [] r.upload = "chunked" ->
         ChunksOf(r) \o << <<"size", 0>>, <<"header">>, <<"blank">> >>
    [] r.upload = "length" -> Upload(r) \o << <<"extra">> >>
    [] OTHER -> Upload(r)

LEMMA AfterIsSeq ==
  ASSUME NEW r \in Requests
  PROVE  After(r) \in Seq(Units(r))
  <1> DEFINE S == Units(r)
             last == << <<"size", 0>>, <<"header">>, <<"blank">> >>
             extra == << <<"extra">> >>
  <1>1. last \in Seq(S) /\ extra \in Seq(S)
    <2>1. /\ <<"size", 0>> \in S /\ <<"header">> \in S /\ <<"blank">> \in S
          /\ <<"extra">> \in S
      BY DEF Units
    <2> HIDE DEF S
    <2> QED BY <2>1
  <1>2. Upload(r) \in Seq(S)
    BY UploadFacts
  <1>3. r.upload = "chunked" => ChunksOf(r) \in Seq(S)
    BY ChunksOfFacts
  <1>4. After(r) = CASE r.upload = "none" -> <<>>
                     [] r.upload = "chunked" -> ChunksOf(r) \o last
                     [] r.upload = "length" -> Upload(r) \o extra
                     [] OTHER -> Upload(r)
    BY DEF After
  <1> HIDE DEF S, last, extra
  <1>5. CASE r.upload = "none"
    BY <1>4, <1>5 DEF S
  <1>6. CASE r.upload = "chunked"
    BY <1>1, <1>3, <1>4, <1>6, ConcatProperties DEF S
  <1>7. CASE r.upload = "length"
    BY <1>1, <1>2, <1>4, <1>7, ConcatProperties DEF S
  <1>8. CASE r.upload \notin {"none", "chunked", "length"}
    BY <1>2, <1>4, <1>8 DEF S
  <1> QED BY <1>5, <1>6, <1>7, <1>8

LEMMA StreamFacts ==
  ASSUME NEW r \in Requests
  PROVE  /\ Stream(r) \in Seq(Units(r))
         /\ Len(Stream(r)) = 3 + Len(After(r)) /\ Len(After(r)) \in Nat
         /\ Stream(r)[1] = <<"first">> /\ Stream(r)[2] = <<"header">>
         /\ Stream(r)[3] = <<"blank">>
         /\ \A k \in 1 .. Len(After(r)) : Stream(r)[3 + k] = After(r)[k]
  <1> DEFINE S == Units(r)
             head == << <<"first">>, <<"header">>, <<"blank">> >>
             tail == After(r)
  <1>1. /\ head \in Seq(S) /\ Len(head) = 3 /\ head[1] = <<"first">>
        /\ head[2] = <<"header">> /\ head[3] = <<"blank">>
    <2>1. <<"first">> \in S /\ <<"header">> \in S /\ <<"blank">> \in S
      BY DEF Units
    <2> HIDE DEF S
    <2> QED BY <2>1
  <1>2. tail \in Seq(S)
    BY AfterIsSeq
  <1>3. Stream(r) = head \o tail
    BY DEF Stream, After
  <1> HIDE DEF S, head, tail
  <1>4. /\ Stream(r) \in Seq(S) /\ Len(Stream(r)) = Len(head) + Len(tail)
        /\ \A q \in 1 .. Len(head) + Len(tail) :
             Stream(r)[q] = IF q <= Len(head) THEN head[q] ELSE tail[q - Len(head)]
    <2>1. head \in Seq(S) /\ tail \in Seq(S)
      BY <1>1, <1>2
    <2>2. /\ head \o tail \in Seq(S) /\ Len(head \o tail) = Len(head) + Len(tail)
          /\ \A q \in 1 .. Len(head) + Len(tail) :
               (head \o tail)[q] = IF q <= Len(head) THEN head[q] ELSE tail[q - Len(head)]
      BY <2>1, ConcatProperties
    <2> QED BY <1>3, <2>2, Zenon
  <1>5. Len(tail) \in Nat
    BY <1>2
  <1>6. Stream(r)[1] = head[1] /\ Stream(r)[2] = head[2] /\ Stream(r)[3] = head[3]
    BY <1>1, <1>4, <1>5
  <1>7. ASSUME NEW k \in 1 .. Len(tail)
        PROVE  Stream(r)[3 + k] = tail[k]
    <2>1. 3 + k \in 1 .. 3 + Len(tail) /\ ~(3 + k <= 3) /\ 3 + k - 3 = k
      BY <1>5
    <2> QED BY <1>1, <1>4, <2>1
  <1> QED BY <1>1, <1>4, <1>5, <1>6, <1>7 DEF S, tail

(* Unit k of what is sent is u, or the malformed line.                     *)
Has(r, k, u) == k \in 1 .. Len(Sent(r)) /\ Sent(r)[k] \in {u, <<"rubbish">>}

LEMMA SentFacts ==
  ASSUME NEW r \in Requests
  PROVE  /\ Sent(r) \in Seq(Units(r)) /\ Len(Sent(r)) = 3 + Len(After(r))
         /\ Len(Sent(r)) \in Nat /\ Len(After(r)) \in Nat
         /\ Has(r, 1, <<"first">>) /\ Has(r, 2, <<"header">>)
         /\ Has(r, 3, <<"blank">>)
         /\ \A k \in 1 .. Len(After(r)) :
              /\ Has(r, 3 + k, After(r)[k])
              /\ ~IsLine(After(r)[k]) => Sent(r)[3 + k] = After(r)[k]
  <1> DEFINE n == Len(Stream(r))
             S == Units(r)
  <1>1. /\ Stream(r) \in Seq(S) /\ n = 3 + Len(After(r)) /\ Len(After(r)) \in Nat
        /\ Stream(r)[1] = <<"first">> /\ Stream(r)[2] = <<"header">>
        /\ Stream(r)[3] = <<"blank">>
        /\ \A k \in 1 .. Len(After(r)) : Stream(r)[3 + k] = After(r)[k]
    BY StreamFacts
  <1>2. \A k \in 1 .. n : Stream(r)[k] \in S
    BY <1>1
  <1>3. <<"rubbish">> \in S
    BY DEF Units
  <1>4. Sent(r) = [k \in 1 .. n |->
                     IF k = r.malformed THEN <<"rubbish">> ELSE Stream(r)[k]]
    BY DEF Sent
  <1>5. r.malformed \in 1 .. n => IsLine(Stream(r)[r.malformed])
    <2>1. DOMAIN Stream(r) = 1 .. n
      BY <1>1
    <2> QED BY <2>1, RequestsAssumption
  <1> HIDE DEF n, S
  <1>6. n \in Nat
    BY <1>1
  <1>7. /\ DOMAIN Sent(r) = 1 .. n
        /\ \A k \in 1 .. n : /\ Sent(r)[k] \in S
                             /\ Sent(r)[k] \in {Stream(r)[k], <<"rubbish">>}
                             /\ ~IsLine(Stream(r)[k]) => Sent(r)[k] = Stream(r)[k]
    BY <1>2, <1>3, <1>4, <1>5
  <1>8. Sent(r) \in [1 .. n -> S]
    BY <1>2, <1>3, <1>4
  <1>9. Sent(r) \in Seq(S) /\ Len(Sent(r)) = n
    BY <1>6, <1>7, <1>8
  <1>10. \A k \in 1 .. n : Has(r, k, Stream(r)[k])
    BY <1>7, <1>9 DEF Has
  <1>11. 1 \in 1 .. n /\ 2 \in 1 .. n /\ 3 \in 1 .. n
         /\ \A k \in 1 .. Len(After(r)) : 3 + k \in 1 .. n
    BY <1>1
  <1>12. Has(r, 1, <<"first">>) /\ Has(r, 2, <<"header">>) /\ Has(r, 3, <<"blank">>)
    BY <1>1, <1>10, <1>11
  <1>13. ASSUME NEW k \in 1 .. Len(After(r))
         PROVE  /\ Has(r, 3 + k, After(r)[k])
                /\ ~IsLine(After(r)[k]) => Sent(r)[3 + k] = After(r)[k]
    <2>1. 3 + k \in 1 .. n /\ Stream(r)[3 + k] = After(r)[k]
      BY <1>1, <1>11
    <2>2. Has(r, 3 + k, Stream(r)[3 + k])
      BY <1>10, <2>1
    <2>3. ~IsLine(Stream(r)[3 + k]) => Sent(r)[3 + k] = Stream(r)[3 + k]
      BY <1>7, <2>1
    <2> QED BY <2>1, <2>2, <2>3
  <1> QED BY <1>1, <1>6, <1>9, <1>12, <1>13 DEF n, S

LEMMA SentWithout ==
  ASSUME NEW r \in Requests, r.upload = "none"
  PROVE  Len(Sent(r)) = 3
  <1>1. After(r) = <<>>
    BY DEF After
  <1>2. Len(After(r)) = 0
    BY <1>1
  <1>3. Len(Sent(r)) = 3 + Len(After(r))
    BY SentFacts
  <1> QED BY <1>2, <1>3

LEMMA SentPlain ==
  ASSUME NEW r \in Requests, r.upload \in {"length", "other"}
  PROVE  /\ Len(Sent(r)) = 3 + Len(Upload(r)) + IF r.upload = "length" THEN 1 ELSE 0
         /\ \A j \in 1 .. Len(Upload(r)) : Sent(r)[3 + j] = Upload(r)[j]
  <1> DEFINE U == Upload(r)
             extra == << <<"extra">> >>
  <1>1. U \in Seq(Units(r)) /\ Len(U) \in Nat /\ \A j \in 1 .. Len(U) : ~IsLine(U[j])
    BY UploadFacts
  <1>2. extra \in Seq(Units(r)) /\ Len(extra) = 1
    <2>1. <<"extra">> \in Units(r)
      BY DEF Units
    <2> QED BY <2>1
  <1>3. /\ r.upload = "length" => After(r) = U \o extra
        /\ r.upload = "other" => After(r) = U
    BY DEF After
  <1> HIDE DEF U, extra
  <1>4. /\ Len(U \o extra) = Len(U) + 1
        /\ \A j \in 1 .. Len(U) : (U \o extra)[j] = U[j]
    <2>1. /\ Len(U \o extra) = Len(U) + Len(extra)
          /\ \A j \in 1 .. Len(U) + Len(extra) :
               (U \o extra)[j] = IF j <= Len(U) THEN U[j] ELSE extra[j - Len(U)]
      BY <1>1, <1>2, ConcatProperties
    <2>2. \A j \in 1 .. Len(U) : j \in 1 .. Len(U) + Len(extra) /\ j <= Len(U)
      BY <1>1, <1>2
    <2> QED BY <1>2, <2>1, <2>2
  <1>5. /\ Len(After(r)) = Len(U) + IF r.upload = "length" THEN 1 ELSE 0
        /\ \A j \in 1 .. Len(U) : After(r)[j] = U[j] /\ j \in 1 .. Len(After(r))
    <2>1. CASE r.upload = "length"
      BY <1>1, <1>3, <1>4, <2>1
    <2>2. CASE r.upload = "other"
      BY <1>1, <1>3, <2>2
    <2> QED BY <2>1, <2>2
  <1>6. \A j \in 1 .. Len(U) : Sent(r)[3 + j] = U[j]
    BY <1>1, <1>5, SentFacts
  <1>7. Len(Sent(r)) = 3 + Len(After(r))
    BY SentFacts
  <1> QED BY <1>1, <1>5, <1>6, <1>7 DEF U

LEMMA SentChunks ==
  ASSUME NEW r \in Requests, r.upload = "chunked"
  PROVE  /\ Len(Sent(r)) = Len(Upload(r)) + 2 * Len(r.sizes) + 6
         /\ \A k \in 1 .. Len(ChunksOf(r)) :
              /\ Has(r, 3 + k, ChunksOf(r)[k])
              /\ ~IsLine(ChunksOf(r)[k]) => Sent(r)[3 + k] = ChunksOf(r)[k]
         /\ Has(r, Len(Upload(r)) + 2 * Len(r.sizes) + 4, <<"size", 0>>)
         /\ Has(r, Len(Upload(r)) + 2 * Len(r.sizes) + 5, <<"header">>)
         /\ Has(r, Len(Upload(r)) + 2 * Len(r.sizes) + 6, <<"blank">>)
  <1> DEFINE C == ChunksOf(r)
             last == << <<"size", 0>>, <<"header">>, <<"blank">> >>
             z == Len(Upload(r)) + 2 * Len(r.sizes)
  <1>1. C \in Seq(Units(r)) /\ Len(C) = z /\ z \in Nat
    <2>1. Len(Upload(r)) \in Nat /\ Len(r.sizes) \in Nat
      BY UploadFacts, BytesUpToFacts
    <2> QED BY <2>1, ChunksOfFacts
  <1>2. /\ last \in Seq(Units(r)) /\ Len(last) = 3 /\ last[1] = <<"size", 0>>
        /\ last[2] = <<"header">> /\ last[3] = <<"blank">>
    <2>1. <<"size", 0>> \in Units(r) /\ <<"header">> \in Units(r) /\ <<"blank">> \in Units(r)
      BY DEF Units
    <2> QED BY <2>1
  <1>3. After(r) = C \o last
    BY DEF After
  <1> HIDE DEF C, last, z
  <1>4. /\ Len(After(r)) = z + 3
        /\ \A k \in 1 .. z + 3 : After(r)[k] = IF k <= z THEN C[k] ELSE last[k - z]
    <2>1. /\ Len(C \o last) = Len(C) + Len(last)
          /\ \A k \in 1 .. Len(C) + Len(last) :
               (C \o last)[k] = IF k <= Len(C) THEN C[k] ELSE last[k - Len(C)]
      BY <1>1, <1>2, ConcatProperties
    <2> QED BY <1>1, <1>2, <1>3, <2>1
  <1>5. /\ z + 1 \in 1 .. z + 3 /\ z + 2 \in 1 .. z + 3 /\ z + 3 \in 1 .. z + 3
        /\ ~(z + 1 <= z) /\ ~(z + 2 <= z) /\ ~(z + 3 <= z)
        /\ z + 1 - z = 1 /\ z + 2 - z = 2 /\ z + 3 - z = 3
        /\ 3 + (z + 1) = z + 4 /\ 3 + (z + 2) = z + 5 /\ 3 + (z + 3) = z + 6
        /\ \A k \in 1 .. z : k \in 1 .. z + 3 /\ k <= z
    BY <1>1
  <1>6. /\ After(r)[z + 1] = <<"size", 0>> /\ After(r)[z + 2] = <<"header">>
        /\ After(r)[z + 3] = <<"blank">>
    <2>1. ASSUME NEW k \in 1 .. z + 3, NEW d \in Int, k = z + d, d > 0
          PROVE  After(r)[k] = last[d]
      <3>1. ~(k <= z) /\ k - z = d
        BY <1>1, <2>1
      <3> QED BY <1>4, <3>1
    <2>2. After(r)[z + 1] = last[1] /\ After(r)[z + 2] = last[2] /\ After(r)[z + 3] = last[3]
      <3>1. After(r)[z + 1] = last[1]
        BY <1>5, <2>1
      <3>2. After(r)[z + 2] = last[2]
        BY <1>5, <2>1
      <3>3. After(r)[z + 3] = last[3]
        BY <1>5, <2>1
      <3> QED BY <3>1, <3>2, <3>3
    <2> QED BY <1>2, <2>2
  <1>7. \A k \in 1 .. z + 3 : /\ Has(r, 3 + k, After(r)[k])
                              /\ ~IsLine(After(r)[k]) => Sent(r)[3 + k] = After(r)[k]
    BY <1>4, SentFacts
  <1>8. \A k \in 1 .. z : /\ Has(r, 3 + k, C[k])
                          /\ ~IsLine(C[k]) => Sent(r)[3 + k] = C[k]
    BY <1>4, <1>5, <1>7
  <1>9. /\ Has(r, z + 4, <<"size", 0>>) /\ Has(r, z + 5, <<"header">>)
        /\ Has(r, z + 6, <<"blank">>)
    BY <1>5, <1>6, <1>7
  <1>10. Len(Sent(r)) = z + 6
    <2>1. Len(Sent(r)) = 3 + Len(After(r))
      BY SentFacts
    <2> QED BY <1>1, <1>4, <2>1
  <1> QED BY <1>1, <1>8, <1>9, <1>10 DEF C, z

(* Where the lines and the bytes of chunk i are.                           *)
LEMMA SentChunk ==
  ASSUME NEW r \in Requests, r.upload = "chunked", NEW i \in 1 .. Len(r.sizes)
  PROVE  /\ Has(r, BytesUpTo(r)[i - 1] + 2 * i + 2, <<"size", r.sizes[i]>>)
         /\ \A j \in 1 .. r.sizes[i] :
              Sent(r)[BytesUpTo(r)[i - 1] + 2 * i + 2 + j]
                = Upload(r)[BytesUpTo(r)[i - 1] + j]
         /\ Has(r, BytesUpTo(r)[i] + 2 * i + 3, <<"newline">>)
         /\ BytesUpTo(r)[i] <= Len(Upload(r))
  <1> DEFINE C == ChunksOf(r)
             U == Upload(r)
             n == Len(r.sizes)
             a == BytesUpTo(r)[i - 1]
             b == BytesUpTo(r)[i]
             s == r.sizes[i]
             c == Chunk(r, i)
             p == a + 2 * (i - 1)
  <1>1. /\ n \in Nat /\ i \in Nat /\ i >= 1 /\ i <= n
        /\ a \in Nat /\ b \in Nat /\ s \in Nat /\ b = a + s
        /\ b <= Len(U) /\ Len(U) \in Nat
    <2>1. n \in Nat /\ i \in 0 .. n /\ i - 1 \in 0 .. n
      BY BytesUpToFacts
    <2>2. a \in Nat /\ b \in Nat /\ s \in Nat /\ b = a + s
      BY <2>1, BytesUpToFacts
    <2>3. b <= Len(U)
      BY <2>1, BytesGrow, UploadFacts
    <2> QED BY <2>1, <2>2, <2>3, UploadFacts
  <1>2. /\ Len(C) = Len(U) + 2 * n
        /\ \A j \in 1 .. s + 2 : C[p + j] = c[j]
    BY ChunksOfFacts
  <1>3. /\ c[1] = <<"size", s>> /\ c[s + 2] = <<"newline">>
        /\ \A j \in 1 .. s : c[1 + j] = U[a + j]
    BY ChunkFacts
  <1>4. \A k \in 1 .. Len(C) : /\ Has(r, 3 + k, C[k])
                               /\ ~IsLine(C[k]) => Sent(r)[3 + k] = C[k]
    BY SentChunks
  <1>5. \A j \in 1 .. Len(U) : ~IsLine(U[j])
    BY UploadFacts
  <1> HIDE DEF C, U, n, a, b, s, c
  <1>6. p \in Nat /\ \A j \in 1 .. s + 2 : p + j \in 1 .. Len(C)
    <2>1. p + s + 2 <= Len(C)
      BY <1>1, <1>2
    <2> QED BY <1>1, <1>2, <2>1
  <1>7. /\ 3 + (p + 1) = a + 2 * i + 2 /\ 3 + (p + (s + 2)) = b + 2 * i + 3
        /\ \A j \in 1 .. s : 3 + (p + (1 + j)) = a + 2 * i + 2 + j
    BY <1>1
  <1>8. /\ 1 \in 1 .. s + 2 /\ s + 2 \in 1 .. s + 2
        /\ \A j \in 1 .. s : 1 + j \in 1 .. s + 2 /\ a + j \in 1 .. Len(U)
    BY <1>1
  <1> HIDE DEF p
  <1>9. Has(r, 3 + (p + 1), <<"size", s>>) /\ Has(r, 3 + (p + (s + 2)), <<"newline">>)
    <2>1. ASSUME NEW j \in 1 .. s + 2
          PROVE  Has(r, 3 + (p + j), c[j])
      <3>1. p + j \in 1 .. Len(C) /\ C[p + j] = c[j]
        BY <1>2, <1>6
      <3> QED BY <1>4, <3>1
    <2>2. Has(r, 3 + (p + 1), c[1]) /\ Has(r, 3 + (p + (s + 2)), c[s + 2])
      BY <1>8, <2>1
    <2> QED BY <1>3, <2>2
  <1>10. ASSUME NEW j \in 1 .. s
         PROVE  Sent(r)[3 + (p + (1 + j))] = U[a + j]
    <2>1. C[p + (1 + j)] = U[a + j]
      BY <1>2, <1>3, <1>8
    <2>2. ~IsLine(U[a + j])
      BY <1>5, <1>8
    <2> QED BY <1>4, <1>6, <1>8, <2>1, <2>2
  <1>11. /\ Has(r, a + 2 * i + 2, <<"size", s>>) /\ Has(r, b + 2 * i + 3, <<"newline">>)
         /\ \A j \in 1 .. s : Sent(r)[a + 2 * i + 2 + j] = U[a + j]
    BY <1>7, <1>9, <1>10
  <1> QED BY <1>1, <1>11 DEF U, a, b, s

-----------------------------------------------------------------------------
(* The invariant.  Before the answer the connection is somewhere in the    *)
(* stream of its client: t units of it are taken, the rest is in the       *)
(* buffer or not read yet.                                                 *)
Unread(r, buf, inp, t) ==
  \E e \in t .. Len(Sent(r)) :
    /\ buf = SubSeq(Sent(r), t + 1, e)
    /\ inp = SubSeq(Sent(r), e + 1, Len(Sent(r)))

BeforeCall == {"INIT", "URL_RECEIVED", "HEADER_PART_RECEIVED",
               "HEADERS_RECEIVED", "HEADERS_PROCESSED"}
Reading == {"CONTINUE_SENDING", "CONTINUE_SENT", "BODY_RECEIVED",
            "FOOTER_PART_RECEIVED"}
Answering == {"HEADERS_SENDING", "HEADERS_SENT", "NORMAL_BODY_UNREADY",
              "NORMAL_BODY_READY", "BODY_SENT", "FOOTERS_SENT"}

(* In a body that is not chunked; an empty one is only entered by a        *)
(* request that waits for "100 continue".                                  *)
InPlainBody(r, ended, up, gv, t) ==
  /\ gv \in 0 .. Len(Upload(r)) /\ t = 3 + gv
  /\ \/ r.upload = "none" /\ up = 0
     \/ /\ r.upload = "length" /\ up = Len(Upload(r)) - gv
        /\ up = 0 /\ ~ended => r.expect /\ Upload(r) = <<>>
     \/ r.upload = "other" /\ up = SizeUnknown

(* What follows an empty upload was taken for it, and the counter of what  *)
(* is still to come fell below zero.                                       *)
Overrun(r, up, gv, t) ==
  /\ r.upload = "length" /\ r.expect /\ Upload(r) = <<>>
  /\ up = SizeUnknown /\ gv = 1 /\ t = 4

(* Before the line of chunk i, inside of it, or after the last one.        *)
BeforeChunk(r, up, ch, gv, t) ==
  /\ r.upload = "chunked" /\ up = SizeUnknown /\ ch = None
  /\ \E i \in 1 .. Len(r.sizes) + 1 :
       gv = BytesUpTo(r)[i - 1] /\ t = gv + 2 * i + 1

WithinChunk(r, up, ch, gv, t) ==
  /\ r.upload = "chunked" /\ up = SizeUnknown /\ ch \in Nat
  /\ \E i \in 1 .. Len(r.sizes) :
       /\ ch <= r.sizes[i]
       /\ gv = BytesUpTo(r)[i] - ch /\ t = gv + 2 * i + 2

AfterChunks(r, gv) == Len(Upload(r)) + 2 * Len(r.sizes) + 4

InBody(r, ended, up, ch, gv, t) ==
  \/ InPlainBody(r, ended, up, gv, t)
  \/ Overrun(r, up, gv, t)
  \/ BeforeChunk(r, up, ch, gv, t)
  \/ WithinChunk(r, up, ch, gv, t)
  \/ /\ r.upload = "chunked" /\ ended
     /\ up = 0 /\ gv = Len(Upload(r)) /\ t = AfterChunks(r, gv)

Announced(r) == CASE r.upload = "none" -> 0
                  [] r.upload = "length" -> Len(Upload(r))
                  [] OTHER -> SizeUnknown

AtUnit(r, st, p, up, ch, gv, t) ==
  /\ st = "INIT" => t = 0
  /\ st = "URL_RECEIVED" => t = 1
  /\ st = "HEADER_PART_RECEIVED" => t = 2
  /\ st \in {"HEADERS_RECEIVED", "HEADERS_PROCESSED", "CONTINUE_SENDING"} => t = 3
  /\ st = "CONTINUE_SENT" => InBody(r, p = "after body", up, ch, gv, t)
  /\ st = "BODY_RECEIVED" => t = AfterChunks(r, gv)
  /\ st = "FOOTER_PART_RECEIVED" => t = AfterChunks(r, gv) + 1

ReadInv ==
  state \in BeforeCall \cup Reading =>
    \E t \in Nat : /\ Unread(request, buffer, input, t)
                   /\ AtUnit(request, state, pc, upload, chunk, given, t)

CountInv ==
  /\ state \in BeforeCall \cup {"CONTINUE_SENDING"} => given = 0 /\ chunk = None
  /\ state \in {"HEADERS_PROCESSED", "CONTINUE_SENDING"} =>
       upload = Announced(request) /\ request.upload # "unreadable"
  /\ state = "CONTINUE_SENDING" => request.expect
  /\ state \in {"BODY_RECEIVED", "FOOTER_PART_RECEIVED"} =>
       request.upload = "chunked"
  /\ state \in {"BODY_RECEIVED", "FOOTER_PART_RECEIVED", "FOOTERS_RECEIVED"} =>
       given = Len(Upload(request))

(* Where the machine is, and who has the request.                          *)
Responses == [code : Nat, kind : Kinds, size : Nat]

ControlInv ==
  /\ request \in Requests
  /\ state \in BeforeCall \cup Reading \cup {"FOOTERS_RECEIVED"} \cup Answering
               \cup {"CLOSED"}
  /\ context \in {None, "request", "deleted"}
  /\ aware = (context = "request")
  /\ state \in BeforeCall => context = None
  /\ state \in Reading \cup {"FOOTERS_RECEIVED"} => context = "request"
  /\ state \in BeforeCall \cup Reading \cup {"FOOTERS_RECEIVED"} => response = None
  /\ state \in Answering =>
       /\ response \in Responses
       /\ response.kind = "generator" => context = "request"
  /\ state = "CLOSED" => context # "request" /\ pc \in {"idle", "end", "done"}
  /\ pc \in {"body", "post", "after body"} => state = "CONTINUE_SENT"
  /\ pc = "write" => state = "NORMAL_BODY_READY"
  /\ pc = "done" => state = "CLOSED"

(* What is kept of the upload, and what the limit still allows.            *)
Kept(r, b, rest, gv) ==
  IF r.limit = 0 THEN b = SubSeq(Upload(r), 1, gv)
  ELSE \/ /\ rest = r.limit + 1 - gv /\ rest > 0
          /\ b = SubSeq(Upload(r), 1, gv)
       \/ rest = 0 /\ gv > r.limit

KeptInv ==
  /\ state \in BeforeCall => body = <<>>
  /\ /\ state \in Reading \cup {"FOOTERS_RECEIVED"}
     /\ given <= Len(Upload(request))
     => Kept(request, body, remaining, given)

-----------------------------------------------------------------------------
(* Reading from the socket and taking units from the buffer.               *)

LEMMA UnreadFacts ==
  ASSUME NEW r \in Requests, NEW t \in Nat, NEW buf, NEW inp, Unread(r, buf, inp, t)
  PROVE  /\ buf \in Seq(Units(r)) /\ inp \in Seq(Units(r))
         /\ Len(buf) \in Nat /\ Len(inp) \in Nat
         /\ t + Len(buf) + Len(inp) = Len(Sent(r))
         /\ \A k \in 1 .. Len(buf) : buf[k] = Sent(r)[t + k]
  <1> DEFINE s == Sent(r)
             n == Len(Sent(r))
             S == Units(r)
  <1>1. s \in Seq(S) /\ n \in Nat /\ n = Len(s)
    BY SentFacts
  <1>2. PICK e \in t .. n : buf = SubSeq(s, t + 1, e) /\ inp = SubSeq(s, e + 1, n)
    BY DEF Unread
  <1> HIDE DEF s, n, S
  <1>3. e \in Nat /\ t <= e /\ e <= n
    BY <1>1
  <1>4. \A k \in 1 .. n : s[k] \in S
    BY <1>1
  <1>5. /\ buf \in Seq(S) /\ Len(buf) = e - t
        /\ \A k \in 1 .. e - t : buf[k] = s[t + k]
    <2>1. \A k \in t + 1 .. e : s[k] \in S
      <3>1. \A k \in t + 1 .. e : k \in 1 .. n
        BY <1>1, <1>3
      <3> QED BY <1>4, <3>1
    <2>2. /\ SubSeq(s, t + 1, e) \in Seq(S)
          /\ Len(SubSeq(s, t + 1, e)) = IF t + 1 <= e THEN e - (t + 1) + 1 ELSE 0
          /\ \A k \in 1 .. e - (t + 1) + 1 : SubSeq(s, t + 1, e)[k] = s[t + 1 + k - 1]
      <3>1. t + 1 \in Int /\ e \in Int
        BY <1>3
      <3> QED BY <2>1, <3>1, SubSeqProperties
    <2>3. /\ (IF t + 1 <= e THEN e - (t + 1) + 1 ELSE 0) = e - t
          /\ e - (t + 1) + 1 = e - t /\ \A k \in 1 .. e - t : t + 1 + k - 1 = t + k
      BY <1>3
    <2> QED BY <1>2, <2>2, <2>3
  <1>6. inp \in Seq(S) /\ Len(inp) = n - e
    <2>1. \A k \in e + 1 .. n : s[k] \in S
      BY <1>3, <1>4
    <2>2. /\ SubSeq(s, e + 1, n) \in Seq(S)
          /\ Len(SubSeq(s, e + 1, n)) = IF e + 1 <= n THEN n - (e + 1) + 1 ELSE 0
      <3>1. e + 1 \in Int /\ n \in Int
        BY <1>1, <1>3
      <3> QED BY <2>1, <3>1, SubSeqProperties
    <2>3. (IF e + 1 <= n THEN n - (e + 1) + 1 ELSE 0) = n - e
      BY <1>1, <1>3
    <2> QED BY <1>2, <2>2, <2>3
  <1>7. \A k \in 1 .. Len(buf) : buf[k] = s[t + k]
    BY <1>5
  <1>8. /\ Len(buf) \in Nat /\ Len(inp) \in Nat
        /\ t + Len(buf) + Len(inp) = n
    BY <1>1, <1>3, <1>5, <1>6
  <1> QED BY <1>5, <1>6, <1>7, <1>8 DEF s, n, S

LEMMA UnreadRead ==
  ASSUME NEW r \in Requests, NEW t \in Nat, NEW buf, NEW inp, Unread(r, buf, inp, t),
         NEW n \in 1 .. Len(inp)
  PROVE  Unread(r, buf \o SubSeq(inp, 1, n), SubSeq(inp, n + 1, Len(inp)), t)
  <1> DEFINE s == Sent(r)
             z == Len(Sent(r))
             S == Units(r)
  <1>1. s \in Seq(S) /\ z \in Nat /\ z = Len(s)
    BY SentFacts
  <1>2. PICK e \in t .. z : buf = SubSeq(s, t + 1, e) /\ inp = SubSeq(s, e + 1, z)
    BY DEF Unread
  <1>3. Len(inp) \in Nat /\ inp \in Seq(S) /\ Len(buf) \in Nat
    BY UnreadFacts
  <1>4. t + Len(buf) + Len(inp) = z
    BY UnreadFacts
  <1> HIDE DEF s, z, S
  <1>5. e \in Nat /\ t <= e /\ e <= z /\ n \in Nat /\ n >= 1 /\ n <= Len(inp)
    BY <1>1, <1>3
  <1>6. Len(inp) = z - e
    BY <1>1, <1>2, <1>5, SubSeqProperties
  <1> DEFINE g == e + n
  <1>7. g \in t .. z /\ g \in Nat
    BY <1>1, <1>5, <1>6
  <1>8. SubSeq(inp, 1, n) = SubSeq(s, e + 1, g)
    <2>1. /\ e + 1 \in 1 .. Len(s) /\ z \in 1 .. Len(s)
          /\ 1 \in 1 .. z - (e + 1) + 1 /\ n \in 1 .. z - (e + 1) + 1
      BY <1>1, <1>5, <1>6
    <2>2. SubSeq(SubSeq(s, e + 1, z), 1, n) = SubSeq(s, (e + 1) + 1 - 1, (e + 1) + n - 1)
      BY <1>1, <2>1, SubSeqOfSubSeq
    <2>3. (e + 1) + 1 - 1 = e + 1 /\ (e + 1) + n - 1 = g
      BY <1>5
    <2> QED BY <1>2, <2>2, <2>3
  <1>9. SubSeq(inp, n + 1, Len(inp)) = SubSeq(s, g + 1, z)
    <2>1. CASE n = Len(inp)
      <3>1. SubSeq(inp, n + 1, Len(inp)) = <<>>
        BY <1>5, <2>1, SubSeqEmpty
      <3>2. g = z
        BY <1>1, <1>5, <1>6, <2>1
      <3>3. SubSeq(s, g + 1, z) = <<>>
        BY <1>1, <3>2, SubSeqEmpty
      <3> QED BY <3>1, <3>3
    <2>2. CASE n # Len(inp)
      <3>1. /\ e + 1 \in 1 .. Len(s) /\ z \in 1 .. Len(s)
            /\ n + 1 \in 1 .. z - (e + 1) + 1 /\ Len(inp) \in 1 .. z - (e + 1) + 1
        BY <1>1, <1>3, <1>5, <1>6, <2>2
      <3>2. SubSeq(SubSeq(s, e + 1, z), n + 1, Len(inp))
              = SubSeq(s, (e + 1) + (n + 1) - 1, (e + 1) + Len(inp) - 1)
        BY <1>1, <3>1, SubSeqOfSubSeq
      <3>3. (e + 1) + (n + 1) - 1 = g + 1 /\ (e + 1) + Len(inp) - 1 = z
        BY <1>1, <1>5, <1>6
      <3> QED BY <1>2, <3>2, <3>3
    <2> QED BY <2>1, <2>2
  <1>10. g \in t .. z /\ e \in t .. z
    BY <1>1, <1>5, <1>6
  <1> HIDE DEF g
  <1>11. SubSeq(s, t + 1, e) \o SubSeq(s, e + 1, g) = SubSeq(s, t + 1, g)
    <2> DEFINE m == t + 1
    <2>1. m \in 1 .. Len(s) + 1 /\ e \in m - 1 .. Len(s) /\ g \in e .. Len(s)
      BY <1>1, <1>5, <1>10 DEF g
    <2> HIDE DEF m
    <2>2. SubSeq(s, m, e) \o SubSeq(s, e + 1, g) = SubSeq(s, m, g)
      BY <1>1, <2>1, ConcatAdjacentSubSeq
    <2> QED BY <2>2 DEF m
  <1>12. /\ buf \o SubSeq(inp, 1, n) = SubSeq(s, t + 1, g)
         /\ SubSeq(inp, n + 1, Len(inp)) = SubSeq(s, g + 1, z)
    BY <1>2, <1>8, <1>9, <1>11
  <1> QED BY <1>10, <1>12 DEF Unread, s, z

(* n units are taken from the buffer.                                      *)
LEMMA UnreadTake ==
  ASSUME NEW r \in Requests, NEW t \in Nat, NEW buf, NEW inp, Unread(r, buf, inp, t),
         NEW n \in 0 .. Len(buf)
  PROVE  Unread(r, SubSeq(buf, n + 1, Len(buf)), inp, t + n)
  <1> DEFINE s == Sent(r)
             z == Len(Sent(r))
             S == Units(r)
  <1>1. s \in Seq(S) /\ z \in Nat /\ z = Len(s)
    BY SentFacts
  <1>2. PICK e \in t .. z : buf = SubSeq(s, t + 1, e) /\ inp = SubSeq(s, e + 1, z)
    BY DEF Unread
  <1>3. Len(buf) \in Nat /\ buf \in Seq(S)
    BY UnreadFacts
  <1> HIDE DEF s, z, S
  <1>5. e \in Nat /\ t <= e /\ e <= z /\ n \in Nat /\ n <= Len(buf)
    BY <1>1, <1>3
  <1>6. Len(buf) = e - t
    BY <1>1, <1>2, <1>5, SubSeqProperties
  <1>7. SubSeq(buf, n + 1, Len(buf)) = SubSeq(s, t + n + 1, e)
    <2>1. CASE n = Len(buf)
      <3>1. SubSeq(buf, n + 1, Len(buf)) = <<>>
        BY <1>5, <2>1, SubSeqEmpty
      <3>2. e < t + n + 1 /\ t + n + 1 \in Int
        BY <1>5, <1>6, <2>1
      <3>3. SubSeq(s, t + n + 1, e) = <<>>
        BY <1>5, <3>2, SubSeqEmpty
      <3> QED BY <3>1, <3>3
    <2>2. CASE n # Len(buf)
      <3>1. /\ t + 1 \in 1 .. Len(s) /\ e \in 1 .. Len(s)
            /\ n + 1 \in 1 .. e - (t + 1) + 1 /\ Len(buf) \in 1 .. e - (t + 1) + 1
        BY <1>1, <1>3, <1>5, <1>6, <2>2
      <3>2. SubSeq(SubSeq(s, t + 1, e), n + 1, Len(buf))
              = SubSeq(s, (t + 1) + (n + 1) - 1, (t + 1) + Len(buf) - 1)
        BY <1>1, <3>1, SubSeqOfSubSeq
      <3>3. (t + 1) + (n + 1) - 1 = t + n + 1 /\ (t + 1) + Len(buf) - 1 = e
        BY <1>5, <1>6
      <3> QED BY <1>2, <3>2, <3>3
    <2> QED BY <2>1, <2>2
  <1>8. e \in t + n .. z
    BY <1>1, <1>5, <1>6
  <1> QED BY <1>2, <1>7, <1>8 DEF Unread, s, z

LEMMA UnreadTail ==
  ASSUME NEW r \in Requests, NEW t \in Nat, NEW buf, NEW inp, Unread(r, buf, inp, t),
         buf # <<>>
  PROVE  /\ Unread(r, Tail(buf), inp, t + 1)
         /\ Head(buf) = Sent(r)[t + 1]
         /\ t + 1 \in 1 .. Len(Sent(r)) /\ t + 1 \in Nat /\ t < Len(Sent(r))
  <1>1. buf \in Seq(Units(r)) /\ Len(buf) \in Nat /\ Len(inp) \in Nat
    BY UnreadFacts
  <1>2. Len(buf) > 0 /\ 1 \in 1 .. Len(buf) /\ 1 \in 0 .. Len(buf)
    BY <1>1
  <1>3. Tail(buf) = SubSeq(buf, 1 + 1, Len(buf))
    <2>1. Tail(buf) = SubSeq(buf, 2, Len(buf))
      BY <1>1, TailIsSubSeq
    <2> QED BY <2>1
  <1>4. Unread(r, SubSeq(buf, 1 + 1, Len(buf)), inp, t + 1)
    BY <1>2, UnreadTake
  <1>5. Head(buf) = buf[1]
    BY <1>1
  <1>6. buf[1] = Sent(r)[t + 1] /\ t + Len(buf) + Len(inp) = Len(Sent(r))
    BY <1>2, UnreadFacts
  <1>7. t + 1 \in 1 .. Len(Sent(r)) /\ t + 1 \in Nat /\ t < Len(Sent(r))
    <2>1. Len(Sent(r)) \in Nat
      BY SentFacts
    <2> QED BY <1>1, <1>2, <1>6, <2>1
  <1>8. Unread(r, Tail(buf), inp, t + 1)
    BY <1>3, <1>4
  <1>9. Head(buf) = Sent(r)[t + 1]
    BY <1>5, <1>6
  <1> QED BY <1>7, <1>8, <1>9

(* Which line comes next.                                                  *)
LEMMA LinesDiffer ==
  /\ <<"first">> # <<"rubbish">> /\ <<"first">> # <<"blank">>
  /\ <<"header">> # <<"first">> /\ <<"header">> # <<"blank">>
  /\ <<"blank">> # <<"first">> /\ <<"header">> # <<"rubbish">>
  /\ <<"blank">> # <<"rubbish">>
  /\ <<"rubbish">>[1] = "rubbish" /\ <<"newline">>[1] = "newline"
  /\ \A n : <<"size", n>>[1] = "size" /\ <<"size", n>>[2] = n
  /\ <<"newline">> # <<"size", 0>> /\ \A n : n # 0 => <<"size", n>> # <<"size", 0>>
  <1>1. /\ <<"first">>[1] = "first" /\ <<"header">>[1] = "header"
        /\ <<"blank">>[1] = "blank" /\ <<"rubbish">>[1] = "rubbish"
        /\ <<"newline">>[1] = "newline"
    OBVIOUS
  <1>2. \A n : <<"size", n>>[1] = "size" /\ <<"size", n>>[2] = n
    OBVIOUS
  <1>3. <<"newline">> # <<"size", 0>>
    BY <1>1, <1>2
  <1>4. \A n : n # 0 => <<"size", n>> # <<"size", 0>>
    BY <1>2
  <1> QED BY <1>1, <1>2, <1>3, <1>4

LEMMA NextLine ==
  ASSUME NEW r \in Requests, NEW t \in Nat, NEW buf, NEW inp, Unread(r, buf, inp, t),
         buf # <<>>, Head(buf) # <<"rubbish">>
  PROVE  /\ t = 0 => Head(buf) = <<"first">>
         /\ t = 1 => Head(buf) = <<"header">>
         /\ t = 2 => Head(buf) = <<"blank">>
         /\ r.upload = "chunked" =>
              /\ t = AfterChunks(r, 0) => Head(buf) = <<"header">>
              /\ t = AfterChunks(r, 0) + 1 => Head(buf) = <<"blank">>
  <1>1. Head(buf) = Sent(r)[t + 1]
    BY UnreadTail
  <1>2. Has(r, 1, <<"first">>) /\ Has(r, 2, <<"header">>) /\ Has(r, 3, <<"blank">>)
    BY SentFacts
  <1>3. t = 0 => Head(buf) = <<"first">>
    BY <1>1, <1>2 DEF Has
  <1>4. t = 1 => Head(buf) = <<"header">>
    BY <1>1, <1>2 DEF Has
  <1>5. t = 2 => Head(buf) = <<"blank">>
    BY <1>1, <1>2 DEF Has
  <1>6. ASSUME r.upload = "chunked"
        PROVE  /\ t = AfterChunks(r, 0) => Head(buf) = <<"header">>
               /\ t = AfterChunks(r, 0) + 1 => Head(buf) = <<"blank">>
    <2> DEFINE z == Len(Upload(r)) + 2 * Len(r.sizes)
    <2>1. Has(r, z + 5, <<"header">>) /\ Has(r, z + 6, <<"blank">>)
      BY <1>6, SentChunks
    <2>2. AfterChunks(r, 0) = z + 4 /\ z \in Nat
      BY UploadFacts, BytesUpToFacts DEF AfterChunks
    <2> HIDE DEF z
    <2>3. t = z + 4 => t + 1 = z + 5
      BY <2>2
    <2>4. t = z + 4 + 1 => t + 1 = z + 6
      BY <2>2
    <2> QED BY <1>1, <2>1, <2>2, <2>3, <2>4 DEF Has
  <1> QED BY <1>3, <1>4, <1>5, <1>6

-----------------------------------------------------------------------------
(* In the body.                                                            *)

LEMMA InBodyStart ==
  ASSUME NEW r \in Requests, Announced(r) # 0 \/ r.expect,
         r.upload # "unreadable"
  PROVE  InBody(r, FALSE, Announced(r), None, 0, 3)
  <1>1. /\ Len(Upload(r)) \in Nat /\ Upload(r) \in Seq(Units(r))
        /\ r.upload \in {"none", "length", "chunked", "other", "unreadable"}
    BY UploadFacts, RequestsAssumption
  <1>2. CASE r.upload = "none"
    <2>1. Announced(r) = 0
      BY <1>2 DEF Announced
    <2> QED BY <1>1, <1>2, <2>1 DEF InBody, InPlainBody
  <1>3. CASE r.upload = "length"
    <2>1. Announced(r) = Len(Upload(r))
      BY <1>3 DEF Announced
    <2>2. Announced(r) = 0 => Upload(r) = <<>>
      BY <1>1, <2>1, EmptySeq
    <2>3. 0 \in 0 .. Len(Upload(r)) /\ 3 = 3 + 0 /\ Len(Upload(r)) - 0 = Len(Upload(r))
      BY <1>1
    <2> QED BY <1>3, <2>1, <2>2, <2>3 DEF InBody, InPlainBody
  <1>4. CASE r.upload = "other"
    <2>1. Announced(r) = SizeUnknown
      BY <1>4 DEF Announced
    <2> QED BY <1>1, <1>4, <2>1 DEF InBody, InPlainBody
  <1>5. CASE r.upload = "chunked"
    <2>1. Announced(r) = SizeUnknown
      BY <1>5 DEF Announced
    <2>2. BytesUpTo(r)[1 - 1] = 0 /\ 1 \in 1 .. Len(r.sizes) + 1
      <3>1. BytesUpTo(r)[0] = 0 /\ Len(r.sizes) \in Nat /\ 1 - 1 = 0
        BY BytesUpToFacts
      <3> QED BY <3>1
    <2>3. \E i \in 1 .. Len(r.sizes) + 1 :
            0 = BytesUpTo(r)[i - 1] /\ 3 = 0 + 2 * i + 1
      <3>1. 0 = BytesUpTo(r)[1 - 1] /\ 3 = 0 + 2 * 1 + 1
        BY <2>2
      <3> QED BY <2>2, <3>1
    <2> QED BY <1>5, <2>1, <2>3 DEF InBody, BeforeChunk
  <1> QED BY <1>1, <1>2, <1>3, <1>4, <1>5

(* While something is still to come it does not matter whether the loop    *)
(* over the buffer has ended.                                              *)
LEMMA InBodyGoesOn ==
  ASSUME NEW r, NEW ended, NEW other, NEW up, NEW ch, NEW gv, NEW t,
         InBody(r, ended, up, ch, gv, t), up # 0
  PROVE  InBody(r, other, up, ch, gv, t)
  BY DEF InBody, InPlainBody

LEMMA InBodyEnded ==
  ASSUME NEW r, NEW up, NEW ch, NEW gv, NEW t, InBody(r, FALSE, up, ch, gv, t)
  PROVE  InBody(r, TRUE, up, ch, gv, t)
  BY DEF InBody, InPlainBody

LEMMA InBodyComplete ==
  ASSUME NEW r \in Requests, NEW ended, NEW ch, NEW gv, NEW t,
         InBody(r, ended, 0, ch, gv, t)
  PROVE  /\ gv = Len(Upload(r))
         /\ r.upload = "chunked" => t = AfterChunks(r, gv)
  <1>1. Len(Upload(r)) \in Nat /\ SizeUnknown \in Nat /\ Len(Upload(r)) < SizeUnknown
    BY UploadFacts
  <1>2. r.upload = "none" => Len(Upload(r)) = 0
    BY DEF Upload
  <1>3. CASE InPlainBody(r, ended, 0, gv, t)
    BY <1>1, <1>2, <1>3 DEF InPlainBody
  <1>4. CASE Overrun(r, 0, gv, t)
    BY <1>1, <1>4 DEF Overrun
  <1>5. CASE BeforeChunk(r, 0, ch, gv, t)
    BY <1>1, <1>5 DEF BeforeChunk
  <1>6. CASE WithinChunk(r, 0, ch, gv, t)
    BY <1>1, <1>6 DEF WithinChunk
  <1> QED BY <1>3, <1>4, <1>5, <1>6 DEF InBody

(* The line before a chunk, the one after it, and the last one.            *)
LEMMA InBodyLine ==
  ASSUME NEW r \in Requests, NEW t \in Nat, NEW buf, NEW inp, Unread(r, buf, inp, t),
         buf # <<>>, NEW up, NEW ch, ch \in {None, 0}, NEW gv,
         r.upload = "chunked", InBody(r, FALSE, up, ch, gv, t),
         Head(buf)[1] = (IF ch = None THEN "size" ELSE "newline"),
         NEW ended
  PROVE  LET up2 == IF Head(buf) = <<"size", 0>> THEN 0 ELSE up
             ch2 == IF ch = None THEN Head(buf)[2] ELSE None
         IN InBody(r, up2 = 0 \/ ended, up2, ch2, gv, t + 1)
  <1> DEFINE n == Len(r.sizes)
             up2 == IF Head(buf) = <<"size", 0>> THEN 0 ELSE up
             ch2 == IF ch = None THEN Head(buf)[2] ELSE None
  <1>1. /\ n \in Nat /\ SizeUnknown \in Nat /\ SizeUnknown # 0
        /\ Head(buf) = Sent(r)[t + 1]
    BY UnreadTail, BytesUpToFacts, SizesAssumption
  <1>2. up = SizeUnknown /\ up # 0
    BY <1>1 DEF InBody, InPlainBody, Overrun, BeforeChunk, WithinChunk
  <1>3. None # 0
    BY NoneAssumption
  <1>4. Len(Upload(r)) \in Nat /\ BytesUpTo(r)[n] = Len(Upload(r))
    BY UploadFacts
  <1> HIDE DEF n
  <1>5. CASE ch = None
    <2>1. PICK i \in 1 .. n + 1 : gv = BytesUpTo(r)[i - 1] /\ t = gv + 2 * i + 1
      <3>1. ~InPlainBody(r, FALSE, up, gv, t) /\ ~Overrun(r, up, gv, t)
        BY DEF InPlainBody, Overrun
      <3>2. ~WithinChunk(r, up, ch, gv, t)
        BY <1>5, NoneAssumption DEF WithinChunk
      <3>3. BeforeChunk(r, up, ch, gv, t)
        BY <1>2, <3>1, <3>2 DEF InBody
      <3> QED BY <3>3 DEF BeforeChunk, n
    <2>2. CASE i # n + 1
      <3>1. i \in 1 .. n /\ i \in Nat
        BY <1>1, <2>2
      <3>2. /\ Has(r, gv + 2 * i + 2, <<"size", r.sizes[i]>>)
            /\ gv \in Nat /\ r.sizes[i] \in Nat /\ r.sizes[i] > 0
            /\ BytesUpTo(r)[i] = gv + r.sizes[i]
        <4>1. i - 1 \in 0 .. n
          BY <1>1, <3>1
        <4>2. Has(r, BytesUpTo(r)[i - 1] + 2 * i + 2, <<"size", r.sizes[i]>>)
          BY <3>1, SentChunk DEF n
        <4>3. r.sizes[i] > 0
          BY <3>1, UploadFacts DEF n
        <4> QED BY <2>1, <3>1, <4>1, <4>2, <4>3, BytesUpToFacts DEF n
      <3>3. t + 1 = gv + 2 * i + 2
        BY <2>1, <3>1, <3>2
      <3>4. Head(buf) = <<"size", r.sizes[i]>>
        BY <1>1, <1>5, <3>2, <3>3, LinesDiffer DEF Has
      <3>5. up2 = up /\ ch2 = r.sizes[i]
        BY <1>5, <3>2, <3>4, LinesDiffer
      <3>6. ch2 <= r.sizes[i] /\ gv = BytesUpTo(r)[i] - ch2 /\ ch2 \in Nat
        BY <3>2, <3>5
      <3> HIDE DEF up2, ch2
      <3>7. WithinChunk(r, up2, ch2, gv, t + 1)
        BY <1>2, <3>1, <3>3, <3>5, <3>6 DEF WithinChunk, n
      <3> QED BY <3>7 DEF InBody, up2, ch2
    <2>3. CASE i = n + 1
      <3>1. gv = Len(Upload(r)) /\ gv \in Nat
        <4>1. i - 1 = n
          BY <1>1, <2>3
        <4> QED BY <1>4, <2>1, <4>1
      <3>2. Has(r, gv + 2 * n + 4, <<"size", 0>>)
        BY <3>1, SentChunks DEF n
      <3>3. t + 1 = gv + 2 * n + 4
        BY <1>1, <2>1, <2>3, <3>1
      <3>4. Head(buf) = <<"size", 0>>
        BY <1>1, <1>5, <3>2, <3>3, LinesDiffer DEF Has
      <3>5. up2 = 0
        BY <3>4
      <3>6. t + 1 = AfterChunks(r, gv)
        BY <3>1, <3>3 DEF AfterChunks, n
      <3> HIDE DEF up2, ch2
      <3> QED BY <3>1, <3>5, <3>6 DEF InBody, up2, ch2
    <2> QED BY <2>2, <2>3
  <1>6. CASE ch = 0
    <2>1. PICK i \in 1 .. n : gv = BytesUpTo(r)[i] - 0 /\ t = gv + 2 * i + 2
      <3>1. ~InPlainBody(r, FALSE, up, gv, t) /\ ~Overrun(r, up, gv, t)
        BY DEF InPlainBody, Overrun
      <3>2. ~BeforeChunk(r, up, ch, gv, t)
        BY <1>3, <1>6 DEF BeforeChunk
      <3>3. WithinChunk(r, up, ch, gv, t)
        BY <1>2, <3>1, <3>2 DEF InBody
      <3> QED BY <1>6, <3>3 DEF WithinChunk, n
    <2>2. /\ gv = BytesUpTo(r)[i] /\ gv \in Nat /\ i \in Nat /\ i \in 0 .. n
          /\ i + 1 \in 1 .. n + 1 /\ i + 1 - 1 = i
      <3>1. i \in 0 .. n /\ i \in Nat
        BY <1>1
      <3>2. BytesUpTo(r)[i] \in Nat
        BY <3>1, BytesUpToFacts DEF n
      <3> QED BY <1>1, <2>1, <3>1, <3>2
    <2>3. Has(r, gv + 2 * i + 3, <<"newline">>) /\ t + 1 = gv + 2 * i + 3
      <3>1. Has(r, BytesUpTo(r)[i] + 2 * i + 3, <<"newline">>)
        BY SentChunk DEF n
      <3> QED BY <2>1, <2>2, <3>1
    <2>4. Head(buf) = <<"newline">>
      BY <1>1, <1>3, <1>6, <2>3, LinesDiffer DEF Has
    <2>5. up2 = up /\ ch2 = None
      BY <1>3, <1>6, <2>4, LinesDiffer
    <2>6. t + 1 = gv + 2 * (i + 1) + 1
      BY <2>2, <2>3
    <2> HIDE DEF up2, ch2
    <2>7. BeforeChunk(r, up2, ch2, gv, t + 1)
      BY <1>2, <2>2, <2>5, <2>6 DEF BeforeChunk, n
    <2> QED BY <2>7 DEF InBody, up2, ch2
  <1> QED BY <1>5, <1>6

LEMMA MinOfTwo ==
  ASSUME NEW a \in Int, NEW b \in Int
  PROVE  Min({a, b}) = IF a <= b THEN a ELSE b
  <1> DEFINE m == IF a <= b THEN a ELSE b
  <1>1. m \in {a, b} /\ \A y \in {a, b} : m <= y
    OBVIOUS
  <1>2. \A x \in {a, b} : (\A y \in {a, b} : x <= y) => x = m
    OBVIOUS
  <1> HIDE DEF m
  <1>3. Min({a, b}) = m
    BY <1>1, <1>2, Zenon DEF Min
  <1> QED BY <1>3 DEF m

(* How much of the buffer belongs to the body, and that it is the next of  *)
(* what the client uploads.                                                *)
Takes(r, up, ch, n) ==
  IF r.upload = "chunked" THEN Min({ch, n})
  ELSE IF up \notin {0, SizeUnknown} THEN Min({up, n})
  ELSE n

Left(up, n) == IF up = SizeUnknown THEN up ELSE (up - n) % (SizeUnknown + 1)

PartTaken(r, buf, up, ch, gv, t, n) ==
  /\ n \in 1 .. Len(buf)
  /\ InBody(r, r.upload # "chunked", Left(up, n),
            IF r.upload = "chunked" THEN ch - n ELSE ch, gv + n, t + n)
  /\ gv \in Nat
  /\ \/ /\ gv + n <= Len(Upload(r))
        /\ \A j \in 1 .. n : buf[j] = Upload(r)[gv + j]
     \/ r.upload = "length" /\ r.expect /\ Upload(r) = <<>>

LEMMA InBodyPart ==
  ASSUME NEW r \in Requests, NEW t \in Nat, NEW buf, NEW inp, Unread(r, buf, inp, t),
         buf # <<>>, NEW up, NEW ch, NEW gv,
         r.upload = "chunked" => ch \notin {None, 0},
         InBody(r, FALSE, up, ch, gv, t)
  PROVE  PartTaken(r, buf, up, ch, gv, t, Takes(r, up, ch, Len(buf)))
  <1> DEFINE U == Upload(r)
             z == Len(Upload(r))
             n == Takes(r, up, ch, Len(buf))
             ended == r.upload # "chunked"
             ch2 == IF r.upload = "chunked" THEN ch - n ELSE ch
  <1>1. /\ z \in Nat /\ SizeUnknown \in Nat /\ z < SizeUnknown
        /\ r.upload \in {"none", "length", "chunked", "other", "unreadable"}
    BY UploadFacts, RequestsAssumption
  <1>2. /\ Len(buf) \in Nat /\ Len(buf) > 0 /\ Len(inp) \in Nat
        /\ t + Len(buf) + Len(inp) = Len(Sent(r)) /\ Len(Sent(r)) \in Nat
        /\ \A k \in 1 .. Len(buf) : buf[k] = Sent(r)[t + k]
    <2>1. buf \in Seq(Units(r)) /\ Len(buf) \in Nat /\ Len(inp) \in Nat
      BY UnreadFacts
    <2>2. Len(buf) > 0
      BY <2>1
    <2>3. /\ t + Len(buf) + Len(inp) = Len(Sent(r))
          /\ \A k \in 1 .. Len(buf) : buf[k] = Sent(r)[t + k]
      BY UnreadFacts
    <2>4. Len(Sent(r)) \in Nat
      BY SentFacts
    <2> QED BY <2>1, <2>2, <2>3, <2>4
  <1> HIDE DEF z
  <1>3. CASE InPlainBody(r, FALSE, up, gv, t)
    <2>1. gv \in 0 .. z /\ t = 3 + gv /\ gv \in Nat
      BY <1>1, <1>3 DEF InPlainBody, z
    <2>2. r.upload # "chunked"
      BY <1>3 DEF InPlainBody
    <2>3. ch2 = ch
      BY <2>2
    <2>4. r.upload # "none"
      <3>1. ASSUME r.upload = "none"
            PROVE  FALSE
        <4>1. Len(Sent(r)) = 3
          BY <3>1, SentWithout
        <4> QED BY <1>1, <1>2, <2>1, <4>1
      <3> QED BY <3>1
    <2>5. CASE r.upload = "length" /\ up = 0
      <3>1. r.expect /\ U = <<>> /\ z = 0 /\ gv = 0
        <4>1. r.expect /\ U = <<>> /\ up = z - gv
          BY <1>3, <2>5 DEF InPlainBody, z
        <4>2. z = 0
          BY <4>1 DEF z
        <4> QED BY <1>1, <2>1, <4>1, <4>2
      <3>2. n = Len(buf)
        BY <2>2, <2>5 DEF Takes
      <3>3. Len(Sent(r)) = 4
        <4>1. Len(Sent(r)) = 3 + z + 1
          BY <2>5, SentPlain DEF z
        <4> QED BY <3>1, <4>1
      <3>4. n = 1
        BY <1>2, <2>1, <3>1, <3>2, <3>3
      <3>5. Left(up, n) = SizeUnknown
        <4>1. SizeUnknown # 0
          BY SizesAssumption
        <4>2. (0 - 1) % (SizeUnknown + 1) = SizeUnknown
          BY <1>1
        <4> QED BY <2>5, <3>4, <4>1, <4>2 DEF Left
      <3>6. Overrun(r, Left(up, n), gv + n, t + n)
        BY <2>1, <2>5, <3>1, <3>4, <3>5 DEF Overrun
      <3>7. InBody(r, ended, Left(up, n), ch2, gv + n, t + n)
        BY <3>6 DEF InBody
      <3>8. n \in 1 .. Len(buf)
        BY <1>2, <3>2
      <3> HIDE DEF n, ch2
      <3>9. ch2 = IF r.upload = "chunked" THEN ch - n ELSE ch
        BY DEF ch2
      <3>10. PartTaken(r, buf, up, ch, gv, t, n)
        BY <2>1, <2>5, <3>1, <3>7, <3>8, <3>9 DEF PartTaken
      <3> QED BY <3>10 DEF n
    <2>6. CASE ~(r.upload = "length" /\ up = 0)
      <3>1. \/ r.upload = "length" /\ up = z - gv /\ up # 0 /\ up \in Nat
            \/ r.upload = "other" /\ up = SizeUnknown
        BY <1>1, <1>3, <2>1, <2>4, <2>6 DEF InPlainBody, z
      <3>2. \/ /\ r.upload = "length" /\ up = z - gv /\ up \in Nat /\ up # SizeUnknown
               /\ n = IF up <= Len(buf) THEN up ELSE Len(buf)
            \/ r.upload = "other" /\ up = SizeUnknown /\ n = Len(buf)
        <4>1. CASE r.upload = "length" /\ up = z - gv /\ up # 0 /\ up \in Nat
          <5>1. up # SizeUnknown
            BY <1>1, <2>1, <4>1
          <5>2. n = Min({up, Len(buf)})
            BY <4>1, <5>1 DEF Takes
          <5> QED BY <1>2, <4>1, <5>1, <5>2, MinOfTwo
        <4>2. CASE r.upload = "other" /\ up = SizeUnknown
          BY <4>2 DEF Takes
        <4> QED BY <3>1, <4>1, <4>2
      <3>3. n \in 1 .. Len(buf) /\ n \in Nat
        BY <1>2, <3>1, <3>2
      <3>4. gv + n <= z
        <4>1. CASE r.upload = "length"
          BY <1>1, <1>2, <2>1, <3>2, <4>1
        <4>2. CASE r.upload = "other"
          <5>1. Len(Sent(r)) = 3 + z + 0
            BY <4>2, SentPlain DEF z
          <5> QED BY <1>1, <1>2, <2>1, <3>2, <4>2, <5>1
        <4> QED BY <3>2, <4>1, <4>2
      <3> HIDE DEF n, ch2
      <3>5. \A j \in 1 .. n : buf[j] = U[gv + j]
        <4>1. ASSUME NEW j \in 1 .. n
              PROVE  buf[j] = U[gv + j]
          <5> DEFINE q == gv + j
          <5>1. j \in 1 .. Len(buf) /\ q \in 1 .. z /\ t + j = 3 + q
            BY <1>1, <1>2, <2>1, <3>3, <3>4
          <5> HIDE DEF q
          <5>2. Sent(r)[3 + q] = U[q]
            BY <3>1, <5>1, SentPlain DEF z
          <5>3. buf[j] = Sent(r)[t + j]
            BY <1>2, <5>1
          <5> QED BY <5>1, <5>2, <5>3 DEF q
        <4> QED BY <4>1
      <3>6. gv + n \in 0 .. z /\ t + n = 3 + (gv + n)
        BY <1>1, <2>1, <3>3, <3>4
      <3>7. /\ r.upload = "length" => Left(up, n) = z - (gv + n)
            /\ r.upload = "other" => Left(up, n) = SizeUnknown
        <4>1. ASSUME r.upload = "length"
              PROVE  Left(up, n) = z - (gv + n)
          <5>1. up = z - gv /\ up # SizeUnknown /\ up \in Nat
            BY <3>2, <4>1
          <5>2. up - n = z - (gv + n) /\ up - n \in 0 .. SizeUnknown
            BY <1>1, <2>1, <3>3, <3>4, <5>1
          <5>3. (up - n) % (SizeUnknown + 1) = up - n
            BY <1>1, <5>2
          <5> QED BY <5>1, <5>2, <5>3 DEF Left
        <4>2. ASSUME r.upload = "other"
              PROVE  Left(up, n) = SizeUnknown
          BY <3>2, <4>2 DEF Left
        <4> QED BY <4>1, <4>2
      <3>8. InPlainBody(r, ended, Left(up, n), gv + n, t + n)
        BY <2>2, <3>1, <3>6, <3>7 DEF InPlainBody, z
      <3>9. InBody(r, ended, Left(up, n), ch2, gv + n, t + n)
        BY <3>8 DEF InBody
      <3>10. ch2 = IF r.upload = "chunked" THEN ch - n ELSE ch
        BY DEF ch2
      <3>11. PartTaken(r, buf, up, ch, gv, t, n)
        BY <2>1, <3>3, <3>4, <3>5, <3>9, <3>10 DEF PartTaken, z
      <3> QED BY <3>11 DEF n
    <2> QED BY <2>5, <2>6
  <1>4. CASE WithinChunk(r, up, ch, gv, t)
    <2>1. r.upload = "chunked" /\ up = SizeUnknown /\ ch \in Nat /\ ch > 0
      BY <1>4 DEF WithinChunk
    <2>2. PICK i \in 1 .. Len(r.sizes) :
            ch <= r.sizes[i] /\ gv = BytesUpTo(r)[i] - ch /\ t = gv + 2 * i + 2
      BY <1>4 DEF WithinChunk
    <2>3. n = IF ch <= Len(buf) THEN ch ELSE Len(buf)
      <3>1. n = Min({ch, Len(buf)})
        BY <2>1 DEF Takes
      <3> QED BY <1>2, <2>1, <3>1, MinOfTwo
    <2>4. n \in 1 .. Len(buf) /\ n \in Nat /\ n <= ch
      BY <1>2, <2>1, <2>3
    <2>5. ch2 = ch - n /\ Left(up, n) = SizeUnknown
      BY <2>1 DEF Left
    <2> HIDE DEF n, ch2
    <2> DEFINE a == BytesUpTo(r)[i - 1]
               b == BytesUpTo(r)[i]
               s == r.sizes[i]
    <2>6. /\ a \in Nat /\ b \in Nat /\ s \in Nat /\ i \in Nat /\ b = a + s
          /\ b <= z
      <3>1. Len(r.sizes) \in Nat /\ i - 1 \in 0 .. Len(r.sizes) /\ i \in 0 .. Len(r.sizes)
        BY BytesUpToFacts
      <3>2. b <= z
        BY <2>1, SentChunk DEF z
      <3>3. a \in Nat /\ b \in Nat
        BY <3>1, BytesUpToFacts
      <3>4. s \in Nat /\ b = a + s
        BY BytesUpToFacts
      <3>5. i \in Nat
        BY <3>1
      <3> HIDE DEF a, b, s
      <3> QED BY <3>2, <3>3, <3>4, <3>5
    <2>7. \A j \in 1 .. s : Sent(r)[a + 2 * i + 2 + j] = U[a + j]
      BY <2>1, SentChunk
    <2> HIDE DEF a, b, s
    <2>8. ch <= s /\ gv = b - ch /\ t = gv + 2 * i + 2
      BY <2>2 DEF b, s
    <2>9. gv \in Nat /\ gv + n <= z
      BY <1>1, <2>1, <2>4, <2>6, <2>8
    <2>10. \A j \in 1 .. n : buf[j] = U[gv + j]
      <3>1. ASSUME NEW j \in 1 .. n
            PROVE  buf[j] = U[gv + j]
        <4> DEFINE q == (s - ch) + j
        <4>1. /\ j \in 1 .. Len(buf) /\ q \in 1 .. s
              /\ a + 2 * i + 2 + q = t + j /\ a + q = gv + j
          BY <1>2, <2>1, <2>4, <2>6, <2>8
        <4> HIDE DEF q
        <4>2. Sent(r)[a + 2 * i + 2 + q] = U[a + q]
          BY <2>7, <4>1
        <4>3. buf[j] = Sent(r)[t + j]
          BY <1>2, <4>1
        <4> QED BY <4>1, <4>2, <4>3
      <3> QED BY <3>1
    <2>11. WithinChunk(r, Left(up, n), ch2, gv + n, t + n)
      <3>1. /\ ch2 \in Nat /\ ch2 <= s /\ gv + n = b - ch2
            /\ t + n = gv + n + 2 * i + 2
        BY <2>1, <2>4, <2>5, <2>6, <2>8, <2>9
      <3> QED BY <2>1, <2>5, <3>1 DEF WithinChunk, b, s
    <2>12. InBody(r, ended, Left(up, n), ch2, gv + n, t + n)
      BY <2>11 DEF InBody
    <2>13. ch2 = IF r.upload = "chunked" THEN ch - n ELSE ch
      BY DEF ch2
    <2>14. PartTaken(r, buf, up, ch, gv, t, n)
      BY <2>4, <2>9, <2>10, <2>12, <2>13 DEF PartTaken, z
    <2> QED BY <2>14 DEF n
  <1>5. ~Overrun(r, up, gv, t)
    <2>1. ASSUME Overrun(r, up, gv, t)
          PROVE  FALSE
      <3>1. r.upload = "length" /\ t = 4 /\ U = <<>>
        BY <2>1 DEF Overrun
      <3>2. Len(Sent(r)) = 3 + z + 1 /\ z = 0
        BY <3>1, SentPlain DEF z
      <3> QED BY <1>2, <3>1, <3>2
    <2> QED BY <2>1
  <1>6. ~BeforeChunk(r, up, ch, gv, t)
    BY DEF BeforeChunk
  <1> QED BY <1>3, <1>4, <1>5, <1>6 DEF InBody

-----------------------------------------------------------------------------
(* Every step keeps ControlInv.                                            *)

LEMMA ControlInit == Init => ControlInv
  BY NoneAssumption DEF Init, ControlInv, BeforeCall, Reading, Answering

LEMMA CloseFacts ==
  ASSUME ControlInv, NEW why, ConnectionClose(why)
  PROVE  /\ state' = "CLOSED" /\ aware' = FALSE
         /\ context' \in {None, "deleted"} /\ context' # "request"
  BY NoneAssumption DEF ControlInv, ConnectionClose, Completed

(* The library answers by itself with these, and closes without an answer  *)
(* in these steps.                                                         *)
ErrorCodes == {400, 413, 414, 500}
AnswersError == \E code \in ErrorCodes : TransmitError(code)
ClosesUnanswered == NoMemoryForAnswer \/ UnreadableLength \/ PostFails

LEMMA ErrorFacts ==
  ASSUME AnswersError
  PROVE  /\ response' \in Responses /\ response'.kind = "error"
         /\ response'.code \in ErrorCodes /\ response' # None
         /\ state' = "HEADERS_SENDING"
  <1>1. PICK code \in ErrorCodes : TransmitError(code)
    BY DEF AnswersError
  <1>2. response' = [code |-> code, kind |-> "error", size |-> 1]
        /\ state' = "HEADERS_SENDING"
    BY <1>1 DEF TransmitError, QueueResponse
  <1>3. response' \in Responses
    BY <1>2 DEF Responses, Kinds, ErrorCodes
  <1> QED BY <1>2, <1>3, NoneAssumption DEF Responses

LEMMA MalformedIsAnswered == MalformedHeader => AnswersError
  BY DEF MalformedHeader, AnswersError, ErrorCodes

LEMMA LackIsAnswered ==
  ASSUME HeaderTooLarge \/ NoMemoryForBody
  PROVE  /\ AnswersError /\ pc' = "end"
         /\ UNCHANGED <<request, readVars, socketShut, uploadVars, requestVars,
                        sent, ending>>
  <1>1. CASE HeaderTooLarge
    <2>1. CASE state = "INIT"
      BY <1>1, <2>1 DEF HeaderTooLarge, AnswersError, ErrorCodes
    <2>2. CASE state # "INIT"
      BY <1>1, <2>2 DEF HeaderTooLarge, AnswersError, ErrorCodes
    <2> QED BY <2>1, <2>2
  <1>2. CASE NoMemoryForBody
    BY <1>2 DEF NoMemoryForBody, AnswersError, ErrorCodes
  <1> QED BY <1>1, <1>2

LEMMA LackStates ==
  ASSUME ControlInv, HeaderTooLarge \/ NoMemoryForBody
  PROVE  state \in BeforeCall \cup Reading
  BY DEF ControlInv, HeaderTooLarge, MemoryEnds, NoMemoryForBody, BodyIsRead,
         Idle, HeaderStates, FooterStates, BeforeCall, Reading

LEMMA ClosingFacts ==
  ASSUME ClosesUnanswered
  PROVE  /\ ConnectionClose("error") /\ pc' = "idle"
         /\ UNCHANGED <<request, readVars, uploadVars, remaining, body, given,
                        seen, responseVars, sent>>
  BY DEF ClosesUnanswered, NoMemoryForAnswer, UnreadableLength, PostFails,
         CloseUnanswered

LEMMA ReaderFacts ==
  ASSUME ControlInv, state \in Answering, CallReader
  PROVE  \/ /\ state' = "CLOSED" /\ aware' = FALSE
            /\ context' \in {None, "deleted"} /\ context' # "request"
         \/ /\ state' \in {"NORMAL_BODY_UNREADY", "NORMAL_BODY_READY"}
            /\ UNCHANGED <<aware, context, response>>
  <1> DEFINE called == GeneratorCallback(generator,
                         Min({BufferSize, response.size - position}))
  <1>1. CASE called.end
    <2>1. ConnectionClose("completed")
      BY <1>1 DEF CallReader
    <2> QED BY <2>1, CloseFacts
  <1>2. CASE ~called.end
    BY <1>2 DEF CallReader
  <1> QED BY <1>1, <1>2


(* The lines come in the order in which the machine waits for them.        *)
LineSteps == {<<"INIT", "URL_RECEIVED">>, <<"URL_RECEIVED", "HEADER_PART_RECEIVED">>,
              <<"HEADER_PART_RECEIVED", "HEADERS_RECEIVED">>,
              <<"BODY_RECEIVED", "FOOTER_PART_RECEIVED">>,
              <<"FOOTER_PART_RECEIVED", "FOOTERS_RECEIVED">>}

LineNumber(r, st) ==
  CASE st = "INIT" -> 0
    [] st = "URL_RECEIVED" -> 1
    [] st = "HEADER_PART_RECEIVED" -> 2
    [] st = "BODY_RECEIVED" -> AfterChunks(r, 0)
    [] OTHER -> AfterChunks(r, 0) + 1

LEMMA HeaderLineFacts ==
  ASSUME ControlInv, ReadInv, CountInv, HeaderLine
  PROVE  /\ <<state, state'>> \in LineSteps
         /\ Unread(request, buffer', input', LineNumber(request, state) + 1)
         /\ LineNumber(request, state) \in Nat
  <1>1. /\ state \in {"INIT", "URL_RECEIVED", "HEADER_PART_RECEIVED",
                      "BODY_RECEIVED", "FOOTER_PART_RECEIVED"}
        /\ buffer # <<>> /\ Head(buffer) # <<"rubbish">>
        /\ buffer' = Tail(buffer) /\ input' = input
        /\ state' = NextHeaderState /\ request \in Requests
    BY DEF HeaderLine, HeaderStates, FooterStates, TakeUnit, Becomes, ControlInv
  <1>2. PICK t \in Nat : /\ Unread(request, buffer, input, t)
                         /\ AtUnit(request, state, pc, upload, chunk, given, t)
    <2>1. state \in BeforeCall \cup Reading
      BY <1>1 DEF BeforeCall, Reading
    <2> QED BY <2>1 DEF ReadInv
  <1>3. state \in {"BODY_RECEIVED", "FOOTER_PART_RECEIVED"} => request.upload = "chunked"
    BY DEF CountInv
  <1>4. t = LineNumber(request, state)
    BY <1>1, <1>2 DEF AtUnit, LineNumber, AfterChunks
  <1>5. /\ t = 0 => Head(buffer) = <<"first">>
        /\ t = 1 => Head(buffer) = <<"header">>
        /\ t = 2 => Head(buffer) = <<"blank">>
        /\ request.upload = "chunked" =>
             /\ t = AfterChunks(request, 0) => Head(buffer) = <<"header">>
             /\ t = AfterChunks(request, 0) + 1 => Head(buffer) = <<"blank">>
    BY <1>1, <1>2, NextLine
  <1>6. <<state, state'>> \in LineSteps
    <2> USE LinesDiffer DEF NextHeaderState, HeaderStates, FooterStates, LineSteps
    <2>1. CASE state = "INIT"
      BY <1>1, <1>4, <1>5, <2>1 DEF LineNumber
    <2>2. CASE state = "URL_RECEIVED"
      BY <1>1, <1>4, <1>5, <2>2 DEF LineNumber
    <2>3. CASE state = "HEADER_PART_RECEIVED"
      BY <1>1, <1>4, <1>5, <2>3 DEF LineNumber
    <2>4. CASE state = "BODY_RECEIVED"
      BY <1>1, <1>3, <1>4, <1>5, <2>4 DEF LineNumber
    <2>5. CASE state = "FOOTER_PART_RECEIVED"
      BY <1>1, <1>3, <1>4, <1>5, <2>5 DEF LineNumber
    <2> QED BY <1>1, <2>1, <2>2, <2>3, <2>4, <2>5
  <1>7. Unread(request, Tail(buffer), input, t + 1)
    BY <1>1, <1>2, UnreadTail
  <1> QED BY <1>1, <1>2, <1>4, <1>6, <1>7

LEMMA VerdictIsNat == Verdict \in Nat
  BY DEF Verdict

LEMMA ControlStep ==
  ASSUME ControlInv, ReadInv, CountInv, [Next]_vars
  PROVE  ControlInv'
  <1> USE NoneAssumption DEF BeforeCall, Reading, Answering
  <1>1. CASE Read
    BY <1>1 DEF Read, ControlInv, EventLoopInfo, requestVars, responseVars, readVars, uploadVars
  <1>2. CASE ReadEnd
    <2>1. ConnectionClose("client") /\ pc' = "idle" /\ UNCHANGED request
      BY <1>2 DEF ReadEnd
    <2> QED BY <2>1, CloseFacts DEF ControlInv
  <1>3. CASE SeeShutdown
    <2>1. ConnectionClose("shutdown") /\ pc' = "idle" /\ UNCHANGED request
      BY <1>3 DEF SeeShutdown
    <2> QED BY <2>1, CloseFacts DEF ControlInv
  <1>4. CASE WriteHeaders
    BY <1>4 DEF WriteHeaders, ControlInv, requestVars, responseVars, readVars, uploadVars
  <1>5. CASE RefillBody
    <2>1. state \in Answering /\ UNCHANGED request /\ CallReader
      BY <1>5 DEF RefillBody, Idle
    <2>2. /\ pc' \in {"write", "idle", "end"}
          /\ pc' = "write" => state' = "NORMAL_BODY_READY"
      BY <1>5 DEF RefillBody
    <2> QED BY <2>1, <2>2, ReaderFacts DEF ControlInv
  <1>6. CASE SendBody
    BY <1>6 DEF SendBody, ControlInv, requestVars, responseVars, readVars, uploadVars
  <1>7. CASE HeaderLine
    <2>1. /\ <<state, state'>> \in LineSteps /\ pc' = "idle"
          /\ UNCHANGED <<request, aware, context, response>>
      BY <1>7, HeaderLineFacts DEF HeaderLine, Becomes, requestVars, responseVars
    <2> QED BY <2>1 DEF ControlInv, LineSteps
  <1>8. CASE NoHeaderLine
    BY <1>8 DEF NoHeaderLine, ControlInv, Wait, requestVars, responseVars, readVars, uploadVars
  <1>9. CASE MalformedFirstLine
    <2>1. ConnectionClose("error") /\ pc' = "idle" /\ UNCHANGED request
      BY <1>9 DEF MalformedFirstLine
    <2> QED BY <2>1, CloseFacts DEF ControlInv
  <1>10. CASE MalformedHeader
    <2>1. AnswersError /\ context' = Completed /\ aware' = FALSE /\ pc' = "end"
          /\ UNCHANGED request
      BY <1>10, MalformedIsAnswered DEF MalformedHeader
    <2> QED BY <2>1, ErrorFacts DEF ControlInv, Completed
  <1>11. CASE HeaderTooLarge \/ NoMemoryForBody
    <2>1. AnswersError /\ pc' = "end" /\ UNCHANGED <<request, aware, context>>
      BY <1>11, LackIsAnswered DEF requestVars
    <2> QED BY <2>1, ErrorFacts DEF ControlInv
  <1>12. CASE ParseHeaders
    BY <1>12 DEF ParseHeaders, ControlInv, Idle, Becomes, requestVars, responseVars, readVars, uploadVars
  <1>13. CASE FirstCall
    BY <1>13 DEF FirstCall, ControlInv, Idle, Becomes, requestVars, responseVars, readVars, uploadVars
  <1>14. CASE NothingToDo
    BY <1>14 DEF NothingToDo, ControlInv, SendStates, Wait, requestVars, responseVars, readVars, uploadVars
  <1>15. CASE EnterBody
    BY <1>15 DEF EnterBody, ControlInv, Idle, requestVars, responseVars, readVars, uploadVars
  <1>16. CASE AfterBody
    BY <1>16 DEF AfterBody, BodyIsRead, ControlInv, Idle, Becomes, Wait, requestVars, responseVars, readVars, uploadVars
  <1>17. CASE ChunkLine
    <2>1. CASE ConnectionClose("error") /\ pc' = "idle"
      BY <1>17, <2>1, CloseFacts DEF ChunkLine, ControlInv, responseVars
    <2>2. CASE ~(ConnectionClose("error") /\ pc' = "idle")
      BY <1>17, <2>2 DEF ChunkLine, ControlInv, Again, responseVars
    <2> QED BY <2>1, <2>2
  <1>18. CASE BodyCall
    BY <1>18 DEF BodyCall, ControlInv, InChunk, Again, requestVars, responseVars, readVars, uploadVars
  <1>19. CASE PostCall
    BY <1>19 DEF PostCall, ControlInv, InChunk, requestVars, responseVars, readVars, uploadVars
  <1>20. CASE PostTurn
    BY <1>20 DEF PostTurn, ControlInv, requestVars, responseVars, readVars, uploadVars
  <1>21. CASE ClosesUnanswered
    <2>1. ConnectionClose("error") /\ pc' = "idle" /\ UNCHANGED request
      BY <1>21, ClosingFacts
    <2> QED BY <2>1, CloseFacts DEF ControlInv
  <1>22. CASE FinalCall
    <2>1. /\ state = "FOOTERS_RECEIVED" /\ state' = "HEADERS_SENDING"
          /\ pc' = "end" /\ UNCHANGED <<request, aware, context>>
      BY <1>22 DEF FinalCall, Idle
    <2>2. response' \in Responses
      <3>1. CASE Refuse
        BY <3>1, VerdictIsNat DEF Refuse, QueueResponse, Responses, Kinds
      <3>2. CASE ServiceHandle
        BY <3>2, SizesAssumption DEF ServiceHandle, QueueResponse, Responses, Kinds
      <3> QED BY <1>22, <3>1, <3>2 DEF FinalCall
    <2> QED BY <2>1, <2>2 DEF ControlInv
  <1>23. CASE FinalCallFails
    <2>1. ConnectionClose("error") /\ pc' = "idle" /\ UNCHANGED request
      BY <1>23 DEF FinalCallFails
    <2> QED BY <2>1, CloseFacts DEF ControlInv
  <1>24. CASE HeadersSent
    BY <1>24 DEF HeadersSent, ControlInv, Idle, Becomes, requestVars, responseVars, readVars, uploadVars
  <1>25. CASE UnreadyBody
    BY <1>25 DEF UnreadyBody, ControlInv, Idle, Becomes, requestVars, responseVars, readVars, uploadVars
  <1>26. CASE ReadBody
    <2>1. state \in Answering /\ UNCHANGED request /\ CallReader
      BY <1>26 DEF ReadBody, Idle
    <2>2. /\ pc' \in {"write", "idle", "end"}
          /\ pc' = "write" => state' = "NORMAL_BODY_READY"
      BY <1>26 DEF ReadBody
    <2> QED BY <2>1, <2>2, ReaderFacts DEF ControlInv
  <1>27. CASE BodySent
    BY <1>27 DEF BodySent, ControlInv, Idle, Becomes, requestVars, responseVars, readVars, uploadVars
  <1>28. CASE FootersSent
    <2>1. ConnectionClose("completed") /\ pc' = "idle" /\ UNCHANGED request
      BY <1>28 DEF FootersSent
    <2> QED BY <2>1, CloseFacts DEF ControlInv
  <1>29. CASE Closed
    BY <1>29 DEF Closed, ControlInv, Idle, requestVars, responseVars, readVars, uploadVars
  <1>30. CASE PollTimesOut
    BY <1>30 DEF PollTimesOut, ControlInv, requestVars, responseVars, readVars, uploadVars
  <1>31. CASE Leave
    BY <1>31 DEF Leave, ControlInv, requestVars, responseVars, readVars, uploadVars
  <1>32. CASE Timeout
    <2>1. ConnectionClose("timeout") /\ pc' = "idle" /\ UNCHANGED request
      BY <1>32 DEF Timeout
    <2> QED BY <2>1, CloseFacts DEF ControlInv
  <1>33. CASE UNCHANGED vars
    BY <1>33 DEF vars, ControlInv, requestVars, responseVars
  <1> QED BY <1>1, <1>2, <1>3, <1>4, <1>5, <1>6, <1>7, <1>8, <1>9, <1>10,
         <1>11, <1>12, <1>13, <1>14, <1>15, <1>16, <1>17, <1>18, <1>19, <1>20,
         <1>21, <1>22, <1>23, <1>24, <1>25, <1>26, <1>27, <1>28, <1>29, <1>30,
         <1>31, <1>32, <1>33
          DEF Next, Client, Write, ReceiveHeaders, ReceiveBody, Answer,
              ClosesUnanswered

-----------------------------------------------------------------------------
(* Which steps change what the invariant says of the stream: a quiet step  *)
(* changes none of it, and a step that ends the reading leaves nothing to  *)
(* say.                                                                    *)
Quiet ==
  /\ UNCHANGED <<request, buffer, input, state, upload, chunk, given, body, remaining>>
  /\ (pc' = "after body") = (pc = "after body")

Ends == state' \in Answering \cup {"CLOSED"} /\ request' = request

LEMMA Steps ==
  ASSUME ControlInv, [Next]_vars
  PROVE  \/ Ends \/ Quiet
         \/ Read \/ HeaderLine \/ ParseHeaders \/ FirstCall
         \/ (WriteHeaders /\ state = "CONTINUE_SENDING")
         \/ AfterBody \/ (ChunkLine /\ state' # "CLOSED") \/ BodyCall
  <1>1. CASE ReadEnd
    BY <1>1 DEF ReadEnd, ConnectionClose, Ends
  <1>2. CASE SeeShutdown
    BY <1>2 DEF SeeShutdown, ConnectionClose, Ends
  <1>3. CASE WriteHeaders
    BY <1>3 DEF WriteHeaders, Ends, Answering, Idle, Becomes, ControlInv
  <1>4. CASE RefillBody
    <2>1. state \in Answering /\ UNCHANGED request /\ CallReader
      BY <1>4 DEF RefillBody, Idle, Answering
    <2> QED BY <2>1, ReaderFacts DEF Ends, Answering
  <1>5. CASE SendBody
    BY <1>5 DEF SendBody, Ends, Answering, Idle, Becomes, ControlInv
  <1>6. CASE NoHeaderLine
    BY <1>6 DEF NoHeaderLine, Quiet, readVars, uploadVars, requestVars, Wait
  <1>7. CASE MalformedFirstLine
    BY <1>7 DEF MalformedFirstLine, ConnectionClose, Ends
  <1>8. CASE MalformedHeader
    BY <1>8, MalformedIsAnswered, ErrorFacts DEF MalformedHeader, Ends, Answering
  <1>9. CASE HeaderTooLarge \/ NoMemoryForBody
    BY <1>9, LackIsAnswered, ErrorFacts DEF Ends, Answering
  <1>10. CASE NothingToDo
    BY <1>10 DEF NothingToDo, Quiet, readVars, uploadVars, requestVars, Wait
  <1>11. CASE EnterBody
    BY <1>11 DEF EnterBody, Quiet, readVars, uploadVars, requestVars, Idle
  <1>12. CASE ChunkLine
    <2>1. CASE state' = "CLOSED"
      BY <1>12, <2>1 DEF ChunkLine, Ends
    <2>2. CASE state' # "CLOSED"
      BY <1>12, <2>2
    <2> QED BY <2>1, <2>2
  <1>13. CASE PostCall
    BY <1>13 DEF PostCall, Quiet, readVars, uploadVars, requestVars, InChunk
  <1>14. CASE PostTurn
    BY <1>14 DEF PostTurn, Quiet, readVars, uploadVars, requestVars
  <1>15. CASE ClosesUnanswered
    BY <1>15, ClosingFacts DEF ConnectionClose, Ends
  <1>16. CASE FinalCall
    BY <1>16 DEF FinalCall, Ends, Answering, Idle, Becomes, ControlInv
  <1>17. CASE FinalCallFails
    BY <1>17 DEF FinalCallFails, ConnectionClose, Ends
  <1>18. CASE HeadersSent
    BY <1>18 DEF HeadersSent, Ends, Answering, Idle, Becomes, ControlInv
  <1>19. CASE UnreadyBody
    BY <1>19 DEF UnreadyBody, Ends, Answering, Idle, Becomes, ControlInv
  <1>20. CASE ReadBody
    <2>1. state \in Answering /\ UNCHANGED request /\ CallReader
      BY <1>20 DEF ReadBody, Idle, Answering
    <2> QED BY <2>1, ReaderFacts DEF Ends, Answering
  <1>21. CASE BodySent
    BY <1>21 DEF BodySent, Ends, Answering, Idle, Becomes, ControlInv
  <1>22. CASE FootersSent
    BY <1>22 DEF FootersSent, ConnectionClose, Ends
  <1>23. CASE Closed
    BY <1>23 DEF Closed, Ends, Answering, Idle, Becomes, ControlInv
  <1>24. CASE PollTimesOut
    BY <1>24 DEF PollTimesOut, Quiet, readVars, uploadVars, requestVars
  <1>25. CASE Leave
    BY <1>25 DEF Leave, Quiet, readVars, uploadVars, requestVars
  <1>26. CASE Timeout
    BY <1>26 DEF Timeout, ConnectionClose, Ends
  <1>27. CASE UNCHANGED vars
    BY <1>27 DEF vars, Quiet, readVars, uploadVars, requestVars
  <1> QED BY <1>1, <1>2, <1>3, <1>4, <1>5, <1>6, <1>7, <1>8, <1>9, <1>10,
         <1>11, <1>12, <1>13, <1>14, <1>15, <1>16, <1>17, <1>18, <1>19, <1>20,
         <1>21, <1>22, <1>23, <1>24, <1>25, <1>26, <1>27
          DEF Next, Client, Write, ReceiveHeaders, ReceiveBody, Answer,
              ClosesUnanswered

-----------------------------------------------------------------------------
(* The loop over the body has something to do, and while the post          *)
(* processor works there is a part for it.                                 *)
AtPart == ~(Chunked /\ chunk \in {None, 0})

LoopInv ==
  /\ pc \in {"body", "post"} => buffer # <<>>
  /\ pc = "post" => AtPart

LEMMA LoopStep ==
  ASSUME LoopInv, [Next]_vars
  PROVE  LoopInv'
  <1>1. CASE Read
    BY <1>1 DEF Read, LoopInv
  <1>2. CASE ReadEnd
    BY <1>2 DEF ReadEnd, LoopInv
  <1>3. CASE SeeShutdown
    BY <1>3 DEF SeeShutdown, LoopInv
  <1>4. CASE WriteHeaders
    BY <1>4 DEF WriteHeaders, LoopInv
  <1>5. CASE RefillBody
    BY <1>5 DEF RefillBody, LoopInv
  <1>6. CASE SendBody
    BY <1>6 DEF SendBody, LoopInv
  <1>7. CASE HeaderLine
    BY <1>7 DEF HeaderLine, LoopInv, Becomes
  <1>8. CASE NoHeaderLine
    BY <1>8 DEF NoHeaderLine, LoopInv, Wait
  <1>9. CASE MalformedFirstLine
    BY <1>9 DEF MalformedFirstLine, LoopInv
  <1>10. CASE MalformedHeader
    BY <1>10 DEF MalformedHeader, LoopInv
  <1>11. CASE HeaderTooLarge \/ NoMemoryForBody
    BY <1>11, LackIsAnswered DEF LoopInv
  <1>12. CASE ParseHeaders
    BY <1>12 DEF ParseHeaders, LoopInv, Becomes
  <1>13. CASE FirstCall
    BY <1>13 DEF FirstCall, LoopInv, Becomes
  <1>14. CASE NothingToDo
    BY <1>14 DEF NothingToDo, LoopInv, Wait
  <1>15. CASE EnterBody
    BY <1>15 DEF EnterBody, LoopInv, readVars
  <1>16. CASE AfterBody
    BY <1>16 DEF AfterBody, LoopInv, Becomes, Wait
  <1>17. CASE ChunkLine
    BY <1>17 DEF ChunkLine, LoopInv, Again
  <1>18. CASE BodyCall
    BY <1>18 DEF BodyCall, LoopInv, Again
  <1>19. CASE PostCall
    BY <1>19 DEF PostCall, LoopInv, InChunk, AtPart, Chunked, readVars, uploadVars
  <1>20. CASE PostTurn
    BY <1>20 DEF PostTurn, LoopInv, AtPart, Chunked, readVars, uploadVars
  <1>21. CASE ClosesUnanswered
    BY <1>21, ClosingFacts DEF LoopInv
  <1>22. CASE FinalCall
    BY <1>22 DEF FinalCall, LoopInv
  <1>23. CASE FinalCallFails
    BY <1>23 DEF FinalCallFails, LoopInv
  <1>24. CASE HeadersSent
    BY <1>24 DEF HeadersSent, LoopInv, Becomes
  <1>25. CASE UnreadyBody
    BY <1>25 DEF UnreadyBody, LoopInv, Becomes
  <1>26. CASE ReadBody
    BY <1>26 DEF ReadBody, LoopInv
  <1>27. CASE BodySent
    BY <1>27 DEF BodySent, LoopInv, Becomes
  <1>28. CASE FootersSent
    BY <1>28 DEF FootersSent, LoopInv
  <1>29. CASE Closed
    BY <1>29 DEF Closed, LoopInv
  <1>30. CASE PollTimesOut
    BY <1>30 DEF PollTimesOut, LoopInv
  <1>31. CASE Leave
    BY <1>31 DEF Leave, LoopInv
  <1>32. CASE Timeout
    BY <1>32 DEF Timeout, LoopInv
  <1>33. CASE UNCHANGED vars
    BY <1>33 DEF vars, LoopInv, AtPart, Chunked, readVars, uploadVars
  <1> QED BY <1>1, <1>2, <1>3, <1>4, <1>5, <1>6, <1>7, <1>8, <1>9, <1>10,
         <1>11, <1>12, <1>13, <1>14, <1>15, <1>16, <1>17, <1>18, <1>19, <1>20,
         <1>21, <1>22, <1>23, <1>24, <1>25, <1>26, <1>27, <1>28, <1>29, <1>30,
         <1>31, <1>32, <1>33
          DEF Next, Client, Write, ReceiveHeaders, ReceiveBody, Answer,
              ClosesUnanswered

-----------------------------------------------------------------------------
(* Every step keeps the place in the stream.                               *)

Inv == ControlInv /\ LoopInv /\ ReadInv /\ CountInv

LEMMA InvInit == Init => Inv
  <1> SUFFICES ASSUME Init PROVE Inv
    OBVIOUS
  <1>1. request \in Requests /\ input = Sent(request) /\ buffer = <<>>
        /\ state = "INIT" /\ pc = "poll" /\ given = 0 /\ chunk = None
    BY DEF Init
  <1>2. Unread(request, buffer, input, 0)
    <2>1. Sent(request) \in Seq(Units(request)) /\ Len(Sent(request)) \in Nat
      BY <1>1, SentFacts
    <2>2. SubSeq(Sent(request), 0 + 1, 0) = <<>>
      BY <2>1, SubSeqEmpty
    <2>3. SubSeq(Sent(request), 0 + 1, Len(Sent(request))) = Sent(request)
      BY <2>1, SubSeqFull
    <2>4. 0 \in 0 .. Len(Sent(request))
      BY <2>1
    <2> QED BY <1>1, <2>2, <2>3, <2>4 DEF Unread
  <1>3. AtUnit(request, state, pc, upload, chunk, given, 0)
    BY <1>1 DEF AtUnit
  <1>4. ReadInv
    BY <1>2, <1>3 DEF ReadInv
  <1>5. CountInv /\ LoopInv
    BY <1>1 DEF CountInv, LoopInv, BeforeCall
  <1> QED BY <1>4, <1>5, ControlInit DEF Inv

(* Where the machine is while it is in the body.                           *)
LEMMA AtBody ==
  ASSUME Inv, state = "CONTINUE_SENT"
  PROVE  \E t \in Nat :
           /\ Unread(request, buffer, input, t)
           /\ InBody(request, pc = "after body", upload, chunk, given, t)
  BY DEF Inv, ReadInv, AtUnit, Reading

LEMMA StayAtUnit ==
  ASSUME NEW t \in Nat, Unread(request', buffer', input', t),
         AtUnit(request', state', pc', upload', chunk', given', t)
  PROVE  ReadInv'
  BY DEF ReadInv

LEMMA EnterBodyAt ==
  ASSUME NEW t \in Nat, Unread(request', buffer', input', t),
         state' = "CONTINUE_SENT",
         InBody(request', pc' = "after body", upload', chunk', given', t)
  PROVE  ReadInv' /\ CountInv'
  <1>1. AtUnit(request', state', pc', upload', chunk', given', t)
    BY DEF AtUnit
  <1> QED BY <1>1, StayAtUnit DEF CountInv, BeforeCall

LEMMA ReadStep ==
  ASSUME Inv, Read
  PROVE  ReadInv' /\ CountInv'
  <1>1. PICK n \in 1 .. Len(input) :
           /\ buffer' = buffer \o SubSeq(input, 1, n)
           /\ input' = SubSeq(input, n + 1, Len(input))
    BY DEF Read
  <1>2. /\ pc = "poll" /\ pc' = "idle"
        /\ UNCHANGED <<request, state, upload, chunk, given>>
    BY DEF Read, uploadVars, requestVars
  <1>3. CountInv'
    BY <1>2 DEF Inv, CountInv
  <1>4. CASE state \in BeforeCall \cup Reading
    <2>1. PICK t \in Nat : /\ Unread(request, buffer, input, t)
                           /\ AtUnit(request, state, pc, upload, chunk, given, t)
      BY <1>4 DEF Inv, ReadInv
    <2>2. Unread(request', buffer', input', t)
      <3>1. Unread(request, buffer \o SubSeq(input, 1, n), SubSeq(input, n + 1, Len(input)), t)
        BY <2>1, UnreadRead DEF Inv, ControlInv
      <3> QED BY <1>1, <1>2, <3>1
    <2>3. AtUnit(request', state', pc', upload', chunk', given', t)
      BY <1>2, <2>1 DEF AtUnit
    <2> QED BY <1>3, <2>2, <2>3, StayAtUnit
  <1>5. CASE state \notin BeforeCall \cup Reading
    BY <1>2, <1>3, <1>5 DEF ReadInv
  <1> QED BY <1>4, <1>5

LEMMA HeaderLineStep ==
  ASSUME Inv, HeaderLine
  PROVE  ReadInv' /\ CountInv'
  <1> DEFINE t == LineNumber(request, state) + 1
  <1>1. /\ <<state, state'>> \in LineSteps /\ t \in Nat
        /\ Unread(request, buffer', input', t)
    BY HeaderLineFacts DEF Inv
  <1>2. pc' = "idle" /\ UNCHANGED <<request, upload, chunk, given>>
    BY DEF HeaderLine, Becomes, uploadVars, requestVars
  <1>3. state \in {"BODY_RECEIVED", "FOOTER_PART_RECEIVED"} =>
          given = Len(Upload(request)) /\ request.upload = "chunked"
    BY DEF Inv, CountInv
  <1>4. /\ Len(Upload(request)) \in Nat /\ Len(request.sizes) \in Nat
    BY UploadFacts, BytesUpToFacts DEF Inv, ControlInv
  <1>5. AtUnit(request, state', pc', upload, chunk, given, t)
    BY <1>1, <1>2, <1>3, <1>4 DEF AtUnit, LineSteps, LineNumber, AfterChunks
  <1> HIDE DEF t
  <1>6. ReadInv'
    BY <1>1, <1>2, <1>5, StayAtUnit
  <1>7. CountInv'
    BY <1>1, <1>2, <1>3 DEF Inv, CountInv, LineSteps, BeforeCall
  <1> QED BY <1>6, <1>7

LEMMA ParseHeadersStep ==
  ASSUME Inv, ParseHeaders
  PROVE  ReadInv' /\ CountInv'
  <1>1. /\ state = "HEADERS_RECEIVED" /\ state' = "HEADERS_PROCESSED"
        /\ pc' = "idle" /\ upload' = Announced(request)
        /\ request.upload # "unreadable"
        /\ UNCHANGED <<request, buffer, input, chunk, given>>
    BY DEF ParseHeaders, Idle, Becomes, readVars, requestVars, Announced
  <1>2. PICK t \in Nat : Unread(request, buffer, input, t) /\ t = 3
    BY <1>1 DEF Inv, ReadInv, AtUnit, BeforeCall
  <1>3. Unread(request', buffer', input', t)
    BY <1>1, <1>2
  <1>4. AtUnit(request', state', pc', upload', chunk', given', t)
    BY <1>1, <1>2 DEF AtUnit
  <1>5. CountInv'
    BY <1>1 DEF Inv, CountInv, BeforeCall
  <1> QED BY <1>3, <1>4, <1>5, StayAtUnit

LEMMA FirstCallStep ==
  ASSUME Inv, FirstCall
  PROVE  ReadInv' /\ CountInv'
  <1>1. /\ state = "HEADERS_PROCESSED" /\ given = 0 /\ chunk = None
        /\ upload = Announced(request) /\ request.upload # "unreadable"
        /\ UNCHANGED <<request, buffer, input, upload, chunk, given>>
    BY DEF Inv, CountInv, BeforeCall, FirstCall, Idle, readVars, uploadVars
  <1>2. PICK t \in Nat : Unread(request, buffer, input, t) /\ t = 3
    BY <1>1 DEF Inv, ReadInv, AtUnit, BeforeCall
  <1>3. Unread(request', buffer', input', t)
    BY <1>1, <1>2
  <1>4. CASE request.expect
    <2>1. state' = "CONTINUE_SENDING"
      BY <1>4 DEF FirstCall
    <2>2. AtUnit(request', state', pc', upload', chunk', given', t)
      BY <1>2, <2>1 DEF AtUnit
    <2>3. CountInv'
      BY <1>1, <1>4, <2>1 DEF CountInv, BeforeCall
    <2> QED BY <1>3, <2>2, <2>3, StayAtUnit
  <1>5. CASE ~request.expect /\ upload = 0
    <2>1. state' = "FOOTERS_RECEIVED"
      BY <1>5 DEF FirstCall, Becomes
    <2>2. given = Len(Upload(request))
      <3>1. request.upload = "none" => Upload(request) = <<>>
        BY DEF Upload
      <3>2. SizeUnknown # 0
        BY SizesAssumption
      <3> QED BY <1>1, <1>5, <3>1, <3>2 DEF Announced
    <2> QED BY <1>1, <2>1, <2>2 DEF ReadInv, CountInv, BeforeCall, Reading
  <1>6. CASE ~request.expect /\ upload # 0
    <2>1. state' = "CONTINUE_SENT" /\ pc' = "idle"
      BY <1>6 DEF FirstCall, Becomes
    <2>2. InBody(request, FALSE, upload, chunk, given, t)
      BY <1>1, <1>2, <1>6, InBodyStart DEF Inv, ControlInv
    <2>3. InBody(request', pc' = "after body", upload', chunk', given', t)
      <3>1. (pc' = "after body") = FALSE
        BY <2>1
      <3> QED BY <1>1, <2>2, <3>1
    <2> QED BY <1>3, <2>1, <2>3, EnterBodyAt
  <1> QED BY <1>4, <1>5, <1>6

LEMMA ContinueStep ==
  ASSUME Inv, WriteHeaders, state = "CONTINUE_SENDING"
  PROVE  ReadInv' /\ CountInv'
  <1>1. /\ given = 0 /\ chunk = None /\ request.expect
        /\ upload = Announced(request) /\ request.upload # "unreadable"
        /\ UNCHANGED <<request, buffer, input, upload, chunk, given>>
        /\ state' = "CONTINUE_SENT" /\ pc' = "idle"
    BY DEF Inv, CountInv, WriteHeaders, readVars, uploadVars, requestVars
  <1>2. PICK t \in Nat : Unread(request, buffer, input, t) /\ t = 3
    BY DEF Inv, ReadInv, AtUnit, Reading
  <1>3. InBody(request, FALSE, upload, chunk, given, t)
    BY <1>1, <1>2, InBodyStart DEF Inv, ControlInv
  <1>4. InBody(request', pc' = "after body", upload', chunk', given', t)
    <2>1. (pc' = "after body") = FALSE
      BY <1>1
    <2> QED BY <1>1, <1>3, <2>1
  <1>5. Unread(request', buffer', input', t)
    BY <1>1, <1>2
  <1> QED BY <1>1, <1>4, <1>5, EnterBodyAt

LEMMA AfterBodyStep ==
  ASSUME Inv, AfterBody
  PROVE  ReadInv' /\ CountInv'
  <1>1. /\ state = "CONTINUE_SENT"
        /\ UNCHANGED <<request, buffer, input, upload, chunk, given>>
    BY DEF Inv, ControlInv, AfterBody, BodyIsRead, Idle, readVars, uploadVars, requestVars
  <1>2. PICK t \in Nat :
           /\ Unread(request, buffer, input, t)
           /\ InBody(request, pc = "after body", upload, chunk, given, t)
    BY <1>1, AtBody
  <1>3. Unread(request', buffer', input', t)
    BY <1>1, <1>2
  <1>4. CASE upload = 0
    <2>1. state' = IF request.upload = "chunked" THEN "BODY_RECEIVED"
                   ELSE "FOOTERS_RECEIVED"
      BY <1>4 DEF AfterBody, Becomes
    <2>2. /\ given = Len(Upload(request))
          /\ request.upload = "chunked" => t = AfterChunks(request, given)
      <3> DEFINE ended == pc = "after body"
      <3>1. InBody(request, ended, 0, chunk, given, t)
        BY <1>2, <1>4
      <3>2. request \in Requests
        BY DEF Inv, ControlInv
      <3> HIDE DEF ended
      <3> QED BY <3>1, <3>2, InBodyComplete
    <2>3. CountInv'
      BY <1>1, <2>1, <2>2 DEF CountInv, BeforeCall
    <2>4. AtUnit(request', state', pc', upload', chunk', given', t)
      BY <1>1, <2>1, <2>2 DEF AtUnit
    <2> QED BY <1>3, <2>3, <2>4, StayAtUnit
  <1>5. CASE upload # 0
    <2>1. state' = "CONTINUE_SENT"
      BY <1>1, <1>5 DEF AfterBody, Wait
    <2>2. InBody(request, pc' = "after body", upload, chunk, given, t)
      BY <1>2, <1>5, InBodyGoesOn
    <2> QED BY <1>1, <1>3, <2>1, <2>2, EnterBodyAt
  <1> QED BY <1>4, <1>5

LEMMA ChunkLineStep ==
  ASSUME Inv, ChunkLine, state' # "CLOSED"
  PROVE  ReadInv' /\ CountInv'
  <1>1. /\ pc = "body" /\ request.upload = "chunked" /\ chunk \in {None, 0}
        /\ buffer' = Tail(buffer) /\ input' = input
        /\ UNCHANGED <<request, given>>
    BY DEF ChunkLine, Chunked, TakeUnit
  <1>2. /\ state = "CONTINUE_SENT" /\ buffer # <<>> /\ request \in Requests
        /\ (pc = "after body") = FALSE
    BY <1>1 DEF Inv, ControlInv, LoopInv
  <1>3. /\ Head(buffer)[1] = (IF chunk = None THEN "size" ELSE "newline")
        /\ chunk' = IF chunk = None THEN Head(buffer)[2] ELSE None
        /\ upload' = IF Head(buffer) = <<"size", 0>> THEN 0 ELSE upload
        /\ upload' = 0 => pc' = "after body"
        /\ UNCHANGED state
    BY DEF ChunkLine, ConnectionClose
  <1>4. PICK t \in Nat :
           /\ Unread(request, buffer, input, t)
           /\ InBody(request, FALSE, upload, chunk, given, t)
    BY <1>2, AtBody
  <1>5. InBody(request, upload' = 0 \/ pc' = "after body", upload', chunk', given, t + 1)
    BY <1>1, <1>2, <1>3, <1>4, InBodyLine
  <1>6. (upload' = 0 \/ pc' = "after body") = (pc' = "after body")
    BY <1>3
  <1>7. InBody(request', pc' = "after body", upload', chunk', given', t + 1)
    BY <1>1, <1>5, <1>6
  <1>8. Unread(request', buffer', input', t + 1) /\ t + 1 \in Nat
    <2>1. Unread(request, Tail(buffer), input, t + 1)
      BY <1>2, <1>4, UnreadTail
    <2> QED BY <1>1, <2>1
  <1> QED BY <1>2, <1>3, <1>7, <1>8, EnterBodyAt

(* A part of the body is given to the application.                         *)
LEMMA PartFollows ==
  ASSUME Inv, BodyCall
  PROVE  \E t \in Nat :
           /\ Unread(request', buffer', input', t)
           /\ InBody(request', pc' = "after body", upload', chunk', given', t)
           /\ Available \in 1 .. Len(buffer) /\ given \in Nat
           /\ given' = given + Available
           /\ \/ /\ given' <= Len(Upload(request))
                 /\ \A j \in 1 .. Available : buffer[j] = Upload(request)[given + j]
              \/ /\ request.upload = "length" /\ request.expect
                 /\ Upload(request) = <<>>
  <1> DEFINE n == Available
  <1>1. /\ pc \in {"body", "post"} /\ AtPart
    BY DEF BodyCall, InChunk, AtPart, Inv, LoopInv
  <1>2. /\ buffer # <<>> /\ state = "CONTINUE_SENT" /\ request \in Requests
        /\ (pc = "after body") = FALSE
    BY <1>1 DEF Inv, LoopInv, ControlInv
  <1>3. /\ buffer' = SubSeq(buffer, n + 1, Len(buffer)) /\ given' = given + n
        /\ chunk' = IF request.upload = "chunked" THEN chunk - n ELSE chunk
        /\ upload' = Left(upload, n)
        /\ request.upload # "chunked" => pc' = "after body"
        /\ UNCHANGED <<request, input, state>>
    BY DEF BodyCall, Chunked, Left
  <1>4. n = Takes(request, upload, chunk, Len(buffer))
    BY DEF Available, Takes, Chunked
  <1>5. PICK t \in Nat :
           /\ Unread(request, buffer, input, t)
           /\ InBody(request, FALSE, upload, chunk, given, t)
    BY <1>2, AtBody
  <1>6. request.upload = "chunked" => chunk \notin {None, 0}
    BY <1>1 DEF AtPart, Chunked
  <1> HIDE DEF n
  <1>7. /\ n \in 1 .. Len(buffer)
        /\ InBody(request, pc' = "after body", Left(upload, n),
                  IF request.upload = "chunked" THEN chunk - n ELSE chunk,
                  given + n, t + n)
        /\ given \in Nat
        /\ \/ /\ given + n <= Len(Upload(request))
              /\ \A j \in 1 .. n : buffer[j] = Upload(request)[given + j]
           \/ request.upload = "length" /\ request.expect /\ Upload(request) = <<>>
    <2> DEFINE m == Takes(request, upload, chunk, Len(buffer))
               ch == IF request.upload = "chunked" THEN chunk - m ELSE chunk
    <2>1. /\ m \in 1 .. Len(buffer)
          /\ InBody(request, request.upload # "chunked", Left(upload, m), ch,
                    given + m, t + m)
          /\ given \in Nat
          /\ \/ /\ given + m <= Len(Upload(request))
                /\ \A j \in 1 .. m : buffer[j] = Upload(request)[given + j]
             \/ request.upload = "length" /\ request.expect /\ Upload(request) = <<>>
      <3>1. PartTaken(request, buffer, upload, chunk, given, t, m)
        BY <1>2, <1>5, <1>6, InBodyPart
      <3> HIDE DEF m
      <3> QED BY <3>1 DEF PartTaken
    <2>2. n = m
      BY <1>4
    <2> HIDE DEF m
    <2>3. InBody(request, pc' = "after body", Left(upload, m), ch, given + m, t + m)
      <3> HIDE DEF ch
      <3> QED BY <1>3, <2>1 DEF InBody, InPlainBody
    <2> QED BY <2>1, <2>2, <2>3, Zenon
  <1>8. InBody(request', pc' = "after body", upload', chunk', given', t + n)
    BY <1>3, <1>7
  <1>9. Unread(request', buffer', input', t + n) /\ t + n \in Nat
    <2>1. Len(buffer) \in Nat
      BY <1>2, <1>5, UnreadFacts
    <2>2. n \in 0 .. Len(buffer) /\ t + n \in Nat
      <3>1. n \in 1 .. Len(buffer)
        BY <1>7
      <3> QED BY <2>1, <3>1
    <2>3. Unread(request, SubSeq(buffer, n + 1, Len(buffer)), input, t + n)
      BY <1>2, <1>5, <2>2, UnreadTake
    <2> QED BY <1>3, <2>2, <2>3
  <1>10. \/ /\ given' <= Len(Upload(request))
            /\ \A j \in 1 .. n : buffer[j] = Upload(request)[given + j]
         \/ request.upload = "length" /\ request.expect /\ Upload(request) = <<>>
    BY <1>3, <1>7
  <1> QED BY <1>3, <1>7, <1>8, <1>9, <1>10 DEF n

LEMMA BodyCallStep ==
  ASSUME Inv, BodyCall
  PROVE  ReadInv' /\ CountInv'
  <1>1. state' = "CONTINUE_SENT"
    BY DEF BodyCall, InChunk, Inv, ControlInv
  <1> QED BY <1>1, PartFollows, EnterBodyAt

LEMMA InvStep ==
  ASSUME Inv, [Next]_vars
  PROVE  Inv'
  <1>1. ControlInv' /\ LoopInv'
    BY ControlStep, LoopStep DEF Inv
  <1>2. CASE Quiet
    <2>1. CountInv'
      BY <1>2 DEF Quiet, Inv, CountInv
    <2>2. CASE state \in BeforeCall \cup Reading
      <3>1. PICK t \in Nat : /\ Unread(request, buffer, input, t)
                             /\ AtUnit(request, state, pc, upload, chunk, given, t)
        BY <2>2 DEF Inv, ReadInv
      <3>2. /\ Unread(request', buffer', input', t)
            /\ AtUnit(request', state', pc', upload', chunk', given', t)
        BY <1>2, <3>1 DEF Quiet, AtUnit
      <3> QED BY <1>1, <2>1, <3>2, StayAtUnit DEF Inv
    <2>3. CASE state \notin BeforeCall \cup Reading
      BY <1>1, <1>2, <2>1, <2>3 DEF Inv, ReadInv, Quiet
    <2> QED BY <2>2, <2>3
  <1>3. CASE Ends
    BY <1>1, <1>3 DEF Ends, Inv, ReadInv, CountInv, BeforeCall, Reading, Answering
  <1>4. CASE ~Ends /\ ~Quiet
    BY <1>1, <1>4, Steps, ReadStep, HeaderLineStep, ParseHeadersStep,
       FirstCallStep, ContinueStep, AfterBodyStep, ChunkLineStep, BodyCallStep
       DEF Inv
  <1> QED BY <1>2, <1>3, <1>4

-----------------------------------------------------------------------------
(* What is kept of the upload.                                             *)

LEMMA WholeIsPrefix ==
  ASSUME NEW r \in Requests
  PROVE  /\ SubSeq(Upload(r), 1, Len(Upload(r))) = Upload(r)
         /\ SubSeq(Upload(r), 1, 0) = <<>>
  <1>1. Upload(r) \in Seq(Units(r))
    BY UploadFacts
  <1> QED BY <1>1, SubSeqFull, SubSeqEmpty

LEMMA NextOfUpload ==
  ASSUME NEW r \in Requests, NEW gv \in Nat, NEW S, NEW buf \in Seq(S),
         NEW n \in 1 .. Len(buf), gv + n <= Len(Upload(r)),
         \A j \in 1 .. n : buf[j] = Upload(r)[gv + j]
  PROVE  SubSeq(Upload(r), 1, gv) \o SubSeq(buf, 1, n) = SubSeq(Upload(r), 1, gv + n)
  <1> DEFINE U == Upload(r)
             T == Units(r)
             g == gv + n
  <1>1. U \in Seq(T) /\ Len(U) \in Nat
    BY UploadFacts
  <1>2. Len(buf) \in Nat /\ n \in Nat /\ n >= 1 /\ n <= Len(buf) /\ \A j \in 1 .. Len(buf) : buf[j] \in S
    OBVIOUS
  <1> HIDE DEF U, T
  <1>3. g \in Nat /\ gv + 1 <= g /\ g <= Len(U) /\ g - (gv + 1) + 1 = n
    BY <1>1, <1>2 DEF U
  <1>4. \A j \in 1 .. Len(U) : U[j] \in T
    BY <1>1
  <1>5. /\ SubSeq(buf, 1, n) \in Seq(S) /\ Len(SubSeq(buf, 1, n)) = n
        /\ \A j \in 1 .. n : SubSeq(buf, 1, n)[j] = buf[j]
    <2>1. \A j \in 1 .. n : buf[j] \in S
      BY <1>2
    <2>2. /\ SubSeq(buf, 1, n) \in Seq(S)
          /\ Len(SubSeq(buf, 1, n)) = IF 1 <= n THEN n - 1 + 1 ELSE 0
          /\ \A j \in 1 .. n - 1 + 1 : SubSeq(buf, 1, n)[j] = buf[1 + j - 1]
      <3>1. 1 \in Int /\ n \in Int
        BY <1>2
      <3> QED BY <2>1, <3>1, SubSeqProperties
    <2>3. (IF 1 <= n THEN n - 1 + 1 ELSE 0) = n /\ n - 1 + 1 = n
          /\ \A j \in 1 .. n : 1 + j - 1 = j
      BY <1>2
    <2> QED BY <2>2, <2>3
  <1>6. /\ SubSeq(U, gv + 1, g) \in Seq(T) /\ Len(SubSeq(U, gv + 1, g)) = n
        /\ \A j \in 1 .. n : SubSeq(U, gv + 1, g)[j] = U[gv + j]
    <2>1. \A j \in gv + 1 .. g : U[j] \in T
      <3>1. \A j \in gv + 1 .. g : j \in 1 .. Len(U)
        BY <1>1, <1>3
      <3> QED BY <1>4, <3>1
    <2>2. /\ SubSeq(U, gv + 1, g) \in Seq(T)
          /\ Len(SubSeq(U, gv + 1, g)) = IF gv + 1 <= g THEN g - (gv + 1) + 1 ELSE 0
          /\ \A j \in 1 .. g - (gv + 1) + 1 :
               SubSeq(U, gv + 1, g)[j] = U[gv + 1 + j - 1]
      <3>1. gv + 1 \in Int /\ g \in Int
        BY <1>3
      <3> QED BY <2>1, <3>1, SubSeqProperties
    <2>3. \A j \in 1 .. n : gv + 1 + j - 1 = gv + j
      BY <1>2
    <2> QED BY <1>3, <2>2, <2>3
  <1>7. SubSeq(buf, 1, n) = SubSeq(U, gv + 1, g)
    <2>1. \A j \in 1 .. n : SubSeq(buf, 1, n)[j] = SubSeq(U, gv + 1, g)[j]
      BY <1>5, <1>6 DEF U
    <2> DEFINE p == SubSeq(buf, 1, n)
               q == SubSeq(U, gv + 1, g)
    <2>2. p \in Seq(S) /\ q \in Seq(T) /\ Len(p) = n /\ Len(q) = n
          /\ \A j \in 1 .. n : p[j] = q[j]
      BY <1>5, <1>6, <2>1
    <2> HIDE DEF p, q
    <2>3. p \in Seq(S \cup T) /\ q \in Seq(S \cup T)
      BY <2>2, SeqMonotonic
    <2>4. p = q
      BY <2>2, <2>3, SeqEqual
    <2> QED BY <2>4 DEF p, q
  <1>8. SubSeq(U, 1, gv) \o SubSeq(U, gv + 1, g) = SubSeq(U, 1, g)
    <2>1. 1 \in 1 .. Len(U) + 1 /\ gv \in 1 - 1 .. Len(U) /\ g \in gv .. Len(U)
      BY <1>1, <1>2, <1>3
    <2> HIDE DEF g
    <2> QED BY <1>1, <2>1, ConcatAdjacentSubSeq
  <1> QED BY <1>7, <1>8 DEF U

LEMMA KeptStep ==
  ASSUME Inv, KeptInv, [Next]_vars
  PROVE  KeptInv'
  <1>1. request \in Requests /\ request.limit \in Nat /\ Len(Upload(request)) \in Nat
        /\ request.limit + 1 < UnsignedRange /\ UnsignedRange \in Nat
    BY UploadFacts, SizesAssumption DEF Inv, ControlInv
  <1>2. CASE Quiet
    BY <1>2 DEF Quiet, KeptInv
  <1>3. CASE Ends
    BY <1>3 DEF Ends, KeptInv, BeforeCall, Reading, Answering
  <1>4. CASE Read
    BY <1>4 DEF Read, KeptInv, requestVars
  <1>5. CASE HeaderLine
    <2>1. <<state, state'>> \in LineSteps
      BY <1>5, HeaderLineFacts DEF Inv
    <2>2. UNCHANGED <<request, given, body, remaining>>
      BY <1>5 DEF HeaderLine, requestVars
    <2> QED BY <2>1, <2>2 DEF KeptInv, LineSteps, BeforeCall, Reading
  <1>6. CASE ParseHeaders
    BY <1>6 DEF ParseHeaders, Idle, Becomes, KeptInv, requestVars, BeforeCall, Reading
  <1>7. CASE FirstCall
    <2>1. /\ body' = <<>> /\ given' = 0 /\ remaining' = Allowance
          /\ UNCHANGED request /\ state' \notin BeforeCall
      BY <1>7 DEF FirstCall, Idle, Becomes, Inv, CountInv, KeptInv, BeforeCall
    <2>2. remaining' = request.limit + 1
      <3>1. \A n, range \in Nat : n + 1 < range => (n + 1) % range = n + 1
        OBVIOUS
      <3>2. Allowance = request.limit + 1
        BY <1>1, <3>1 DEF Allowance, MaxBody
      <3> QED BY <2>1, <3>2
    <2>3. body' = SubSeq(Upload(request), 1, 0)
      BY <1>1, <2>1, WholeIsPrefix
    <2>4. Kept(request, body', remaining', 0)
      BY <1>1, <2>2, <2>3 DEF Kept
    <2> QED BY <2>1, <2>4 DEF KeptInv
  <1>8. CASE WriteHeaders /\ state = "CONTINUE_SENDING"
    BY <1>8 DEF WriteHeaders, KeptInv, requestVars, BeforeCall, Reading
  <1>9. CASE AfterBody
    <2>1. state = "CONTINUE_SENT"
      BY <1>9 DEF AfterBody, BodyIsRead, Idle, Inv, ControlInv
    <2> QED BY <1>9, <2>1 DEF AfterBody, Becomes, Wait, KeptInv, requestVars,
                              BeforeCall, Reading
  <1>10. CASE ChunkLine /\ state' # "CLOSED"
    BY <1>10 DEF ChunkLine, ConnectionClose, KeptInv
  <1>11. CASE BodyCall
    <2> DEFINE n == Available
               r == request
               U == Upload(request)
    <2>1. /\ state = "CONTINUE_SENT" /\ UNCHANGED <<request, state>>
          /\ ProcessRequestBody(n)
      BY <1>11 DEF BodyCall, InChunk, Inv, ControlInv
    <2>2. PICK t \in Nat : Unread(r, buffer, input, t)
      BY <2>1, AtBody
    <2>3. buffer \in Seq(Units(r)) /\ Len(buffer) \in Nat
      BY <1>1, <2>2, UnreadFacts
    <2>4. /\ n \in 1 .. Len(buffer) /\ given \in Nat /\ given' = given + n
          /\ \/ /\ given' <= Len(U)
                /\ \A j \in 1 .. n : buffer[j] = U[given + j]
             \/ U = <<>>
      BY <1>11, PartFollows
    <2> HIDE DEF n
    <2>5. n \in Nat /\ n >= 1
      BY <2>3, <2>4
    <2>6. SUFFICES ASSUME given' <= Len(U)
                   PROVE  Kept(r, body', remaining', given')
      BY <2>1 DEF KeptInv, BeforeCall
    <2>7. U # <<>>
      <3>1. Len(U) # 0
        BY <1>1, <2>4, <2>5, <2>6
      <3> QED BY <3>1
    <2>8. Kept(r, body, remaining, given)
      <3>1. given <= Len(U)
        BY <1>1, <2>4, <2>5, <2>6
      <3> QED BY <2>1, <3>1 DEF KeptInv, Reading
    <2>9. SubSeq(U, 1, given) \o SubSeq(buffer, 1, n) = SubSeq(U, 1, given + n)
      <3>1. given + n <= Len(U) /\ \A j \in 1 .. n : buffer[j] = U[given + j]
        BY <2>4, <2>6, <2>7
      <3> QED BY <1>1, <2>3, <2>4, <3>1, NextOfUpload
    <2> HIDE DEF U
    <2>10. CASE r.limit = 0
      <3>1. body' = body \o SubSeq(buffer, 1, n)
        BY <2>1, <2>10 DEF ProcessRequestBody, Fits, MaxBody
      <3>2. body = SubSeq(U, 1, given)
        BY <2>8, <2>10 DEF Kept, U
      <3> QED BY <2>4, <2>9, <2>10, <3>1, <3>2 DEF Kept, U
    <2>11. CASE r.limit # 0 /\ remaining > n
      <3>1. body' = body \o SubSeq(buffer, 1, n) /\ remaining' = remaining - n
        BY <2>1, <2>11 DEF ProcessRequestBody, Fits, MaxBody
      <3>2. body = SubSeq(U, 1, given) /\ remaining = r.limit + 1 - given
        <4>1. remaining # 0
          BY <2>5, <2>11
        <4> QED BY <2>8, <2>11, <4>1 DEF Kept, U
      <3>3. body' = SubSeq(U, 1, given')
        BY <2>4, <2>9, <3>1, <3>2
      <3>4. remaining' = r.limit + 1 - given' /\ remaining' > 0
        BY <1>1, <2>4, <2>5, <2>11, <3>1, <3>2
      <3> QED BY <2>11, <3>3, <3>4 DEF Kept, U
    <2>12. CASE r.limit # 0 /\ ~(remaining > n)
      <3>1. remaining' = 0
        BY <2>1, <2>12 DEF ProcessRequestBody, Fits, MaxBody
      <3>2. \/ remaining = r.limit + 1 - given \/ given > r.limit
        BY <2>8, <2>12 DEF Kept
      <3>3. given' > r.limit
        BY <1>1, <2>4, <2>5, <2>12, <3>2
      <3> QED BY <2>12, <3>1, <3>3 DEF Kept
    <2> QED BY <2>10, <2>11, <2>12
  <1> QED BY <1>2, <1>3, <1>4, <1>5, <1>6, <1>7, <1>8, <1>9, <1>10, <1>11, Steps
          DEF Inv

-----------------------------------------------------------------------------
(* What the service sees and what is refused.                              *)

LEMMA CompleteUpload ==
  ASSUME Inv, KeptInv, state = "FOOTERS_RECEIVED"
  PROVE  /\ TooLarge <=> MaxBody # 0 /\ Len(Upload(request)) > MaxBody
         /\ ~TooLarge => /\ body = Upload(request)
                         /\ MaxBody = 0 \/ Len(Upload(request)) <= MaxBody
  <1> DEFINE U == Upload(request)
  <1>1. request \in Requests /\ request.limit \in Nat /\ Len(U) \in Nat
    BY UploadFacts, SizesAssumption DEF Inv, ControlInv
  <1>2. given = Len(U)
    BY DEF Inv, CountInv
  <1>3. Kept(request, body, remaining, Len(U))
    BY <1>1, <1>2 DEF KeptInv
  <1>4. SubSeq(U, 1, Len(U)) = U
    BY <1>1, WholeIsPrefix
  <1> QED BY <1>1, <1>3, <1>4 DEF Kept, TooLarge, MaxBody

LEMMA ClosingKeepsResponse ==
  ASSUME NEW r, r \in Responses, NEW n
  PROVE  [r EXCEPT !.size = n].code = r.code /\ [r EXCEPT !.size = n].kind = r.kind
  BY DEF Responses

LEMMA ReaderKeepsCode ==
  ASSUME Inv, state \in Answering, CallReader
  PROVE  /\ response'.code = response.code /\ response'.kind = response.kind
         /\ response # None
  <1>1. response \in Responses /\ response # None
    BY NoneAssumption DEF Inv, ControlInv, Responses
  <1>2. \/ response' = [response EXCEPT !.size = position]
        \/ response' = response
    BY DEF CallReader
  <1> QED BY <1>1, <1>2, ClosingKeepsResponse

(* The service has seen nothing before the last call.                      *)
SeenInv ==
  state \in BeforeCall \cup Reading \cup {"FOOTERS_RECEIVED"} => seen = None

LEMMA SeenStays ==
  ASSUME [Next]_vars
  PROVE  UNCHANGED seen \/ state' \in {"HEADERS_SENDING", "CLOSED"}
  <1> USE DEF requestVars
  <1>1. CASE Client
    BY <1>1 DEF Client, Read, ReadEnd, SeeShutdown
  <1>2. CASE Write
    BY <1>2 DEF Write, WriteHeaders, RefillBody, SendBody
  <1>3. CASE ReceiveHeaders /\ ~ClosesUnanswered /\ ~HeaderTooLarge
    BY <1>3 DEF ReceiveHeaders, HeaderLine, NoHeaderLine, MalformedFirstLine,
                MalformedHeader, ParseHeaders, FirstCall, NothingToDo,
                ClosesUnanswered
  <1>4. CASE ReceiveBody /\ ~ClosesUnanswered /\ ~NoMemoryForBody
    BY <1>4 DEF ReceiveBody, EnterBody, AfterBody, ChunkLine, BodyCall, PostCall,
                PostTurn, ClosesUnanswered
  <1>5. CASE ClosesUnanswered
    BY <1>5, ClosingFacts
  <1>6. CASE HeaderTooLarge \/ NoMemoryForBody
    BY <1>6, LackIsAnswered
  <1>7. CASE FinalCall \/ FinalCallFails
    BY <1>7 DEF FinalCall, FinalCallFails, ConnectionClose
  <1>8. CASE HeadersSent \/ UnreadyBody \/ ReadBody \/ BodySent \/ FootersSent
             \/ Closed
    BY <1>8 DEF HeadersSent, UnreadyBody, ReadBody, BodySent, FootersSent, Closed
  <1>9. CASE PollTimesOut \/ Leave \/ Timeout
    BY <1>9 DEF PollTimesOut, Leave, Timeout
  <1>10. CASE UNCHANGED vars
    BY <1>10 DEF vars
  <1> QED BY <1>1, <1>2, <1>3, <1>4, <1>5, <1>6, <1>7, <1>8, <1>9, <1>10
          DEF Next, Answer

LEMMA SeenStep ==
  ASSUME ControlInv, SeenInv, [Next]_vars
  PROVE  SeenInv'
  <1> USE DEF BeforeCall, Reading, Answering
  <1>1. SUFFICES ASSUME state' \in BeforeCall \cup Reading \cup {"FOOTERS_RECEIVED"}
                 PROVE  seen' = None
    BY DEF SeenInv
  <1>2. UNCHANGED seen
    BY <1>1, SeenStays
  <1>3. state \in BeforeCall \cup Reading \cup {"FOOTERS_RECEIVED"}
    <2>1. CASE Ends
      BY <1>1, <2>1 DEF Ends
    <2>2. CASE Quiet
      BY <1>1, <2>2 DEF Quiet
    <2>3. CASE Read
      BY <1>1, <2>3 DEF Read
    <2>4. CASE HeaderLine
      BY <2>4 DEF HeaderLine, HeaderStates, FooterStates
    <2>5. CASE ParseHeaders \/ FirstCall
      BY <2>5 DEF ParseHeaders, FirstCall, Idle
    <2>6. CASE state = "CONTINUE_SENDING"
      BY <2>6
    <2>7. CASE AfterBody
      BY <2>7 DEF AfterBody, BodyIsRead, Idle, ControlInv
    <2>8. CASE ChunkLine
      BY <2>8 DEF ChunkLine, ControlInv
    <2>9. CASE BodyCall
      BY <2>9 DEF BodyCall, InChunk, ControlInv
    <2> QED BY <2>1, <2>2, <2>3, <2>4, <2>5, <2>6, <2>7, <2>8, <2>9, Steps
  <1> QED BY <1>2, <1>3 DEF SeenInv

LEMMA WholeBodyStep ==
  ASSUME Inv, KeptInv, SeenInv, WholeBodyOrTooLarge, [Next]_vars
  PROVE  WholeBodyOrTooLarge'
  <1> USE DEF WholeBodyOrTooLarge, RefusedAsTooLarge, MaxBody
  <1>1. CASE Read
    BY <1>1 DEF Read, requestVars, responseVars
  <1>2. CASE ReadEnd
    BY <1>2 DEF ReadEnd, requestVars, responseVars
  <1>3. CASE SeeShutdown
    BY <1>3 DEF SeeShutdown, requestVars, responseVars
  <1>4. CASE WriteHeaders
    BY <1>4 DEF WriteHeaders, requestVars, responseVars
  <1>5. CASE RefillBody
    <2>1. state \in Answering /\ UNCHANGED <<request, seen>> /\ CallReader
      BY <1>5 DEF RefillBody, Idle, Answering
    <2> QED BY <2>1, ReaderKeepsCode
  <1>6. CASE SendBody
    BY <1>6 DEF SendBody, requestVars, responseVars
  <1>7. CASE HeaderLine
    BY <1>7 DEF HeaderLine, requestVars, responseVars
  <1>8. CASE NoHeaderLine
    BY <1>8 DEF NoHeaderLine, requestVars, responseVars
  <1>9. CASE MalformedFirstLine
    BY <1>9 DEF MalformedFirstLine, requestVars, responseVars
  <1>10. CASE MalformedHeader
    <2>1. AnswersError /\ UNCHANGED <<request, seen>>
      BY <1>10, MalformedIsAnswered DEF MalformedHeader
    <2>2. seen = None
      BY <1>10 DEF MalformedHeader, HeaderStates, FooterStates, BeforeCall,
                   Reading, SeenInv
    <2> QED BY <2>1, <2>2, ErrorFacts
  <1>11. CASE HeaderTooLarge \/ NoMemoryForBody
    <2>1. AnswersError /\ UNCHANGED <<request, seen>>
      BY <1>11, LackIsAnswered DEF requestVars
    <2>2. seen = None
      BY <1>11, LackStates DEF Inv, SeenInv
    <2> QED BY <2>1, <2>2, ErrorFacts
  <1>12. CASE ParseHeaders
    BY <1>12 DEF ParseHeaders, requestVars, responseVars
  <1>13. CASE FirstCall
    BY <1>13 DEF FirstCall, requestVars, responseVars
  <1>14. CASE NothingToDo
    BY <1>14 DEF NothingToDo, requestVars, responseVars
  <1>15. CASE EnterBody
    BY <1>15 DEF EnterBody, requestVars, responseVars
  <1>16. CASE AfterBody
    BY <1>16 DEF AfterBody, requestVars, responseVars
  <1>17. CASE ChunkLine
    BY <1>17 DEF ChunkLine, requestVars, responseVars
  <1>18. CASE BodyCall
    BY <1>18 DEF BodyCall, requestVars, responseVars
  <1>19. CASE PostCall
    BY <1>19 DEF PostCall, requestVars, responseVars
  <1>20. CASE PostTurn
    BY <1>20 DEF PostTurn, requestVars, responseVars
  <1>21. CASE ClosesUnanswered
    BY <1>21, ClosingFacts DEF responseVars
  <1>22. CASE FinalCall
    <2>1. state = "FOOTERS_RECEIVED" /\ UNCHANGED request
      BY <1>22 DEF FinalCall, Idle
    <2>2. CASE Refuse
      <3>1. /\ response'.code = Verdict /\ response'.kind = "buffer"
            /\ UNCHANGED seen
        BY <2>2 DEF Refuse, QueueResponse
      <3>2. Verdict = 413 => TooLarge
        BY DEF Verdict
      <3> QED BY <2>1, <3>1, <3>2, CompleteUpload
    <2>3. CASE ServiceHandle
      <3>1. /\ response'.code = 200 /\ response'.kind # "error"
            /\ seen'.body = body /\ Verdict = 200
        BY <2>3 DEF ServiceHandle, QueueResponse
      <3>2. Verdict = 200 => ~TooLarge
        BY DEF Verdict
      <3> QED BY <2>1, <3>1, <3>2, CompleteUpload
    <2> QED BY <1>22, <2>2, <2>3 DEF FinalCall
  <1>23. CASE FinalCallFails
    <2>1. state = "FOOTERS_RECEIVED" /\ UNCHANGED <<request, response>>
      BY <1>23 DEF FinalCallFails, Idle, responseVars
    <2>0. response = None
      BY <2>1 DEF Inv, ControlInv
    <2>2. CASE UNCHANGED seen
      BY <2>1, <2>2
    <2>3. CASE Verdict = 200 /\ seen' = [body |-> body, params |-> FinalParams]
      <3>1. Verdict = 200 => ~TooLarge
        BY DEF Verdict
      <3>2. seen'.body = body
        BY <2>3
      <3> QED BY <2>0, <2>1, <2>3, <3>1, <3>2, CompleteUpload
    <2> QED BY <1>23, <2>2, <2>3 DEF FinalCallFails
  <1>24. CASE HeadersSent
    BY <1>24 DEF HeadersSent, requestVars, responseVars
  <1>25. CASE UnreadyBody
    BY <1>25 DEF UnreadyBody, requestVars, responseVars
  <1>26. CASE ReadBody
    <2>1. state \in Answering /\ UNCHANGED <<request, seen>> /\ CallReader
      BY <1>26 DEF ReadBody, Idle, Answering
    <2> QED BY <2>1, ReaderKeepsCode
  <1>27. CASE BodySent
    BY <1>27 DEF BodySent, requestVars, responseVars
  <1>28. CASE FootersSent
    BY <1>28 DEF FootersSent, requestVars
  <1>29. CASE Closed
    BY <1>29 DEF Closed, requestVars
  <1>30. CASE PollTimesOut
    BY <1>30 DEF PollTimesOut, requestVars, responseVars
  <1>31. CASE Leave
    BY <1>31 DEF Leave, requestVars, responseVars
  <1>32. CASE Timeout
    BY <1>32 DEF Timeout, requestVars, responseVars
  <1>33. CASE UNCHANGED vars
    BY <1>33 DEF vars, requestVars, responseVars
  <1> QED BY <1>1, <1>2, <1>3, <1>4, <1>5, <1>6, <1>7, <1>8, <1>9, <1>10,
         <1>11, <1>12, <1>13, <1>14, <1>15, <1>16, <1>17, <1>18, <1>19, <1>20,
         <1>21, <1>22, <1>23, <1>24, <1>25, <1>26, <1>27, <1>28, <1>29, <1>30,
         <1>31, <1>32, <1>33
          DEF Next, Client, Write, ReceiveHeaders, ReceiveBody, Answer,
              ClosesUnanswered

-----------------------------------------------------------------------------
(* At every moment of a connection the state of libmicrohttpd tells which  *)
(* unit of the stream comes next, how much of the upload was handed over   *)
(* and whether the application holds a request (connection.cpp:2300-2600). *)
THEOREM InvHolds == Spec => []Inv
  <1>1. Inv /\ [Next]_vars => Inv'
    BY InvStep
  <1> QED BY <1>1, InvInit, PTL DEF Spec

LEMMA InvLivesWhileUsed == Inv => RequestLivesWhileUsed
  <1> SUFFICES ASSUME Inv PROVE RequestLivesWhileUsed
    OBVIOUS
  <1> QED BY NoneAssumption DEF Inv, ControlInv, RequestLivesWhileUsed, Idle,
                                Reading, Answering

(* The request of the application lives as long as it is used and is       *)
(* deleted when the connection ends, for every client, every generator and *)
(* whatever fails (rest_server.cpp:506, con_cls dangles after).            *)
THEOREM RequestAlwaysLivesWhileUsed == Spec => []RequestLivesWhileUsed
  BY InvHolds, InvLivesWhileUsed, PTL

LEMMA KeptInit == Init => KeptInv /\ SeenInv /\ WholeBodyOrTooLarge
  BY DEF Init, KeptInv, SeenInv, WholeBodyOrTooLarge, RefusedAsTooLarge,
         BeforeCall, Reading

(* However long the upload is, however it arrives and in whatever chunks,  *)
(* the service sees all of it and nothing else, and it is refused as too   *)
(* large exactly when it is longer than the limit (rest_server.cpp:180); a *)
(* request that the library answers with an error of its own, be it 413    *)
(* for its headers, is never seen by the service (connection.cpp:925).     *)
THEOREM WholeBodyOrAlwaysTooLarge == Spec => []WholeBodyOrTooLarge
  <1>1. /\ Inv /\ KeptInv /\ SeenInv /\ WholeBodyOrTooLarge /\ [Next]_vars
        => KeptInv' /\ SeenInv' /\ WholeBodyOrTooLarge'
    BY KeptStep, SeenStep, WholeBodyStep DEF Inv
  <1> QED BY <1>1, InvHolds, KeptInit, PTL DEF Spec

-----------------------------------------------------------------------------
(* The handler does what libmicrohttpd promises to its application.  A     *)
(* request that announces an empty upload, waits for "100 continue" and    *)
(* sends something nevertheless is the exception: what it sends is taken   *)
(* for its upload.                                                         *)
NoneOverruns ==
  \A r \in Requests : ~(r.upload = "length" /\ r.expect /\ Upload(r) = <<>>)

Promised == <<Upload(request), Life, given>>

LEMMA ContractInit == Init => Contract!Init
  BY NoneAssumption DEF Init, Contract!Init, Life

LEMMA LifeStays ==
  ASSUME UNCHANGED <<request, given, context>>,
         context = "request" => response' = response
  PROVE  UNCHANGED Promised
  BY DEF Promised, Life

LEMMA LifeEnds ==
  ASSUME ControlInv, UNCHANGED <<request, given>>, context' = Completed
  PROVE  Contract!Complete \/ UNCHANGED Promised
  <1> USE NoneAssumption
  <1>1. UNCHANGED Upload(request)
    OBVIOUS
  <1>2. CASE context = "request"
    <2>1. context' = "deleted"
      BY <1>2 DEF ControlInv, Completed
    <2>2. Life' = "completed" /\ Life \in {"open", "answered", "abandoned"}
      BY <1>2, <2>1 DEF Life
    <2> QED BY <1>1, <2>2 DEF Contract!Complete
  <1>3. CASE context # "request"
    <2>1. UNCHANGED context
      BY <1>3 DEF ControlInv, Completed
    <2>2. UNCHANGED Life
      BY <1>3, <2>1 DEF Life, ControlInv
    <2> QED BY <1>1, <2>2 DEF Promised
  <1> QED BY <1>2, <1>3

LEMMA LifeIsAnswered ==
  ASSUME Inv, UNCHANGED <<request, given, context>>, context = "request",
         response = None, response' \in Responses, response'.kind # "error",
         given = Len(Upload(request))
  PROVE  Contract!Final
  <1>1. response' # None
    BY NoneAssumption DEF Responses
  <1>2. Life = "open" /\ Life' = "answered"
    BY <1>1, NoneAssumption DEF Life
  <1> QED BY <1>2 DEF Contract!Final

LEMMA LifeIsAbandoned ==
  ASSUME UNCHANGED <<request, given, context>>, context = "request",
         response = None, response' # None, response'.kind = "error"
  PROVE  Contract!Abandon
  <1>1. Life = "open" /\ Life' = "abandoned"
    BY NoneAssumption DEF Life
  <1> QED BY <1>1 DEF Contract!Abandon

LEMMA ContractStep ==
  ASSUME Inv, NoneOverruns, [Next]_vars
  PROVE  Contract!Next \/ UNCHANGED Promised
  <1>0. ControlInv
    BY DEF Inv
  <1>1. CASE Read
    BY <1>1, LifeStays DEF Read, requestVars, responseVars
  <1>2. CASE ReadEnd
    <2>1. UNCHANGED <<request, given>> /\ context' = Completed
      BY <1>2 DEF ReadEnd, ConnectionClose
    <2> QED BY <1>0, <2>1, LifeEnds DEF Contract!Next
  <1>3. CASE SeeShutdown
    <2>1. UNCHANGED <<request, given>> /\ context' = Completed
      BY <1>3 DEF SeeShutdown, ConnectionClose
    <2> QED BY <1>0, <2>1, LifeEnds DEF Contract!Next
  <1>4. CASE WriteHeaders
    BY <1>4, LifeStays DEF WriteHeaders, requestVars, responseVars
  <1>5. CASE RefillBody
    <2>1. state \in Answering /\ UNCHANGED <<request, given>> /\ CallReader
      BY <1>5 DEF RefillBody, Idle, Answering
    <2>2. context' = Completed \/ UNCHANGED <<context, response>>
      BY <2>1 DEF CallReader, ConnectionClose
    <2> QED BY <1>0, <2>1, <2>2, LifeEnds, LifeStays DEF Contract!Next
  <1>6. CASE SendBody
    BY <1>6, LifeStays DEF SendBody, requestVars, responseVars
  <1>7. CASE HeaderLine
    BY <1>7, LifeStays DEF HeaderLine, requestVars, responseVars
  <1>8. CASE NoHeaderLine
    BY <1>8, LifeStays DEF NoHeaderLine, requestVars, responseVars
  <1>9. CASE MalformedFirstLine
    <2>1. UNCHANGED <<request, given>> /\ context' = Completed
      BY <1>9 DEF MalformedFirstLine, ConnectionClose
    <2> QED BY <1>0, <2>1, LifeEnds DEF Contract!Next
  <1>10. CASE MalformedHeader
    <2>1. UNCHANGED <<request, given>> /\ context' = Completed
      BY <1>10 DEF MalformedHeader, ConnectionClose
    <2> QED BY <1>0, <2>1, LifeEnds DEF Contract!Next
  <1>11. CASE HeaderTooLarge \/ NoMemoryForBody
    <2>1. AnswersError /\ UNCHANGED <<request, given, context>>
      BY <1>11, LackIsAnswered DEF requestVars
    <2>2. CASE context = "request"
      <3>1. response = None
        BY <1>0, <1>11, LackStates DEF ControlInv
      <3> QED BY <2>1, <2>2, <3>1, ErrorFacts, LifeIsAbandoned DEF Contract!Next
    <2>3. CASE context # "request"
      BY <2>1, <2>3, LifeStays
    <2> QED BY <2>2, <2>3
  <1>12. CASE ParseHeaders
    BY <1>12, LifeStays DEF ParseHeaders, requestVars, responseVars
  <1>13. CASE FirstCall
    <2>1. /\ context = None /\ response = None /\ context' = "request"
          /\ UNCHANGED <<request, given, response>>
      BY <1>0, <1>13 DEF FirstCall, Idle, ControlInv, BeforeCall, responseVars
    <2>2. Life = "none" /\ Life' = "open"
      BY <2>1, NoneAssumption DEF Life
    <2>3. UNCHANGED Upload(request)
      BY <2>1
    <2> QED BY <2>1, <2>2, <2>3 DEF Contract!First, Contract!Next
  <1>14. CASE NothingToDo
    BY <1>14, LifeStays DEF NothingToDo, requestVars, responseVars
  <1>15. CASE EnterBody
    BY <1>15, LifeStays DEF EnterBody, requestVars, responseVars
  <1>16. CASE AfterBody
    BY <1>16, LifeStays DEF AfterBody, requestVars, responseVars
  <1>17. CASE ChunkLine
    <2>1. UNCHANGED <<request, given>>
      BY <1>17 DEF ChunkLine
    <2>2. context' = Completed \/ UNCHANGED <<context, response>>
      BY <1>17 DEF ChunkLine, ConnectionClose, responseVars
    <2> QED BY <1>0, <2>1, <2>2, LifeEnds, LifeStays DEF Contract!Next
  <1>18. CASE BodyCall
    <2>1. state = "CONTINUE_SENT" /\ UNCHANGED <<request, context, response>>
      BY <1>0, <1>18 DEF BodyCall, InChunk, ControlInv, responseVars
    <2>2. context = "request" /\ response = None /\ request \in Requests
      BY <1>0, <2>1 DEF ControlInv, Reading
    <2>3. Life = "open" /\ Life' = "open"
      BY <2>1, <2>2, NoneAssumption DEF Life
    <2>4. given' \in given + 1 .. Len(Upload(request))
      <3> DEFINE n == Available
      <3>1. /\ n \in 1 .. Len(buffer) /\ given \in Nat /\ given' = given + n
            /\ given' <= Len(Upload(request))
        BY <1>18, <2>2, PartFollows DEF NoneOverruns
      <3>2. Len(buffer) \in Nat
        <4>1. PICK t \in Nat : Unread(request, buffer, input, t)
          BY <2>1, AtBody
        <4> QED BY <2>2, <4>1, UnreadFacts
      <3>3. Len(Upload(request)) \in Nat
        BY <2>2, UploadFacts
      <3> HIDE DEF n
      <3> QED BY <3>1, <3>2, <3>3
    <2>5. UNCHANGED Upload(request)
      BY <2>1
    <2> QED BY <2>3, <2>4, <2>5 DEF Contract!Part, Contract!Next
  <1>19. CASE PostCall
    BY <1>19, LifeStays DEF PostCall, requestVars, responseVars
  <1>20. CASE PostTurn
    BY <1>20, LifeStays DEF PostTurn, requestVars, responseVars
  <1>21. CASE ClosesUnanswered
    <2>1. UNCHANGED <<request, given>> /\ context' = Completed
      BY <1>21, ClosingFacts DEF ConnectionClose
    <2> QED BY <1>0, <2>1, LifeEnds DEF Contract!Next
  <1>22. CASE FinalCall
    <2>1. /\ state = "FOOTERS_RECEIVED"
          /\ UNCHANGED <<request, given, context>>
      BY <1>22 DEF FinalCall, Idle
    <2>2. /\ context = "request" /\ response = None
          /\ given = Len(Upload(request))
      BY <1>0, <2>1 DEF ControlInv, Inv, CountInv
    <2>3. response' \in Responses /\ response'.kind # "error"
      <3>1. CASE Refuse
        BY <3>1, VerdictIsNat DEF Refuse, QueueResponse, Responses, Kinds
      <3>2. CASE ServiceHandle
        BY <3>2, SizesAssumption DEF ServiceHandle, QueueResponse, Responses, Kinds
      <3> QED BY <1>22, <3>1, <3>2 DEF FinalCall
    <2> QED BY <2>1, <2>2, <2>3, LifeIsAnswered DEF Contract!Next
  <1>23. CASE FinalCallFails
    <2>1. UNCHANGED <<request, given>> /\ context' = Completed
      BY <1>23 DEF FinalCallFails, ConnectionClose
    <2> QED BY <1>0, <2>1, LifeEnds DEF Contract!Next
  <1>24. CASE HeadersSent
    BY <1>24, LifeStays DEF HeadersSent, requestVars, responseVars
  <1>25. CASE UnreadyBody
    BY <1>25, LifeStays DEF UnreadyBody, requestVars, responseVars
  <1>26. CASE ReadBody
    <2>1. state \in Answering /\ UNCHANGED <<request, given>> /\ CallReader
      BY <1>26 DEF ReadBody, Idle, Answering
    <2>2. context' = Completed \/ UNCHANGED <<context, response>>
      BY <2>1 DEF CallReader, ConnectionClose
    <2> QED BY <1>0, <2>1, <2>2, LifeEnds, LifeStays DEF Contract!Next
  <1>27. CASE BodySent
    BY <1>27, LifeStays DEF BodySent, requestVars, responseVars
  <1>28. CASE FootersSent
    <2>1. UNCHANGED <<request, given>> /\ context' = Completed
      BY <1>28 DEF FootersSent, ConnectionClose
    <2> QED BY <1>0, <2>1, LifeEnds DEF Contract!Next
  <1>29. CASE Closed
    <2>1. state = "CLOSED" /\ UNCHANGED <<request, given, context>>
      BY <1>29 DEF Closed, Idle, requestVars
    <2>2. context # "request"
      BY <1>0, <2>1 DEF ControlInv
    <2> QED BY <2>1, <2>2, LifeStays
  <1>30. CASE PollTimesOut
    BY <1>30, LifeStays DEF PollTimesOut, requestVars, responseVars
  <1>31. CASE Leave
    BY <1>31, LifeStays DEF Leave, requestVars, responseVars
  <1>32. CASE Timeout
    <2>1. UNCHANGED <<request, given>> /\ context' = Completed
      BY <1>32 DEF Timeout, ConnectionClose
    <2> QED BY <1>0, <2>1, LifeEnds DEF Contract!Next
  <1>33. CASE UNCHANGED vars
    BY <1>33, LifeStays DEF vars, requestVars, responseVars
  <1> QED BY <1>1, <1>2, <1>3, <1>4, <1>5, <1>6, <1>7, <1>8, <1>9, <1>10,
         <1>11, <1>12, <1>13, <1>14, <1>15, <1>16, <1>17, <1>18, <1>19, <1>20,
         <1>21, <1>22, <1>23, <1>24, <1>25, <1>26, <1>27, <1>28, <1>29, <1>30,
         <1>31, <1>32, <1>33
          DEF Next, Client, Write, ReceiveHeaders, ReceiveBody, Answer,
              ClosesUnanswered

(* One first call, then the parts of the upload in order, then one final   *)
(* call when it is complete, and one completion: what rest_server relies   *)
(* on (rest_server.cpp:476-510) holds for every client that sends nothing  *)
(* after an upload it announced as empty.                                  *)
THEOREM ContractIsKept ==
  ASSUME NoneOverruns
  PROVE  Spec => KeepsContract
  <1>1. Inv /\ [Next]_vars => [Contract!Next]_Promised
    BY ContractStep
  <1>2. Inv /\ [Next]_vars => [Contract!Next]_<<Upload(request), Life, given>>
    BY <1>1 DEF Promised
  <1> QED BY <1>2, InvHolds, ContractInit, PTL DEF Spec, KeepsContract, Contract!Spec

-----------------------------------------------------------------------------
(* The answer.  Either the response pretends to have been sent, as for     *)
(* HEAD, or what is sent is what the position says, and the data that are  *)
(* ready follow those that are consumed.                                   *)
GeneratorOk(g) ==
  /\ g \in [output : Outputs, index : Nat, offset : Nat, consumed : Nat]
  /\ g.index \in 1 .. Len(g.output)
  /\ g.consumed + g.offset <= g.output[g.index]

Pretending ==
  /\ request.method = "HEAD" /\ sent = <<>> /\ position = response.size
  /\ response.kind # "generator" => start = 0 /\ ready = Bytes(1, response.size)
  /\ response.kind = "generator" =>
       /\ response.size = SizeUnknown /\ ready = <<>>
       /\ start \in {0, SizeUnknown} /\ GeneratorOk(generator)

Sending ==
  /\ request.method = "HEAD" => context = None
  /\ position \in Nat /\ sent = Bytes(1, position)
  /\ start \in Nat /\ Len(ready) \in Nat /\ ready = Bytes(start + 1, Len(ready))
  /\ start <= position /\ position <= start + Len(ready)
  /\ response.kind # "generator" => start = 0 /\ Len(ready) = response.size
  /\ response.kind = "generator" =>
       /\ response.size = SizeUnknown /\ GeneratorOk(generator)
       /\ start + Len(ready) = generator.consumed + generator.offset
  /\ state \in {"BODY_SENT", "FOOTERS_SENT"} => position = response.size

AnswerInv ==
  /\ state \in BeforeCall \cup Reading \cup {"FOOTERS_RECEIVED"} => sent = <<>>
  /\ state \in Answering => Pretending \/ Sending

LEMMA BytesFacts ==
  ASSUME NEW a \in Nat, NEW n \in Nat
  PROVE  /\ Bytes(a, n) \in Seq({Byte(k) : k \in Int}) /\ Len(Bytes(a, n)) = n
         /\ \A i \in 1 .. n : Bytes(a, n)[i] = Byte(a + i - 1)
  <1> DEFINE S == {Byte(k) : k \in Int}
             f == [i \in 1 .. n |-> Byte(a + i - 1)]
  <1>1. \A i \in 1 .. n : Byte(a + i - 1) \in S
    <2>1. \A i \in 1 .. n : a + i - 1 \in Int
      OBVIOUS
    <2> QED BY <2>1
  <1> HIDE DEF S
  <1>2. f \in [1 .. n -> S] /\ \A i \in 1 .. n : f[i] = Byte(a + i - 1)
    BY <1>1
  <1>3. f \in Seq(S) /\ Len(f) = n
    <2> HIDE DEF f
    <2> QED BY <1>2
  <1>4. Bytes(a, n) = f
    BY DEF Bytes
  <1> QED BY <1>2, <1>3, <1>4 DEF S

LEMMA NoBytes ==
  ASSUME NEW a \in Nat
  PROVE  Bytes(a, 0) = <<>>
  <1>1. Bytes(a, 0) \in Seq({Byte(k) : k \in Int}) /\ Len(Bytes(a, 0)) = 0
    BY BytesFacts
  <1> QED BY <1>1, EmptySeq

LEMMA BytesJoin ==
  ASSUME NEW p \in Nat, NEW n \in Nat
  PROVE  Bytes(1, p) \o Bytes(p + 1, n) = Bytes(1, p + n)
  <1> DEFINE S == {Byte(k) : k \in Int}
             a == Bytes(1, p)
             b == Bytes(p + 1, n)
             c == Bytes(1, p + n)
  <1>1. /\ a \in Seq(S) /\ Len(a) = p /\ \A i \in 1 .. p : a[i] = Byte(1 + i - 1)
        /\ b \in Seq(S) /\ Len(b) = n /\ \A i \in 1 .. n : b[i] = Byte(p + 1 + i - 1)
        /\ c \in Seq(S) /\ Len(c) = p + n
        /\ \A i \in 1 .. p + n : c[i] = Byte(1 + i - 1)
    <2>1. p + 1 \in Nat /\ p + n \in Nat /\ 1 \in Nat
      OBVIOUS
    <2> QED BY <2>1, BytesFacts
  <1> HIDE DEF S, a, b, c
  <1>2. /\ a \o b \in Seq(S) /\ Len(a \o b) = Len(a) + Len(b)
        /\ \A i \in 1 .. Len(a) + Len(b) :
             (a \o b)[i] = IF i <= Len(a) THEN a[i] ELSE b[i - Len(a)]
    BY <1>1, ConcatProperties
  <1>3. ASSUME NEW i \in 1 .. p + n
        PROVE  (a \o b)[i] = c[i]
    <2>1. CASE i <= p
      <3>1. i \in 1 .. p
        BY <2>1
      <3> QED BY <1>1, <1>2, <2>1, <3>1
    <2>2. CASE ~(i <= p)
      <3> DEFINE q == i - p
      <3>1. q \in 1 .. n /\ p + 1 + q - 1 = 1 + i - 1
        BY <2>2
      <3>2. (a \o b)[i] = b[q]
        BY <1>1, <1>2, <2>2
      <3> HIDE DEF q
      <3>3. b[q] = Byte(p + 1 + q - 1) /\ c[i] = Byte(1 + i - 1)
        BY <1>1, <3>1
      <3> QED BY <3>1, <3>2, <3>3
    <2> QED BY <2>1, <2>2
  <1>4. a \o b = c
    <2> DEFINE d == a \o b
    <2>1. d \in Seq(S) /\ Len(d) = Len(c) /\ \A i \in 1 .. Len(d) : d[i] = c[i]
      BY <1>1, <1>2, <1>3
    <2> HIDE DEF d
    <2>2. d = c
      BY <1>1, <2>1, SeqEqual
    <2> QED BY <2>2 DEF d
  <1> QED BY <1>4 DEF a, b, c

(* What the socket takes of the rest of the data.                          *)
LEMMA BytesSent ==
  ASSUME NEW a \in Nat, NEW z \in Nat, NEW k \in 0 .. z
  PROVE  LET left == SubSeq(Bytes(a + 1, z), k + 1, z) IN
         /\ Len(left) = z - k
         /\ \A n \in 0 .. z - k : SubSeq(left, 1, n) = Bytes(a + k + 1, n)
  <1> DEFINE S == {Byte(i) : i \in Int}
             f == Bytes(a + 1, z)
             left == SubSeq(f, k + 1, z)
  <1>1. f \in Seq(S) /\ Len(f) = z /\ \A i \in 1 .. z : f[i] = Byte(a + 1 + i - 1)
    <2> DEFINE b == a + 1
    <2>1. b \in Nat
      OBVIOUS
    <2> HIDE DEF b
    <2>2. /\ Bytes(b, z) \in Seq({Byte(i) : i \in Int}) /\ Len(Bytes(b, z)) = z
          /\ \A i \in 1 .. z : Bytes(b, z)[i] = Byte(b + i - 1)
      BY <2>1, BytesFacts
    <2> QED BY <2>2 DEF b
  <1> HIDE DEF S, f
  <1>2. left \in Seq(S) /\ Len(left) = z - k /\ \A i \in 1 .. z - k : left[i] = f[k + i]
    <2>1. \A i \in k + 1 .. z : f[i] \in S
      <3>1. \A i \in k + 1 .. z : i \in 1 .. Len(f)
        BY <1>1
      <3> QED BY <1>1, <3>1
    <2>2. /\ left \in Seq(S)
          /\ Len(left) = IF k + 1 <= z THEN z - (k + 1) + 1 ELSE 0
          /\ \A i \in 1 .. z - (k + 1) + 1 : left[i] = f[k + 1 + i - 1]
      <3>1. k + 1 \in Int /\ z \in Int
        OBVIOUS
      <3> QED BY <2>1, <3>1, SubSeqProperties
    <2>3. (IF k + 1 <= z THEN z - (k + 1) + 1 ELSE 0) = z - k
          /\ z - (k + 1) + 1 = z - k /\ \A i \in 1 .. z - k : k + 1 + i - 1 = k + i
      OBVIOUS
    <2> QED BY <2>2, <2>3
  <1> HIDE DEF left
  <1>3. ASSUME NEW n \in 0 .. z - k
        PROVE  SubSeq(left, 1, n) = Bytes(a + k + 1, n)
    <2> DEFINE g == SubSeq(left, 1, n)
               h == Bytes(a + k + 1, n)
    <2>1. n \in Nat /\ a + k + 1 \in Nat
      OBVIOUS
    <2>2. h \in Seq(S) /\ Len(h) = n /\ \A i \in 1 .. n : h[i] = Byte(a + k + 1 + i - 1)
      BY <2>1, BytesFacts DEF S
    <2>3. g \in Seq(S) /\ Len(g) = n /\ \A i \in 1 .. n : g[i] = left[i]
      <3>1. \A i \in 1 .. n : left[i] \in S
        <4>1. \A i \in 1 .. n : i \in 1 .. Len(left)
          BY <1>2
        <4> QED BY <1>2, <4>1
      <3>2. /\ g \in Seq(S) /\ Len(g) = IF 1 <= n THEN n - 1 + 1 ELSE 0
            /\ \A i \in 1 .. n - 1 + 1 : g[i] = left[1 + i - 1]
        <4>1. 1 \in Int /\ n \in Int
          OBVIOUS
        <4> QED BY <3>1, <4>1, SubSeqProperties
      <3>3. (IF 1 <= n THEN n - 1 + 1 ELSE 0) = n /\ n - 1 + 1 = n
            /\ \A i \in 1 .. n : 1 + i - 1 = i
        OBVIOUS
      <3> QED BY <3>2, <3>3
    <2> HIDE DEF g, h
    <2>4. ASSUME NEW i \in 1 .. n
          PROVE  g[i] = h[i]
      <3> DEFINE q == k + i
      <3>1. i \in 1 .. z - k /\ q \in 1 .. z /\ a + 1 + q - 1 = a + k + 1 + i - 1
        OBVIOUS
      <3>2. g[i] = f[q]
        BY <1>2, <2>3, <3>1
      <3> HIDE DEF q
      <3>3. f[q] = Byte(a + 1 + q - 1)
        BY <1>1, <3>1
      <3> QED BY <2>2, <3>1, <3>2, <3>3
    <2>5. g = h
      BY <2>2, <2>3, <2>4, SeqEqual
    <2> QED BY <2>5 DEF g, h
  <1> QED BY <1>2, <1>3 DEF left, f

-----------------------------------------------------------------------------
(* The generator.                                                          *)

LEMMA OutputFacts ==
  ASSUME NEW o \in Outputs
  PROVE  /\ Len(o) \in Nat /\ Len(o) \in 1 .. Len(o)
         /\ \A i \in 1 .. Len(o) : o[i] \in Nat /\ o[i] <= Last(o)
         /\ \A i, j \in 1 .. Len(o) : i <= j => o[i] <= o[j]
         /\ Last(o) = o[Len(o)] /\ Last(o) < SizeUnknown /\ SizeUnknown \in Nat
  <1>1. /\ o \in Seq(Nat) /\ Len(o) > 0 /\ Last(o) < SizeUnknown
        /\ \A i, j \in DOMAIN o : i <= j => o[i] <= o[j]
    BY OutputsAssumption
  <1>2. Len(o) \in Nat /\ DOMAIN o = 1 .. Len(o) /\ Len(o) \in 1 .. Len(o)
        /\ \A i \in 1 .. Len(o) : o[i] \in Nat
    BY <1>1
  <1>3. Last(o) = o[Len(o)]
    BY DEF Last
  <1>4. \A i \in 1 .. Len(o) : i <= Len(o)
    BY <1>2
  <1>5. \A i \in 1 .. Len(o) : o[i] <= Last(o)
    BY <1>1, <1>2, <1>3, <1>4
  <1> QED BY <1>1, <1>2, <1>3, <1>5, SizesAssumption

LEMMA MinimumFacts ==
  ASSUME NEW max \in Nat
  PROVE  /\ Minimum(max) \in Nat /\ Minimum(max) <= max
         /\ MinGenerated > 0 /\ max > 0 => Minimum(max) > 0
  <1>1. MinGenerated \in Nat
    BY SizesAssumption
  <1>2. Min({MinGenerated, max}) = IF MinGenerated <= max THEN MinGenerated ELSE max
    BY <1>1, MinOfTwo
  <1> QED BY <1>1, <1>2 DEF Minimum

(* generate is called until there is enough of its output, or all.         *)
LEMMA GeneratedFacts ==
  ASSUME NEW g, GeneratorOk(g), NEW max \in Nat
  PROVE  LET i == Generated(g, max) IN
         /\ i \in g.index .. Len(g.output)
         /\ \/ g.output[i] - g.consumed - g.offset >= Minimum(max)
            \/ i = Len(g.output)
  <1> DEFINE o == g.output
             z == Len(g.output)
             m == Minimum(max)
             made(i) == o[i] - g.consumed - g.offset
             enough == {i \in Nat : i \in g.index .. z /\ (made(i) >= m \/ i = z)}
             Is(i) == /\ made(i) >= m \/ i = z
                      /\ \A j \in g.index .. i - 1 : made(j) < m
  <1>1. /\ o \in Outputs /\ g.index \in Nat /\ g.index >= 1 /\ g.index <= z
        /\ z \in Nat /\ m \in Nat /\ g.offset \in Nat /\ g.consumed \in Nat
        /\ \A i \in 1 .. z : o[i] \in Nat
    <2>1. /\ o \in Outputs /\ g.index \in Nat /\ g.offset \in Nat
          /\ g.consumed \in Nat /\ g.index \in 1 .. z
      BY DEF GeneratorOk
    <2>2. z \in Nat /\ \A i \in 1 .. z : o[i] \in Nat
      BY <2>1, OutputFacts
    <2>3. m \in Nat
      BY MinimumFacts
    <2> HIDE DEF o, z, m
    <2> QED BY <2>1, <2>2, <2>3
  <1> HIDE DEF o, z, m
  <1>2. z \in enough
    BY <1>1
  <1>3. PICK i \in enough : \A k \in enough : i <= k
    <2>1. enough \in SUBSET Nat /\ enough # {}
      BY <1>2
    <2> HIDE DEF enough
    <2> QED BY <2>1, LeastExists
  <1>4. i \in Nat /\ i \in g.index .. z /\ (made(i) >= m \/ i = z)
    BY <1>3
  <1>5. ASSUME NEW j \in g.index .. i - 1
        PROVE  made(j) < m
    <2>1. j \in Nat /\ j < i /\ j \in g.index .. z /\ j # z /\ j \in 1 .. z
      BY <1>1, <1>4
    <2>2. j \notin enough
      <3>1. ~(i <= j)
        BY <1>4, <2>1
      <3> HIDE DEF enough
      <3> QED BY <1>3, <3>1
    <2>3. ~(made(j) >= m)
      BY <2>1, <2>2
    <2>4. made(j) \in Int
      <3>1. o[j] \in Nat
        BY <1>1, <2>1
      <3> QED BY <1>1, <3>1
    <2> HIDE DEF made
    <2> QED BY <1>1, <2>3, <2>4
  <1>6. Is(i)
    BY <1>4, <1>5
  <1>7. Generated(g, max) = CHOOSE k \in g.index .. z : Is(k)
    BY DEF Generated, o, z, m
  <1> HIDE DEF Is
  <1>8. Generated(g, max) \in g.index .. z /\ Is(Generated(g, max))
    BY <1>4, <1>6, <1>7
  <1> QED BY <1>8 DEF Is, o, z, m

(* What the callback gives continues what is consumed; it ends only after  *)
(* all of the output.                                                      *)
Continues(g, called, max) ==
  \/ /\ called.end /\ called.data = <<>>
     /\ GeneratorOk(called.generator)
     /\ called.generator.output = g.output
     /\ MinGenerated > 0 /\ max > 0 => g.consumed + g.offset = Last(g.output)
  \/ /\ ~called.end
     /\ GeneratorOk(called.generator)
     /\ \E n \in 0 .. max :
          /\ called.data = Bytes(g.consumed + g.offset + 1, n)
          /\ called.generator.consumed + called.generator.offset
               = g.consumed + g.offset + n

LEMMA CallbackFacts ==
  ASSUME NEW g, GeneratorOk(g), NEW max \in Nat
  PROVE  Continues(g, GeneratorCallback(g, max), max)
  <1> DEFINE o == g.output
             c == g.consumed
             d == g.offset
             i == Generated(g, max)
             m == Minimum(max)
             n == Copied(g, i, max)
             G == [output : Outputs, index : Nat, offset : Nat, consumed : Nat]
  <1>1. /\ g \in G /\ o \in Outputs /\ c \in Nat /\ d \in Nat /\ g.index \in Nat
        /\ g.index \in 1 .. Len(o) /\ c + d <= o[g.index]
    BY DEF GeneratorOk
  <1>2. /\ Len(o) \in Nat /\ \A k \in 1 .. Len(o) : o[k] \in Nat /\ o[k] <= Last(o)
        /\ \A j, k \in 1 .. Len(o) : j <= k => o[j] <= o[k]
        /\ Last(o) = o[Len(o)]
    BY <1>1, OutputFacts
  <1>3. /\ m \in Nat
        /\ MinGenerated > 0 /\ max > 0 => m > 0
    BY MinimumFacts
  <1>4. i \in g.index .. Len(o) /\ (o[i] - c - d >= m \/ i = Len(o))
    BY GeneratedFacts
  <1> HIDE DEF i, m
  <1>5. i \in Nat /\ i \in 1 .. Len(o) /\ o[i] \in Nat /\ o[g.index] \in Nat
        /\ o[g.index] <= o[i]
    <2>1. i \in Nat /\ i \in 1 .. Len(o) /\ g.index <= i
      BY <1>1, <1>2, <1>4
    <2> HIDE DEF o
    <2> QED BY <1>1, <1>2, <2>1
  <1>6. c + d <= o[i]
    <2> HIDE DEF o, c, d
    <2> QED BY <1>1, <1>5
  <1>7. CASE o[i] - c <= d
    <2> DEFINE h == [g EXCEPT !.index = i]
    <2>1. GeneratorCallback(g, max) = [end |-> TRUE, data |-> <<>>, generator |-> h]
      BY <1>7 DEF GeneratorCallback, i
    <2>2. /\ h \in G /\ h.output = o /\ h.index = i /\ h.consumed = c
          /\ h.offset = d
      BY <1>1, <1>5
    <2>3. GeneratorOk(h)
      <3> HIDE DEF h
      <3> QED BY <1>5, <1>6, <2>2 DEF GeneratorOk
    <2>4. ASSUME MinGenerated > 0, max > 0
          PROVE  c + d = Last(o)
      <3> HIDE DEF o, c, d
      <3>1. m > 0
        BY <1>3, <2>4
      <3>2. ~(o[i] - c - d >= m)
        BY <1>1, <1>3, <1>5, <1>7, <3>1
      <3>3. o[i] = Last(o)
        BY <1>2, <1>4, <3>2
      <3> QED BY <1>1, <1>5, <1>6, <1>7, <3>3
    <2> HIDE DEF h
    <2> QED BY <2>1, <2>2, <2>3, <2>4 DEF Continues
  <1>8. CASE ~(o[i] - c <= d)
    <2> DEFINE h == Consume(g, i, d + n, max)
    <2>1. GeneratorCallback(g, max)
            = [end |-> FALSE, data |-> Bytes(c + d + 1, n), generator |-> h]
      BY <1>8 DEF GeneratorCallback, i
    <2>2. n = IF o[i] - c - d <= max THEN o[i] - c - d ELSE max
      <3>1. o[i] - c - d \in Int /\ max \in Int
        BY <1>1, <1>5
      <3> QED BY <3>1, MinOfTwo DEF Copied
    <2> HIDE DEF n
    <2>3. n \in 0 .. max /\ n \in Nat /\ c + d + n <= o[i]
      <3> HIDE DEF o, c, d
      <3> QED BY <1>1, <1>5, <1>8, <2>2
    <2>4. /\ h \in G /\ h.output = o /\ h.index = i
          /\ h.consumed + h.offset = c + d + n
      <3>0. d + n \in Nat /\ c + (d + n) \in Nat /\ c + (d + n) + 0 = c + d + n
            /\ c + (d + n) = c + d + n
        <4> HIDE DEF c, d
        <4> QED BY <1>1, <2>3
      <3>1. CASE o[i] - c - (d + n) < Minimum(max)
        <4>1. h = [g EXCEPT !.index = i, !.consumed = c + (d + n), !.offset = 0]
          BY <3>1 DEF Consume
        <4>2. h \in G /\ h.output = o /\ h.index = i /\ h.consumed = c + (d + n) /\ h.offset = 0
          <5> DEFINE x == c + (d + n)
          <5>1. x \in Nat
            BY <3>0
          <5> HIDE DEF x, h
          <5>2. h = [g EXCEPT !.index = i, !.consumed = x, !.offset = 0]
            BY <4>1 DEF x
          <5>3. h = [output |-> o, index |-> i, offset |-> 0, consumed |-> x]
            BY <1>1, <5>2
          <5>4. h \in G /\ h.output = o /\ h.index = i /\ h.consumed = x /\ h.offset = 0
            BY <1>1, <1>5, <5>1, <5>3
          <5> QED BY <5>4 DEF x
        <4> HIDE DEF h
        <4> QED BY <3>0, <4>2
      <3>2. CASE ~(o[i] - c - (d + n) < Minimum(max))
        <4>1. h = [g EXCEPT !.index = i, !.offset = d + n]
          BY <3>2 DEF Consume
        <4>2. h \in G /\ h.output = o /\ h.index = i /\ h.consumed = c /\ h.offset = d + n
          BY <1>1, <1>5, <3>0, <4>1
        <4> HIDE DEF h
        <4> QED BY <3>0, <4>2
      <3> QED BY <3>1, <3>2
    <2> HIDE DEF h
    <2>5. GeneratorOk(h)
      BY <1>5, <2>3, <2>4 DEF GeneratorOk
    <2> QED BY <2>1, <2>3, <2>4, <2>5 DEF Continues
  <1> QED BY <1>7, <1>8

LEMMA NewGeneratorOk ==
  ASSUME NEW o \in Outputs
  PROVE  /\ GeneratorOk(NewGenerator(o))
         /\ NewGenerator(o).consumed = 0 /\ NewGenerator(o).offset = 0
  <1>1. Len(o) \in Nat /\ Len(o) \in 1 .. Len(o) /\ \A i \in 1 .. Len(o) : o[i] \in Nat
    BY OutputFacts
  <1>2. 1 \in 1 .. Len(o) /\ o[1] \in Nat /\ 0 + 0 <= o[1]
    BY <1>1
  <1> QED BY <1>2 DEF NewGenerator, GeneratorOk

-----------------------------------------------------------------------------
(* Every step keeps the answer in order.                                   *)

LEMMA AnswerInit == Init => AnswerInv /\ AnswerIsWhole
  <1> SUFFICES ASSUME Init PROVE AnswerInv /\ AnswerIsWhole
    OBVIOUS
  <1>1. sent = <<>> /\ response = None /\ state = "INIT"
    BY DEF Init
  <1>2. Len(sent) = 0 /\ sent = Bytes(1, 0)
    BY <1>1, NoBytes
  <1> QED BY <1>1, <1>2 DEF AnswerInv, AnswerIsWhole, Answering

IsOpen == state # "CLOSED"

LEMMA WholeWhileOpen == Inv /\ AnswerInv /\ IsOpen => AnswerIsWhole
  <1> SUFFICES ASSUME Inv, AnswerInv, state # "CLOSED" PROVE AnswerIsWhole
    BY DEF IsOpen
  <1>1. ASSUME sent = <<>>
        PROVE  sent = Bytes(1, Len(sent)) /\ Len(sent) = 0
    <2>1. Len(sent) = 0
      BY <1>1
    <2> QED BY <1>1, <2>1, NoBytes
  <1>2. CASE state \notin Answering
    <2>1. sent = <<>> /\ ~Delivered
      BY <1>2 DEF Inv, ControlInv, AnswerInv, Answering, Delivered
    <2> QED BY <1>1, <2>1 DEF AnswerIsWhole
  <1>3. CASE state \in Answering /\ Pretending
    BY <1>1, <1>3 DEF Pretending, AnswerIsWhole
  <1>4. CASE state \in Answering /\ Sending
    <2>1. position \in Nat /\ sent = Bytes(1, position)
      BY <1>4 DEF Sending
    <2>2. Len(sent) = position
      BY <2>1, BytesFacts
    <2>3. request.method = "HEAD" => context = None
      BY <1>4 DEF Sending
    <2>4. ASSUME Delivered
          PROVE  Len(sent) = AnswerSize
      <3>1. position = response.size /\ response \in Responses
        BY <1>4, <2>4 DEF Delivered, Sending, Inv, ControlInv
      <3>2. ASSUME response.kind = "generator"
            PROVE  FALSE
        <4> DEFINE g == generator
        <4>1. /\ response.size = SizeUnknown /\ GeneratorOk(g)
              /\ position <= start + Len(ready)
              /\ start + Len(ready) = g.consumed + g.offset
          BY <1>4, <3>1, <3>2 DEF Sending, Responses
        <4>2. /\ g.consumed \in Nat /\ g.offset \in Nat
              /\ g.consumed + g.offset <= g.output[g.index]
              /\ g.output[g.index] \in Nat /\ Last(g.output) \in Nat
              /\ g.output[g.index] <= Last(g.output)
              /\ Last(g.output) < SizeUnknown /\ SizeUnknown \in Nat
          <5>1. /\ g.consumed \in Nat /\ g.offset \in Nat /\ g.output \in Outputs
                /\ g.index \in 1 .. Len(g.output)
                /\ g.consumed + g.offset <= g.output[g.index]
            BY <4>1 DEF GeneratorOk
          <5> HIDE DEF g
          <5> QED BY <5>1, OutputFacts
        <4> HIDE DEF g
        <4>3. position <= g.consumed + g.offset /\ position = SizeUnknown
          BY <3>1, <4>1
        <4> QED BY <2>1, <4>2, <4>3
      <3> QED BY <2>2, <3>1, <3>2 DEF AnswerSize
    <2> QED BY <2>2, <2>1, <2>3, <2>4 DEF AnswerIsWhole
  <1> QED BY <1>2, <1>3, <1>4 DEF AnswerInv

LEMMA WholeNext ==
  ASSUME Inv', AnswerInv', state' # "CLOSED"
  PROVE  AnswerIsWhole'
  <1>1. Inv' /\ AnswerInv' /\ IsOpen' => AnswerIsWhole'
    BY WholeWhileOpen, PTL
  <1> QED BY <1>1 DEF IsOpen

(* The response is queued when nothing has been sent.                      *)
LEMMA QueueAnswer ==
  ASSUME ControlInv, AnswerInv, NEW code, NEW kind, NEW size \in Nat,
         QueueResponse(code, kind, size), state' = "HEADERS_SENDING",
         UNCHANGED <<request, sent>>, (context' = None) <=> (context = None),
         state \notin Answering \cup {"CLOSED"},
         \/ kind # "generator"
         \/ /\ kind = "generator" /\ size = SizeUnknown
            /\ \E o \in Outputs : generator' = NewGenerator(o)
  PROVE  AnswerInv'
  <1>1. /\ sent' = <<>> /\ start' = 0 /\ position' = PositionFor(size)
        /\ response'.size = size /\ response'.kind = kind
        /\ ready' = IF kind = "generator" THEN <<>> ELSE Bytes(1, size)
    BY DEF QueueResponse, AnswerInv, ControlInv
  <1>2. kind = "generator" =>
          /\ size = SizeUnknown /\ GeneratorOk(generator')
          /\ generator'.consumed + generator'.offset = 0
    BY NewGeneratorOk
  <1>3. /\ Len(Bytes(1, size)) = size /\ Bytes(1, 0) = <<>>
        /\ Len(<<>>) = 0
    BY BytesFacts, NoBytes
  <1>4. CASE request.method = "HEAD" /\ state # "INIT"
    <2>1. position' = size
      BY <1>1, <1>4 DEF PositionFor
    <2>2. Pretending'
      BY <1>1, <1>2, <1>4, <2>1 DEF Pretending
    <2> QED BY <2>2 DEF AnswerInv, Answering, BeforeCall, Reading
  <1>5. CASE ~(request.method = "HEAD" /\ state # "INIT")
    <2>1. position' = 0
      BY <1>1, <1>5 DEF PositionFor
    <2>2. request.method = "HEAD" => context' = None
      BY <1>5 DEF ControlInv, BeforeCall
    <2>3. Len(ready') = IF kind = "generator" THEN 0 ELSE size
      BY <1>1, <1>3
    <2>4. ready' = Bytes(0 + 1, Len(ready'))
      BY <1>1, <1>3, <2>3
    <2>5. Len(ready') \in Nat /\ start' + Len(ready') = Len(ready')
          /\ position' <= start' + Len(ready') /\ start' <= position'
      BY <1>1, <2>1, <2>3
    <2>6. Sending'
      BY <1>1, <1>2, <1>3, <2>1, <2>2, <2>3, <2>4, <2>5 DEF Sending
    <2> QED BY <2>6 DEF AnswerInv, Answering, BeforeCall, Reading
  <1> QED BY <1>4, <1>5

LEMMA CloseAnswer ==
  ASSUME ControlInv, AnswerIsWhole, state' = "CLOSED", context' = Completed,
         UNCHANGED <<request, sent>>, ending' # "completed" \/ response' = None
  PROVE  AnswerInv' /\ AnswerIsWhole'
  <1>1. (context' = None) <=> (context = None)
    BY NoneAssumption DEF ControlInv, Completed
  <1>2. AnswerInv'
    BY DEF AnswerInv, BeforeCall, Reading, Answering
  <1>3. AnswerIsWhole'
    BY <1>1 DEF AnswerIsWhole, Delivered
  <1> QED BY <1>2, <1>3

LEMMA AnswerMoves ==
  ASSUME AnswerInv, state \in Answering, state' \in Answering,
         UNCHANGED <<request, context, responseVars, sent>>,
         state' \in {"BODY_SENT", "FOOTERS_SENT"} /\ Sending => position = response.size
  PROVE  AnswerInv'
  <1>1. Pretending => Pretending'
    BY DEF Pretending, responseVars
  <1>2. Sending => Sending'
    BY DEF Sending, responseVars
  <1> QED BY <1>1, <1>2 DEF AnswerInv, BeforeCall, Reading, Answering

(* The reader of the response is asked for more when all is sent.          *)
LEMMA ReaderAnswer ==
  ASSUME Inv, AnswerInv, AnswerIsWhole, MinGenerated > 0, state \in Answering,
         ~IsReady, CallReader, UNCHANGED <<request, position, sent>>
  PROVE  AnswerInv' /\ (state' = "CLOSED" => AnswerIsWhole')
  <1> DEFINE g == generator
             left == response.size - position
             max == Min({BufferSize, left})
             called == GeneratorCallback(g, max)
             made == g.consumed + g.offset
  <1>1. response \in Responses /\ response.kind = "generator" /\ ~InRange
    BY DEF Inv, ControlInv, Responses, IsReady
  <1>2. /\ BufferSize \in Nat /\ BufferSize > 0
        /\ SizeUnknown \in Nat /\ SizeUnknown > 0
    BY SizesAssumption
  <1>3. /\ GeneratorOk(g) /\ g.consumed \in Nat /\ g.offset \in Nat
        /\ made \in Nat /\ made < SizeUnknown /\ response.size = SizeUnknown
    <2>1. GeneratorOk(g) /\ response.size = SizeUnknown
      BY <1>1 DEF AnswerInv, Pretending, Sending
    <2>2. /\ g.output \in Outputs /\ g.index \in 1 .. Len(g.output)
          /\ g.consumed \in Nat /\ g.offset \in Nat /\ made <= g.output[g.index]
      BY <2>1 DEF GeneratorOk
    <2> HIDE DEF g
    <2>3. g.output[g.index] \in Nat /\ Last(g.output) \in Nat
          /\ g.output[g.index] <= Last(g.output) /\ Last(g.output) < SizeUnknown
      BY <2>2, OutputFacts
    <2> QED BY <1>2, <2>1, <2>2, <2>3
  <1>4. /\ generator' = called.generator
        /\ called.end => /\ response' = [response EXCEPT !.size = position]
                         /\ ConnectionClose("completed")
        /\ ~called.end => /\ ready' = called.data /\ start' = position
                          /\ state' \in {"NORMAL_BODY_UNREADY", "NORMAL_BODY_READY"}
                          /\ UNCHANGED <<context, response>>
    BY DEF CallReader
  <1> HIDE DEF called
  <1>5. CASE Pretending
    <2>1. position = SizeUnknown /\ max = 0 /\ request.method = "HEAD"
          /\ sent = <<>>
      <3>1. position = SizeUnknown /\ left = 0
        BY <1>2, <1>3, <1>5 DEF Pretending
      <3> HIDE DEF left
      <3>2. max = 0
        BY <1>2, <3>1, MinOfTwo
      <3> QED BY <1>5, <3>1, <3>2 DEF Pretending
    <2> HIDE DEF max
    <2>2. Continues(g, called, 0)
      <3>1. Continues(g, GeneratorCallback(g, 0), 0)
        BY <1>3, CallbackFacts
      <3> QED BY <2>1, <3>1 DEF called
    <2>3. CASE called.end
      <3>1. state' = "CLOSED" /\ context' = Completed
        BY <1>4, <2>3 DEF ConnectionClose
      <3>2. AnswerInv'
        BY <3>1 DEF AnswerInv, BeforeCall, Reading, Answering
      <3>3. AnswerIsWhole'
        <4>1. Len(sent) = 0 /\ sent = Bytes(1, 0)
          BY <2>1, NoBytes
        <4> QED BY <2>1, <4>1 DEF AnswerIsWhole
      <3> QED BY <3>2, <3>3
    <2>4. CASE ~called.end
      <3>1. GeneratorOk(called.generator)
        BY <2>2, <2>4 DEF Continues
      <3>2. called.data = <<>>
        <4>1. PICK n \in 0 .. 0 : called.data = Bytes(made + 1, n)
          BY <2>2, <2>4 DEF Continues
        <4>2. n = 0 /\ made + 1 \in Nat
          BY <1>3
        <4> HIDE DEF made
        <4> QED BY <4>1, <4>2, NoBytes
      <3>3. Pretending'
        BY <1>1, <1>3, <1>4, <2>1, <2>4, <3>1, <3>2 DEF Pretending
      <3> QED BY <1>4, <2>4, <3>3 DEF AnswerInv, BeforeCall, Reading, Answering
    <2> QED BY <2>3, <2>4
  <1>6. CASE Sending
    <2>1. /\ position \in Nat /\ position = made /\ sent = Bytes(1, position)
          /\ request.method = "HEAD" => context = None
      <3>1. /\ position \in Nat /\ start \in Nat /\ Len(ready) \in Nat
            /\ start <= position /\ position <= start + Len(ready)
            /\ start + Len(ready) = made /\ sent = Bytes(1, position)
            /\ request.method = "HEAD" => context = None
        BY <1>1, <1>6 DEF Sending
      <3>2. ~(position < start + Len(ready))
        BY <1>1, <3>1 DEF InRange
      <3> HIDE DEF made
      <3> QED BY <3>1, <3>2
    <2>2. max \in Nat /\ max > 0
      <3>1. left \in Nat /\ left > 0
        <4> HIDE DEF made
        <4> QED BY <1>2, <1>3, <2>1
      <3> HIDE DEF left
      <3>2. max = IF BufferSize <= left THEN BufferSize ELSE left
        BY <1>2, <3>1, MinOfTwo
      <3> QED BY <1>2, <3>1, <3>2
    <2> HIDE DEF max
    <2>3. Continues(g, called, max)
      BY <1>3, <2>2, CallbackFacts DEF called
    <2>4. CASE called.end
      <3>1. /\ state' = "CLOSED" /\ context' = Completed
            /\ response' = [response EXCEPT !.size = position]
        BY <1>4, <2>4 DEF ConnectionClose
      <3>2. AnswerInv'
        BY <3>1 DEF AnswerInv, BeforeCall, Reading, Answering
      <3>3. response'.kind = "generator"
        BY <1>1, <3>1 DEF Responses
      <3>4. generator'.output = g.output /\ made = Last(g.output)
        BY <1>4, <2>2, <2>3, <2>4 DEF Continues
      <3>5. Len(sent) = position
        BY <2>1, BytesFacts
      <3>6. (context' = None) <=> (context = None)
        BY <3>1, NoneAssumption DEF Inv, ControlInv, Completed
      <3>7. AnswerSize' = Last(generator'.output)
        BY <3>3 DEF AnswerSize
      <3>8. AnswerSize' = position
        <4> HIDE DEF made
        <4> QED BY <2>1, <3>4, <3>7
      <3>9. AnswerIsWhole'
        BY <2>1, <3>5, <3>6, <3>8 DEF AnswerIsWhole
      <3> QED BY <3>2, <3>9
    <2>5. CASE ~called.end
      <3>1. GeneratorOk(generator')
        BY <1>4, <2>3, <2>5 DEF Continues
      <3>2. PICK n \in 0 .. max :
               /\ ready' = Bytes(made + 1, n)
               /\ generator'.consumed + generator'.offset = made + n
        BY <1>4, <2>3, <2>5 DEF Continues
      <3>3. n \in Nat /\ made + 1 \in Nat
        BY <1>3, <2>2
      <3> HIDE DEF made
      <3>4. Len(ready') = n
        BY <3>2, <3>3, BytesFacts
      <3>5. /\ start' = position /\ position' = position /\ sent' = sent
            /\ UNCHANGED <<request, context, response>>
            /\ state' \in {"NORMAL_BODY_UNREADY", "NORMAL_BODY_READY"}
        BY <1>4, <2>5
      <3>6. /\ start' \in Nat /\ Len(ready') \in Nat
            /\ ready' = Bytes(start' + 1, Len(ready'))
            /\ start' <= position' /\ position' <= start' + Len(ready')
            /\ start' + Len(ready') = generator'.consumed + generator'.offset
        BY <2>1, <3>2, <3>3, <3>4, <3>5
      <3>7. Sending'
        BY <1>1, <1>3, <2>1, <3>1, <3>5, <3>6 DEF Sending
      <3> QED BY <3>5, <3>7 DEF AnswerInv, BeforeCall, Reading, Answering
    <2> QED BY <2>4, <2>5
  <1> QED BY <1>5, <1>6 DEF AnswerInv

(* As much is sent as the socket takes.                                    *)
LEMMA SendAnswer ==
  ASSUME Inv, AnswerInv, SendBody
  PROVE  AnswerInv'
  <1> DEFINE left == SubSeq(ready, position - start + 1, Len(ready))
  <1>1. /\ state = "NORMAL_BODY_READY"
        /\ state' = IF position' = response.size THEN "FOOTERS_SENT" ELSE state
        /\ UNCHANGED <<request, context, response, ready, start, generator>>
    BY DEF SendBody, Inv, ControlInv, requestVars
  <1>2. PICK n \in 0 .. Len(left) :
           /\ sent' = sent \o SubSeq(left, 1, n)
           /\ position' = position + n
    BY DEF SendBody
  <1>3. response \in Responses
    BY <1>1 DEF Inv, ControlInv, Answering
  <1>4. CASE Pretending
    <2>1. left = <<>>
      <3>1. CASE response.kind # "generator"
        <4>1. /\ response.size \in Nat /\ position = response.size /\ start = 0
              /\ ready = Bytes(1, response.size)
          BY <1>3, <1>4, <3>1 DEF Pretending, Responses
        <4>2. Len(ready) = position /\ position \in Nat
          BY <4>1, BytesFacts
        <4> QED BY <4>1, <4>2, SubSeqEmpty
      <3>2. CASE response.kind = "generator"
        <4>1. /\ ready = <<>> /\ position = SizeUnknown
              /\ start \in {0, SizeUnknown} /\ SizeUnknown \in Nat
          BY <1>4, <3>2, SizesAssumption DEF Pretending
        <4>2. Len(ready) = 0 /\ position - start + 1 \in Nat
              /\ 0 < position - start + 1
          BY <4>1
        <4> QED BY <4>2, SubSeqEmpty
      <3> QED BY <1>3, <3>1, <3>2 DEF Responses
    <2> HIDE DEF left
    <2>2. n = 0
      <3>1. Len(left) = 0
        BY <2>1
      <3> QED BY <3>1
    <2>3. sent = <<>> /\ SubSeq(<<>>, 1, 0) = <<>>
      BY <1>4, SubSeqEmpty DEF Pretending
    <2>4. sent' = <<>>
      BY <1>2, <2>1, <2>2, <2>3
    <2>5. position' = position
      <3>1. position \in Nat
        BY <1>3, <1>4 DEF Pretending, Responses
      <3> QED BY <1>2, <2>2, <3>1
    <2>6. Pretending'
      BY <1>1, <1>4, <2>4, <2>5 DEF Pretending
    <2> QED BY <1>1, <2>6 DEF AnswerInv, BeforeCall, Reading, Answering
  <1>5. CASE Sending
    <2> DEFINE z == Len(ready)
               k == position - start
    <2>1. /\ position \in Nat /\ start \in Nat /\ z \in Nat
          /\ start <= position /\ position <= start + z
          /\ sent = Bytes(1, position) /\ ready = Bytes(start + 1, z)
      BY <1>5 DEF Sending
    <2>2. k \in 0 .. z /\ start + k + 1 = position + 1
      BY <2>1
    <2>3. /\ Len(left) = z - k
          /\ \A m \in 0 .. z - k : SubSeq(left, 1, m) = Bytes(start + k + 1, m)
      <3> DEFINE rest == SubSeq(Bytes(start + 1, z), k + 1, z)
      <3> HIDE DEF z, k
      <3>1. /\ Len(rest) = z - k
            /\ \A m \in 0 .. z - k : SubSeq(rest, 1, m) = Bytes(start + k + 1, m)
        BY <2>1, <2>2, BytesSent
      <3>2. left = rest
        BY <2>1 DEF z, k
      <3> HIDE DEF left, rest
      <3> QED BY <3>1, <3>2
    <2> HIDE DEF left
    <2>4. n \in Nat /\ n <= z - k /\ n \in 0 .. z - k
      BY <2>1, <2>2, <2>3
    <2>5. sent' = Bytes(1, position + n)
      <3>1. SubSeq(left, 1, n) = Bytes(position + 1, n)
        BY <2>2, <2>3, <2>4
      <3>2. Bytes(1, position) \o Bytes(position + 1, n) = Bytes(1, position + n)
        BY <2>1, <2>4, BytesJoin
      <3> QED BY <1>2, <2>1, <3>1, <3>2
    <2>6. /\ position' \in Nat /\ start <= position' /\ position' <= start + z
      BY <1>2, <2>1, <2>2, <2>4
    <2>7. sent' = Bytes(1, position')
      BY <1>2, <2>5
    <2>8. Sending'
      BY <1>1, <1>5, <2>6, <2>7 DEF Sending
    <2> QED BY <1>1, <2>8 DEF AnswerInv, BeforeCall, Reading, Answering
  <1> QED BY <1>1, <1>4, <1>5 DEF AnswerInv, Answering

Early == BeforeCall \cup Reading \cup {"FOOTERS_RECEIVED"}

LEMMA AnswerIsEarly ==
  ASSUME AnswerInv, state \in Early, state' \in Early, UNCHANGED sent
  PROVE  AnswerInv'
  BY DEF AnswerInv, Early, BeforeCall, Reading, Answering

LEMMA ErrorAnswer ==
  ASSUME ControlInv, AnswerInv, AnswersError, state \in Early,
         UNCHANGED <<request, sent>>, (context' = None) <=> (context = None)
  PROVE  AnswerInv' /\ state' # "CLOSED"
  <1>1. PICK code \in ErrorCodes : TransmitError(code)
    BY DEF AnswersError
  <1>2. QueueResponse(code, "error", 1) /\ state' = "HEADERS_SENDING"
    BY <1>1 DEF TransmitError
  <1>3. state \notin Answering \cup {"CLOSED"}
    BY DEF Early, BeforeCall, Reading, Answering
  <1>4. AnswerInv'
    BY <1>2, <1>3, QueueAnswer
  <1> QED BY <1>2, <1>4

LEMMA AnswerStays ==
  ASSUME AnswerInv, AnswerIsWhole,
         UNCHANGED <<request, state, context, responseVars, sent, ending>>
  PROVE  AnswerInv' /\ AnswerIsWhole'
  <1>1. (Pretending <=> Pretending') /\ (Sending <=> Sending')
    BY DEF Pretending, Sending, responseVars
  <1>2. AnswerInv'
    BY <1>1 DEF AnswerInv
  <1>3. AnswerIsWhole'
    BY DEF AnswerIsWhole, Delivered, AnswerSize, responseVars
  <1> QED BY <1>2, <1>3

LEMMA AnswerStep ==
  ASSUME Inv, AnswerInv, AnswerIsWhole, MinGenerated > 0, [Next]_vars
  PROVE  AnswerInv' /\ AnswerIsWhole'
  <1>a. Inv' /\ ControlInv
    BY InvStep DEF Inv
  <1>b. SUFFICES AnswerInv' /\ (state' = "CLOSED" => AnswerIsWhole')
    BY <1>a, WholeNext
  <1>1. CASE Read
    <2>1. UNCHANGED <<request, state, context, responseVars, sent, ending>>
      BY <1>1 DEF Read, requestVars
    <2> QED BY <2>1, AnswerStays
  <1>2. CASE ReadEnd
    <2>1. /\ state' = "CLOSED" /\ context' = Completed
          /\ UNCHANGED <<request, sent>> /\ ending' = "client"
      BY <1>2 DEF ReadEnd, ConnectionClose
    <2> QED BY <1>a, <2>1, CloseAnswer
  <1>3. CASE SeeShutdown
    <2>1. /\ state' = "CLOSED" /\ context' = Completed
          /\ UNCHANGED <<request, sent>> /\ ending' = "shutdown"
      BY <1>3 DEF SeeShutdown, ConnectionClose
    <2> QED BY <1>a, <2>1, CloseAnswer
  <1>4. CASE WriteHeaders
    <2>1. CASE state = "CONTINUE_SENDING"
      <3>1. state' = "CONTINUE_SENT" /\ UNCHANGED sent
        BY <1>4, <2>1 DEF WriteHeaders
      <3> QED BY <2>1, <3>1, AnswerIsEarly DEF Early, Reading
    <2>2. CASE state = "HEADERS_SENDING"
      <3>1. /\ state' = "HEADERS_SENT"
            /\ UNCHANGED <<request, context, responseVars, sent>>
        BY <1>4, <2>2 DEF WriteHeaders, requestVars
      <3> QED BY <2>2, <3>1, AnswerMoves DEF Answering
    <2> QED BY <1>4, <2>1, <2>2 DEF WriteHeaders
  <1>5. CASE RefillBody
    <2>1. /\ state \in Answering /\ ~IsReady /\ CallReader
          /\ UNCHANGED <<request, position, sent>>
      BY <1>5 DEF RefillBody, Idle, Answering
    <2> QED BY <2>1, ReaderAnswer
  <1>6. CASE SendBody
    <2>1. state' # "CLOSED"
      BY <1>6, <1>a DEF SendBody, ControlInv
    <2> QED BY <1>6, <2>1, SendAnswer
  <1>7. CASE HeaderLine
    <2>1. <<state, state'>> \in LineSteps /\ UNCHANGED sent
      BY <1>7, HeaderLineFacts DEF HeaderLine, Inv
    <2> QED BY <2>1, AnswerIsEarly DEF Early, BeforeCall, Reading, LineSteps
  <1>8. CASE NoHeaderLine
    <2>1. UNCHANGED <<request, state, context, responseVars, sent, ending>>
      BY <1>8 DEF NoHeaderLine, requestVars, Wait
    <2> QED BY <2>1, AnswerStays
  <1>9. CASE MalformedFirstLine
    <2>1. /\ state' = "CLOSED" /\ context' = Completed
          /\ UNCHANGED <<request, sent>> /\ ending' = "error"
      BY <1>9 DEF MalformedFirstLine, ConnectionClose
    <2> QED BY <1>a, <2>1, CloseAnswer
  <1>10. CASE MalformedHeader
    <2>1. state \in Early /\ UNCHANGED <<request, sent>> /\ AnswersError
      BY <1>10, MalformedIsAnswered
         DEF MalformedHeader, HeaderStates, FooterStates, Early, BeforeCall, Reading
    <2>2. (context' = None) <=> (context = None)
      BY <1>10, <1>a, NoneAssumption DEF MalformedHeader, Completed, ControlInv, requestVars
    <2> QED BY <1>a, <2>1, <2>2, ErrorAnswer
  <1>11. CASE HeaderTooLarge \/ NoMemoryForBody
    <2>1. UNCHANGED <<request, context, sent>> /\ AnswersError
      BY <1>11, LackIsAnswered DEF requestVars
    <2>2. state \in Early
      BY <1>a, <1>11, LackStates DEF Early
    <2> QED BY <1>a, <2>1, <2>2, ErrorAnswer
  <1>12. CASE ParseHeaders
    <2>1. state \in Early /\ state' \in Early /\ UNCHANGED sent
      BY <1>12, <1>a DEF ParseHeaders, Idle, Becomes, Early, BeforeCall, Reading
    <2> QED BY <2>1, AnswerIsEarly DEF Early, BeforeCall, Reading
  <1>13. CASE FirstCall
    <2>1. state \in Early /\ state' \in Early /\ UNCHANGED sent
      BY <1>13, <1>a DEF FirstCall, Idle, Becomes, Early, BeforeCall, Reading
    <2> QED BY <2>1, AnswerIsEarly DEF Early, BeforeCall, Reading
  <1>14. CASE NothingToDo
    <2>1. UNCHANGED <<request, state, context, responseVars, sent, ending>>
      BY <1>14 DEF NothingToDo, requestVars, Wait
    <2> QED BY <2>1, AnswerStays
  <1>15. CASE EnterBody
    <2>1. UNCHANGED <<request, state, context, responseVars, sent, ending>>
      BY <1>15 DEF EnterBody, requestVars
    <2> QED BY <2>1, AnswerStays
  <1>16. CASE AfterBody
    <2>1. state \in Early /\ state' \in Early /\ UNCHANGED sent
      BY <1>16, <1>a DEF AfterBody, Idle, Becomes, Wait, ControlInv, Early, BeforeCall, Reading,
                   BodyIsRead
    <2> QED BY <2>1, AnswerIsEarly DEF Early, BeforeCall, Reading
  <1>17. CASE ChunkLine
    <2>1. CASE state' = "CLOSED"
      <3>1. /\ context' = Completed /\ ending' = "error"
            /\ UNCHANGED <<request, sent>>
        BY <1>17, <1>a, <2>1 DEF ChunkLine, ConnectionClose, ControlInv
      <3> QED BY <1>a, <2>1, <3>1, CloseAnswer
    <2>2. CASE state' # "CLOSED"
      <3>1. state = "CONTINUE_SENT" /\ UNCHANGED <<state, sent>>
        BY <1>17, <1>a, <2>2 DEF ChunkLine, ConnectionClose, ControlInv
      <3> QED BY <3>1, AnswerIsEarly DEF Early, Reading
    <2> QED BY <2>1, <2>2
  <1>18. CASE BodyCall
    <2>1. state \in Early /\ state' \in Early /\ UNCHANGED sent
      BY <1>18, <1>a DEF BodyCall, InChunk, ControlInv, Early, BeforeCall, Reading
    <2> QED BY <2>1, AnswerIsEarly DEF Early, BeforeCall, Reading
  <1>19. CASE PostCall
    <2>1. UNCHANGED <<request, state, context, responseVars, sent, ending>>
      BY <1>19 DEF PostCall, requestVars
    <2> QED BY <2>1, AnswerStays
  <1>20. CASE PostTurn
    <2>1. UNCHANGED <<request, state, context, responseVars, sent, ending>>
      BY <1>20 DEF PostTurn, requestVars
    <2> QED BY <2>1, AnswerStays
  <1>21. CASE ClosesUnanswered
    <2>1. /\ state' = "CLOSED" /\ context' = Completed
          /\ UNCHANGED <<request, sent>> /\ ending' = "error"
      BY <1>21, ClosingFacts DEF ConnectionClose
    <2> QED BY <1>a, <2>1, CloseAnswer
  <1>22. CASE FinalCall
    <2>1. /\ state = "FOOTERS_RECEIVED" /\ state' = "HEADERS_SENDING"
          /\ UNCHANGED <<request, context, sent>>
      BY <1>22 DEF FinalCall, Idle
    <2>2. state \notin Answering \cup {"CLOSED"}
      BY <2>1 DEF Answering
    <2>3. CASE Refuse
      <3>1. QueueResponse(Verdict, "buffer", 1)
        BY <2>3 DEF Refuse
      <3> QED BY <1>a, <2>1, <2>2, <3>1, QueueAnswer
    <2>4. CASE ServiceHandle
      <3>1. CASE \E size \in BodySizes : QueueResponse(200, "buffer", size)
        <4>1. PICK size \in BodySizes : QueueResponse(200, "buffer", size)
          BY <3>1
        <4>2. size \in Nat
          BY SizesAssumption
        <4> QED BY <1>a, <2>1, <2>2, <4>1, <4>2, QueueAnswer
      <3>2. CASE /\ QueueResponse(200, "generator", SizeUnknown)
                 /\ \E o \in Outputs : generator' = NewGenerator(o)
        <4>1. SizeUnknown \in Nat
          BY SizesAssumption
        <4> QED BY <1>a, <2>1, <2>2, <3>2, <4>1, QueueAnswer
      <3> QED BY <2>4, <3>1, <3>2 DEF ServiceHandle
    <2> QED BY <1>22, <2>3, <2>4 DEF FinalCall
  <1>23. CASE FinalCallFails
    <2>1. /\ state' = "CLOSED" /\ context' = Completed
          /\ UNCHANGED <<request, sent>> /\ ending' = "error"
      BY <1>23 DEF FinalCallFails, ConnectionClose
    <2> QED BY <1>a, <2>1, CloseAnswer
  <1>24. CASE HeadersSent
    <2>1. /\ state \in Answering /\ state' \in Answering
          /\ UNCHANGED <<request, context, responseVars, sent>>
          /\ state' \in {"BODY_SENT", "FOOTERS_SENT"} => state = "BODY_SENT"
      BY <1>24 DEF HeadersSent, Idle, Becomes, Answering, requestVars
    <2>2. state' \in {"BODY_SENT", "FOOTERS_SENT"} /\ Sending => position = response.size
      BY <2>1 DEF Sending
    <2> QED BY <2>1, <2>2, AnswerMoves DEF Answering
  <1>25. CASE UnreadyBody
    <2>1. /\ state \in Answering /\ state' \in Answering
          /\ UNCHANGED <<request, context, responseVars, sent>>
          /\ state' \in {"BODY_SENT", "FOOTERS_SENT"} => response.size = 0
      BY <1>25 DEF UnreadyBody, Idle, Becomes, Answering, requestVars
    <2>2. ASSUME response.size = 0, Sending
          PROVE  position = 0
      <3>1. response.kind # "generator"
        BY <1>a, <2>1, <2>2, SizesAssumption DEF Sending, ControlInv, Responses
      <3> QED BY <2>2, <3>1 DEF Sending
    <2> QED BY <2>1, <2>2, AnswerMoves DEF Answering
  <1>26. CASE ReadBody
    <2>1. /\ state \in Answering /\ ~IsReady /\ CallReader
          /\ UNCHANGED <<request, position, sent>>
      BY <1>26 DEF ReadBody, Idle, Answering
    <2> QED BY <2>1, ReaderAnswer
  <1>27. CASE BodySent
    <2>1. /\ state \in Answering /\ state' \in Answering
          /\ UNCHANGED <<request, context, responseVars, sent>>
          /\ state' \in {"BODY_SENT", "FOOTERS_SENT"} => state = "BODY_SENT"
      BY <1>27 DEF BodySent, Idle, Becomes, Answering, requestVars
    <2>2. state' \in {"BODY_SENT", "FOOTERS_SENT"} /\ Sending => position = response.size
      BY <2>1 DEF Sending
    <2> QED BY <2>1, <2>2, AnswerMoves DEF Answering
  <1>28. CASE FootersSent
    <2>1. /\ state' = "CLOSED" /\ context' = Completed
          /\ UNCHANGED <<request, sent>> /\ response' = None
      BY <1>28 DEF FootersSent, ConnectionClose
    <2> QED BY <1>a, <2>1, CloseAnswer
  <1>29. CASE Closed
    <2>1. /\ state = "CLOSED" /\ state' = "CLOSED" /\ response' = None
          /\ UNCHANGED <<request, context, sent>>
      BY <1>29 DEF Closed, Idle, requestVars
    <2> QED BY <2>1 DEF AnswerInv, AnswerIsWhole, BeforeCall, Reading, Answering
  <1>30. CASE PollTimesOut
    <2>1. UNCHANGED <<request, state, context, responseVars, sent, ending>>
      BY <1>30 DEF PollTimesOut, requestVars
    <2> QED BY <2>1, AnswerStays
  <1>31. CASE Leave
    <2>1. UNCHANGED <<request, state, context, responseVars, sent, ending>>
      BY <1>31 DEF Leave, requestVars
    <2> QED BY <2>1, AnswerStays
  <1>32. CASE Timeout
    <2>1. /\ state' = "CLOSED" /\ context' = Completed
          /\ UNCHANGED <<request, sent>> /\ ending' = "timeout"
      BY <1>32 DEF Timeout, ConnectionClose
    <2> QED BY <1>a, <2>1, CloseAnswer
  <1>33. CASE UNCHANGED vars
    <2>1. UNCHANGED <<request, state, context, responseVars, sent, ending>>
      BY <1>33 DEF vars, requestVars
    <2> QED BY <2>1, AnswerStays
  <1> QED BY <1>1, <1>2, <1>3, <1>4, <1>5, <1>6, <1>7, <1>8, <1>9, <1>10,
         <1>11, <1>12, <1>13, <1>14, <1>15, <1>16, <1>17, <1>18, <1>19, <1>20,
         <1>21, <1>22, <1>23, <1>24, <1>25, <1>26, <1>27, <1>28, <1>29, <1>30,
         <1>31, <1>32, <1>33
          DEF Next, Client, Write, ReceiveHeaders, ReceiveBody, Answer,
              ClosesUnanswered

(* The client gets a prefix of the answer without gap or repetition, and a *)
(* connection that is closed as completed has delivered all of it, however *)
(* the output of the generator grows and whatever the socket takes; a HEAD *)
(* request that was handled gets no body.  generate must be asked for at   *)
(* least one byte (set_min_generated), or the first time it has nothing    *)
(* ends the answer (rest_server.cpp:280-304).                              *)
THEOREM AnswerIsAlwaysWhole ==
  ASSUME MinGenerated > 0
  PROVE  Spec => []AnswerIsWhole
  <1>1. Inv /\ AnswerInv /\ AnswerIsWhole /\ [Next]_vars
        => AnswerInv' /\ AnswerIsWhole'
    BY AnswerStep
  <1> QED BY <1>1, InvHolds, AnswerInit, PTL DEF Spec

-----------------------------------------------------------------------------
(* Text that is escaped and unescaped again.  The provers do not know that *)
(* a literal is a string.                                                  *)
Characters == STRING \cup Special \cup {" ", "-"}
Unit == {"char"} \X Characters

UnescapedFrom(s, j, from) ==
  from = [i \in j .. Len(s) + 3 |->
            IF i > Len(s) THEN <<>>
            ELSE IF s[i] = Char("+") THEN <<Char(" ")>> \o from[i + 1]
            ELSE IF s[i] # Char("%") THEN <<s[i]>> \o from[i + 1]
            ELSE IF i + 2 > Len(s) THEN <<>>
            ELSE LET digits == <<s[i + 1][2], s[i + 2][2]>> IN
                 IF digits \in DOMAIN Hex
                 THEN <<Char(Hex[digits])>> \o from[i + 3]
                 ELSE <<s[i]>> \o from[i + 1]]

UnescapedAt(s, i, from) ==
  IF i > Len(s) THEN <<>>
  ELSE IF s[i] = Char("+") THEN <<Char(" ")>> \o from[i + 1]
  ELSE IF s[i] # Char("%") THEN <<s[i]>> \o from[i + 1]
  ELSE IF i + 2 > Len(s) THEN <<>>
  ELSE LET digits == <<s[i + 1][2], s[i + 2][2]>> IN
       IF digits \in DOMAIN Hex
       THEN <<Char(Hex[digits])>> \o from[i + 3]
       ELSE <<s[i]>> \o from[i + 1]

LEMMA UnescapedAgrees ==
  ASSUME NEW s, Len(s) \in Nat, NEW f, NEW g, NEW i \in Int,
         i <= Len(s) => f[i + 1] = g[i + 1] /\ f[i + 3] = g[i + 3]
  PROVE  UnescapedAt(s, i, f) = UnescapedAt(s, i, g)
  <1>1. CASE i > Len(s)
    BY <1>1, Zenon DEF UnescapedAt
  <1>2. CASE ~(i > Len(s))
    <2>1. f[i + 1] = g[i + 1] /\ f[i + 3] = g[i + 3]
      BY <1>2
    <2> QED BY <2>1, Zenon DEF UnescapedAt
  <1> QED BY <1>1, <1>2

LEMMA UnescapedExists ==
  ASSUME NEW s, Len(s) \in Nat, NEW m \in Nat, m <= Len(s) + 3
  PROVE  \E from : UnescapedFrom(s, Len(s) + 3 - m, from)
  <1> DEFINE top == Len(s) + 3
             without == {k \in Nat : k <= top /\ ~\E from : UnescapedFrom(s, top - k, from)}
  <1> SUFFICES ASSUME without # {} PROVE FALSE
    OBVIOUS
  <1>1. PICK least \in without : \A k \in without : least <= k
    <2>1. without \in SUBSET Nat
      OBVIOUS
    <2> HIDE DEF without
    <2> QED BY <2>1, LeastExists
  <1>2. /\ least \in Nat /\ least <= top /\ ~\E from : UnescapedFrom(s, top - least, from)
        /\ top \in Nat
    BY <1>1
  <1>3. least # 0
    <2> SUFFICES ASSUME least = 0 PROVE FALSE
      OBVIOUS
    <2> DEFINE f == [i \in top .. top |-> <<>>]
    <2>1. f = [i \in top .. top |-> UnescapedAt(s, i, f)]
      <3>1. \A i \in top .. top : i > Len(s)
        OBVIOUS
      <3> QED BY <3>1 DEF UnescapedAt
    <2>2. top - least = top
      BY <1>2
    <2>3. UnescapedFrom(s, top, f)
      <3> HIDE DEF f
      <3> QED BY <2>1 DEF UnescapedFrom, UnescapedAt
    <2> QED BY <1>2, <2>2, <2>3
  <1>4. PICK shorter : UnescapedFrom(s, top - (least - 1), shorter)
    <2>1. least - 1 \in Nat /\ least - 1 < least /\ least - 1 <= top
      BY <1>2, <1>3
    <2>2. least - 1 \notin without
      BY <1>1, <2>1
    <2> QED BY <2>1, <2>2
  <1> DEFINE j == top - least
             longer == [i \in j .. top |->
                          IF i = j THEN UnescapedAt(s, i, shorter) ELSE shorter[i]]
  <1>5. j \in Nat /\ top - (least - 1) = j + 1
    BY <1>2
  <1>6. ASSUME NEW i \in j + 1 .. top
        PROVE  longer[i] = shorter[i] /\ shorter[i] = UnescapedAt(s, i, shorter)
    <2>1. shorter = [k \in j + 1 .. top |-> UnescapedAt(s, k, shorter)]
      BY <1>4, <1>5 DEF UnescapedFrom, UnescapedAt
    <2>2. i \in j .. top /\ i # j
      BY <1>2
    <2> HIDE DEF j, top
    <2> QED BY <2>1, <2>2
  <1>7. ASSUME NEW i \in j .. top
        PROVE  longer[i] = UnescapedAt(s, i, longer)
    <2>1. i \in Int /\ (i <= Len(s) => i + 1 \in j + 1 .. top /\ i + 3 \in j + 1 .. top)
      BY <1>2
    <2>2. i <= Len(s) => longer[i + 1] = shorter[i + 1] /\ longer[i + 3] = shorter[i + 3]
      <3> HIDE DEF longer, j, top
      <3> QED BY <1>6, <2>1
    <2>3. UnescapedAt(s, i, longer) = UnescapedAt(s, i, shorter)
      <3> HIDE DEF longer, j, top
      <3> QED BY <2>1, <2>2, UnescapedAgrees
    <2>4. CASE i = j
      <3>1. longer[i] = UnescapedAt(s, i, shorter)
        BY <2>4
      <3> QED BY <2>3, <3>1
    <2>5. CASE i # j
      <3>1. i \in j + 1 .. top
        BY <1>2, <2>5
      <3> HIDE DEF longer, j, top
      <3> QED BY <1>6, <2>3, <3>1
    <2> QED BY <2>4, <2>5
  <1>8. UnescapedFrom(s, j, longer)
    <2>1. longer = [i \in j .. top |-> UnescapedAt(s, i, longer)]
      <3>1. DOMAIN longer = j .. top
        OBVIOUS
      <3>2. longer = [i \in j .. top |-> longer[i]]
        OBVIOUS
      <3> HIDE DEF longer
      <3> QED BY <1>7, <3>2
    <2> HIDE DEF longer
    <2> QED BY <2>1 DEF UnescapedFrom, UnescapedAt
  <1> QED BY <1>2, <1>8

LEMMA UnescapeFacts ==
  ASSUME NEW s, Len(s) \in Nat
  PROVE  \E from : /\ Unescape(s) = from[1]
                   /\ \A i \in 1 .. Len(s) + 3 : from[i] = UnescapedAt(s, i, from)
  <1> DEFINE from == CHOOSE f : UnescapedFrom(s, 1, f)
  <1>1. Unescape(s) = from[1]
    BY DEF Unescape, UnescapedFrom
  <1>2. UnescapedFrom(s, 1, from)
    <2>1. Len(s) + 2 \in Nat /\ Len(s) + 2 <= Len(s) + 3 /\ Len(s) + 3 - (Len(s) + 2) = 1
      OBVIOUS
    <2>2. \E f : UnescapedFrom(s, Len(s) + 3 - (Len(s) + 2), f)
      BY <2>1, UnescapedExists
    <2> QED BY <2>1, <2>2
  <1> HIDE DEF from
  <1>3. from = [i \in 1 .. Len(s) + 3 |-> UnescapedAt(s, i, from)]
    BY <1>2 DEF UnescapedFrom, UnescapedAt
  <1>4. \A i \in 1 .. Len(s) + 3 : from[i] = UnescapedAt(s, i, from)
    BY <1>3
  <1> QED BY <1>1, <1>4

(* What ends a key or a value, or begins an escape.                        *)
Endings == {Char("="), Char("&"), CR, LF}
Markers == Endings \cup {Char("%")}

(* The code of u is in E behind a: one unit, or an escape.                 *)
Single(u, E, a) ==
  /\ E[a + 1] \in Unit \ Markers
  /\ u = IF E[a + 1] = Char("+") THEN Char(" ") ELSE E[a + 1]

Triple(u, E, a) ==
  /\ E[a + 1] = Char("%")
  /\ E[a + 2] \in Unit \ Markers /\ E[a + 3] \in Unit \ Markers
  /\ <<E[a + 2][2], E[a + 3][2]>> \in DOMAIN Hex
  /\ u = Char(Hex[<<E[a + 2][2], E[a + 3][2]>>])

LEMMA CharFacts ==
  ASSUME NEW c
  PROVE  /\ Char(c)[2] = c
         /\ c \in Characters => Char(c) \in Unit
         /\ \A d : Char(c) = Char(d) => c = d
  BY DEF Char, Unit

LEMMA CharsAreUnits ==
  /\ Char("+") \in Unit /\ Char("%") \in Unit /\ Char(" ") \in Unit
  /\ Char("=") \in Unit /\ Char("&") \in Unit /\ CR \in Unit /\ LF \in Unit
  /\ Char("-") \in Unit
  <1>1. /\ "+" \in Characters /\ "%" \in Characters /\ " " \in Characters
        /\ "=" \in Characters /\ "&" \in Characters /\ "CR" \in Characters
        /\ "LF" \in Characters /\ "-" \in Characters
    BY DEF Characters, Special
  <1> QED BY <1>1, CharFacts DEF CR, LF

LEMMA UnitFacts ==
  ASSUME NEW u \in Unit
  PROVE  u = Char(u[2]) /\ u[2] \in Characters
  BY DEF Char, Unit

LEMMA TextIsUnits ==
  ASSUME NEW s \in Text
  PROVE  s \in Seq(Unit)
  <1>1. {"char"} \X STRING \subseteq Unit
    BY DEF Unit, Characters
  <1> QED BY <1>1, SeqMonotonic DEF Text

LEMMA MarkerFacts ==
  ASSUME NEW u \in Unit
  PROVE  /\ u \in Markers => u[2] \in Special
         /\ u \in Markers <=> u[2] \in Special \ {"+"}
  <1>1. u = Char(u[2]) /\ u[2] \in Characters
    BY UnitFacts
  <1>2. \A c : u = Char(c) <=> u[2] = c
    BY <1>1, CharFacts
  <1>3. u \in Markers <=> u[2] \in {"=", "&", "CR", "LF", "%"}
    BY <1>2 DEF Markers, Endings, CR, LF
  <1> QED BY <1>3 DEF Special

LEMMA EscapedFacts ==
  ASSUME NEW u \in Unit, u[2] \in Special => \E d \in DOMAIN Hex : Hex[d] = u[2]
  PROVE  /\ Escaped(u) \in Seq(Unit)
         /\ \/ Len(Escaped(u)) = 1 /\ Single(u, Escaped(u), 0)
            \/ Len(Escaped(u)) = 3 /\ Triple(u, Escaped(u), 0)
  <1>1. u = Char(u[2]) /\ u[2] \in Characters
    BY UnitFacts
  <1>2. CASE u = Char(" ")
    <2>1. Char("+") \in Unit /\ Char("+")[2] = "+"
      BY CharFacts, CharsAreUnits
    <2>2. Char("+") \notin Markers
      BY <2>1, MarkerFacts DEF Special
    <2>3. Escaped(u) = <<Char("+")>>
      BY <1>2 DEF Escaped
    <2>4. <<Char("+")>>[0 + 1] = Char("+")
      OBVIOUS
    <2>5. Single(u, <<Char("+")>>, 0)
      BY <1>2, <2>1, <2>2, <2>4 DEF Single
    <2>6. <<Char("+")>> \in Seq(Unit) /\ Len(<<Char("+")>>) = 1
      BY <2>1
    <2> QED BY <2>3, <2>5, <2>6
  <1>3. CASE u # Char(" ") /\ \E d \in DOMAIN Hex : Char(Hex[d]) = u
    <2> DEFINE d == CHOOSE d \in DOMAIN Hex : Char(Hex[d]) = u
    <2>1. d \in DOMAIN Hex /\ Char(Hex[d]) = u
      BY <1>3
    <2>2. Escaped(u) = <<Char("%")>> \o Chars(d)
      BY <1>3 DEF Escaped
    <2> HIDE DEF d
    <2>3. d \in STRING \X STRING /\ d[1] \notin Special /\ d[2] \notin Special
      BY <2>1, HexAssumption
    <2>4. d = <<d[1], d[2]>> /\ Len(d) = 2 /\ d[1] \in Characters /\ d[2] \in Characters
      <3>1. d = <<d[1], d[2]>> /\ Len(d) = 2 /\ d[1] \in STRING /\ d[2] \in STRING
        BY <2>3
      <3> QED BY <3>1 DEF Characters
    <2>5. Chars(d) = <<Char(d[1]), Char(d[2])>>
      BY <2>4 DEF Chars
    <2>6. /\ Char(d[1]) \in Unit /\ Char(d[2]) \in Unit /\ Char("%") \in Unit
          /\ Char(d[1])[2] = d[1] /\ Char(d[2])[2] = d[2]
      BY <2>4, CharFacts, CharsAreUnits
    <2>7. Char(d[1]) \notin Markers /\ Char(d[2]) \notin Markers
      BY <2>3, <2>6, MarkerFacts
    <2> DEFINE e == Escaped(u)
               first == <<Char("%")>>
               second == <<Char(d[1]), Char(d[2])>>
    <2>8. /\ e \in Seq(Unit) /\ Len(e) = 3 /\ e[1] = Char("%")
          /\ e[2] = Char(d[1]) /\ e[3] = Char(d[2])
      <3>1. /\ first \in Seq(Unit) /\ Len(first) = 1 /\ first[1] = Char("%")
            /\ second \in Seq(Unit) /\ Len(second) = 2
            /\ second[1] = Char(d[1]) /\ second[2] = Char(d[2])
        BY <2>6
      <3>2. e = first \o second
        BY <2>2, <2>5
      <3> HIDE DEF e, first, second
      <3>3. /\ first \o second \in Seq(Unit)
            /\ Len(first \o second) = Len(first) + Len(second)
            /\ \A i \in 1 .. Len(first) + Len(second) : (first \o second)[i] =
                 IF i <= Len(first) THEN first[i] ELSE second[i - Len(first)]
        BY <3>1, ConcatProperties
      <3> QED BY <3>1, <3>2, <3>3
    <2> HIDE DEF e
    <2>10. /\ e[0 + 1] = Char("%") /\ e[0 + 2] = Char(d[1]) /\ e[0 + 3] = Char(d[2])
      BY <2>8
    <2>11. Triple(u, e, 0)
      BY <2>1, <2>4, <2>6, <2>7, <2>10 DEF Triple
    <2> QED BY <2>8, <2>11 DEF e
  <1>4. CASE u # Char(" ") /\ ~\E d \in DOMAIN Hex : Char(Hex[d]) = u
    <2>1. Escaped(u) = <<u>>
      BY <1>4 DEF Escaped
    <2>2. u[2] \notin Special
      BY <1>1, <1>4
    <2>3. u \notin Markers /\ u # Char("+")
      <3>1. Char("+")[2] = "+"
        BY CharFacts
      <3> QED BY <2>2, <3>1, MarkerFacts DEF Special
    <2> QED BY <2>1, <2>3 DEF Single
  <1> QED BY <1>2, <1>3, <1>4

(* Where the codes of the units of a text are.                             *)
Spread(s, pos) ==
  /\ s \in Seq(Unit) /\ pos \in [0 .. Len(s) -> Nat] /\ pos[0] = 0
  /\ EscapedAll(s) \in Seq(Unit) /\ Len(EscapedAll(s)) = pos[Len(s)]
  /\ \A i \in 1 .. Len(s) :
       /\ pos[i] <= pos[Len(s)]
       /\ \/ pos[i] = pos[i - 1] + 1 /\ Single(s[i], EscapedAll(s), pos[i - 1])
          \/ pos[i] = pos[i - 1] + 3 /\ Triple(s[i], EscapedAll(s), pos[i - 1])

LEMMA SumsAre ==
  ASSUME NEW n \in Nat, NEW sizes, \A i \in 1 .. n : sizes[i] \in Nat
  PROVE  \E sums \in [0 .. n -> Nat] :
           sums[0] = 0 /\ \A i \in 1 .. n : sums[i] = sums[i - 1] + sizes[i]
  <1>1. PICK sums : SumsUpTo(n, sizes, sums)
    BY SumsExist
  <1>2. /\ sums[0] = 0 /\ \A i \in 1 .. n : sums[i] = sums[i - 1] + sizes[i]
        /\ sums = [i \in 0 .. n |-> sums[i]]
    <2>1. ASSUME NEW i \in 0 .. n
          PROVE  sums[i] = IF i = 0 THEN 0 ELSE sums[i - 1] + sizes[i]
      BY <1>1 DEF SumsUpTo
    <2>2. sums = [i \in 0 .. n |-> sums[i]]
      BY <1>1 DEF SumsUpTo
    <2>3. 0 \in 0 .. n /\ \A i \in 1 .. n : i \in 0 .. n /\ i # 0
      OBVIOUS
    <2> QED BY <2>1, <2>2, <2>3
  <1> DEFINE bad == {i \in Nat : i <= n /\ sums[i] \notin Nat}
  <1>3. bad = {}
    <2> SUFFICES ASSUME bad # {} PROVE FALSE
      OBVIOUS
    <2>1. PICK least \in bad : \A k \in bad : least <= k
      <3>1. bad \in SUBSET Nat
        OBVIOUS
      <3> HIDE DEF bad
      <3> QED BY <3>1, LeastExists
    <2>2. least \in Nat /\ least <= n /\ sums[least] \notin Nat
      BY <2>1
    <2>3. least # 0
      BY <1>2, <2>2
    <2>4. least - 1 \in Nat /\ least - 1 <= n /\ least - 1 < least /\ least \in 1 .. n
      BY <2>2, <2>3
    <2>5. least - 1 \notin bad
      BY <2>1, <2>4
    <2>6. sums[least - 1] \in Nat
      BY <2>4, <2>5
    <2>7. sums[least] = sums[least - 1] + sizes[least]
      BY <1>2, <2>4
    <2> QED BY <2>2, <2>4, <2>6, <2>7
  <1>4. \A i \in 0 .. n : sums[i] \in Nat
    <2>1. \A i \in 0 .. n : i \in Nat /\ i <= n
      OBVIOUS
    <2> QED BY <1>3, <2>1
  <1>5. sums \in [0 .. n -> Nat]
    BY <1>2, <1>4
  <1> QED BY <1>2, <1>5

LEMMA SpreadExists ==
  ASSUME NEW s \in Text, IsEscapable(s)
  PROVE  \E pos : Spread(s, pos)
  <1> DEFINE n == Len(s)
             codes == [i \in 1 .. n |-> Escaped(s[i])]
             E == EscapedAll(s)
  <1>1. s \in Seq(Unit) /\ n \in Nat /\ \A i \in 1 .. n : s[i] \in Unit
    BY TextIsUnits
  <1>2. ASSUME NEW i \in 1 .. n
        PROVE  /\ Escaped(s[i]) \in Seq(Unit) /\ Len(Escaped(s[i])) \in Nat
               /\ \/ Len(Escaped(s[i])) = 1 /\ Single(s[i], Escaped(s[i]), 0)
                  \/ Len(Escaped(s[i])) = 3 /\ Triple(s[i], Escaped(s[i]), 0)
    <2>1. s[i][2] \in Special => \E d \in DOMAIN Hex : Hex[d] = s[i][2]
      BY <1>1 DEF IsEscapable
    <2>2. s[i] \in Unit
      BY <1>1
    <2>3. /\ Escaped(s[i]) \in Seq(Unit)
          /\ \/ Len(Escaped(s[i])) = 1 /\ Single(s[i], Escaped(s[i]), 0)
             \/ Len(Escaped(s[i])) = 3 /\ Triple(s[i], Escaped(s[i]), 0)
      BY <2>1, <2>2, EscapedFacts
    <2> QED BY <2>3
  <1>3. PICK pos \in [0 .. n -> Nat] :
          pos[0] = 0 /\ \A i \in 1 .. n : pos[i] = pos[i - 1] + Len(codes[i])
    <2> DEFINE sizes == [i \in 1 .. n |-> Len(codes[i])]
    <2>1. \A i \in 1 .. n : sizes[i] \in Nat
      BY <1>2
    <2>2. PICK sums \in [0 .. n -> Nat] :
            sums[0] = 0 /\ \A i \in 1 .. n : sums[i] = sums[i - 1] + sizes[i]
      <3> HIDE DEF n, sizes
      <3> QED BY <1>1, <2>1, SumsAre
    <2>3. \A i \in 1 .. n : sizes[i] = Len(codes[i])
      OBVIOUS
    <2> HIDE DEF sizes, codes, n
    <2> QED BY <2>2, <2>3
  <1>4. Parts(Unit, n, codes, pos)
    <2>1. codes \in [1 .. n -> Seq(Unit)]
      BY <1>2
    <2> HIDE DEF codes, n
    <2> QED BY <1>1, <1>3, <2>1 DEF Parts
  <1>5. LaidOut(Unit, codes, pos, E, n)
    <2>1. E = FlattenSeq(codes)
      BY DEF EscapedAll
    <2> HIDE DEF codes, n, E
    <2> QED BY <1>4, <2>1, FlattenSeqFacts
  <1>6. E \in Seq(Unit) /\ Len(E) = pos[n]
    BY <1>5 DEF LaidOut
  <1>7. ASSUME NEW i \in 1 .. n
        PROVE  /\ pos[i] <= pos[n]
               /\ \/ pos[i] = pos[i - 1] + 1 /\ Single(s[i], E, pos[i - 1])
                  \/ pos[i] = pos[i - 1] + 3 /\ Triple(s[i], E, pos[i - 1])
    <2> DEFINE e == Escaped(s[i])
               a == pos[i - 1]
    <2>1. codes[i] = e
      OBVIOUS
    <2>2. pos[i] = a + Len(e) /\ pos[i] <= pos[n]
      <3>1. pos[i] <= pos[n]
        <4> HIDE DEF codes, E
        <4> QED BY <1>5 DEF LaidOut
      <3>2. pos[i] = pos[i - 1] + Len(codes[i])
        BY <1>3
      <3> QED BY <2>1, <3>1, <3>2
    <2>3. \A j \in 1 .. Len(e) : E[a + j] = e[j]
      <3>1. \A j \in 1 .. Len(codes[i]) : E[pos[i - 1] + j] = codes[i][j]
        <4> HIDE DEF codes, E
        <4> QED BY <1>5 DEF LaidOut
      <3> QED BY <2>1, <3>1
    <2>4. \/ Len(e) = 1 /\ Single(s[i], e, 0)
          \/ Len(e) = 3 /\ Triple(s[i], e, 0)
      BY <1>2
    <2> HIDE DEF e, a, E, codes, n
    <2>5. 0 + 1 = 1 /\ 0 + 2 = 2 /\ 0 + 3 = 3
      OBVIOUS
    <2>6. CASE Len(e) = 1 /\ Single(s[i], e, 0)
      <3>1. E[a + 1] = e[1]
        BY <2>3, <2>6
      <3>2. Single(s[i], E, a)
        BY <2>5, <2>6, <3>1 DEF Single
      <3> QED BY <2>2, <2>6, <3>2 DEF a
    <2>7. CASE Len(e) = 3 /\ Triple(s[i], e, 0)
      <3>1. E[a + 1] = e[1] /\ E[a + 2] = e[2] /\ E[a + 3] = e[3]
        BY <2>3, <2>7
      <3>2. Triple(s[i], E, a)
        BY <2>5, <2>7, <3>1 DEF Triple
      <3> QED BY <2>2, <2>7, <3>2 DEF a
    <2> QED BY <2>4, <2>6, <2>7
  <1>8. Spread(s, pos)
    <2> HIDE DEF codes
    <2> QED BY <1>1, <1>3, <1>6, <1>7 DEF Spread
  <1> QED BY <1>8

(* What is cut out of a sequence.                                          *)
LEMMA CutFacts ==
  ASSUME NEW S, NEW s \in Seq(S), NEW a \in Nat, NEW b \in Nat, a <= b, b <= Len(s)
  PROVE  /\ SubSeq(s, a + 1, b) \in Seq(S) /\ Len(SubSeq(s, a + 1, b)) = b - a
         /\ \A i \in 1 .. b - a : SubSeq(s, a + 1, b)[i] = s[a + i]
  <1>1. Len(s) \in Nat /\ \A i \in 1 .. Len(s) : s[i] \in S
    OBVIOUS
  <1>2. \A i \in a + 1 .. b : s[i] \in S
    BY <1>1
  <1>3. a + 1 \in Int /\ b \in Int
    OBVIOUS
  <1>4. /\ SubSeq(s, a + 1, b) \in Seq(S)
        /\ Len(SubSeq(s, a + 1, b)) = IF a + 1 <= b THEN b - (a + 1) + 1 ELSE 0
        /\ \A i \in 1 .. b - (a + 1) + 1 : SubSeq(s, a + 1, b)[i] = s[a + 1 + i - 1]
    BY <1>2, <1>3, SubSeqProperties
  <1>5. b - (a + 1) + 1 = b - a /\ \A i \in Int : a + 1 + i - 1 = a + i
    OBVIOUS
  <1>6. (IF a + 1 <= b THEN b - (a + 1) + 1 ELSE 0) = b - a
    OBVIOUS
  <1> HIDE <1>1, <1>2
  <1>7. Len(SubSeq(s, a + 1, b)) = b - a
    BY <1>4, <1>6
  <1>8. ASSUME NEW i \in 1 .. b - a
        PROVE  SubSeq(s, a + 1, b)[i] = s[a + i]
    <2>1. i \in 1 .. b - (a + 1) + 1 /\ i \in Int
      BY <1>5
    <2>2. SubSeq(s, a + 1, b)[i] = s[a + 1 + i - 1]
      BY <1>4, <2>1
    <2> QED BY <1>5, <2>1, <2>2
  <1> QED BY <1>4, <1>7, <1>8

CutTaken(S, s, a, b) ==
  /\ SubSeq(s, a + 1, b) \in Seq(S) /\ Len(SubSeq(s, a + 1, b)) = b - a
  /\ \A i \in 1 .. b - a : SubSeq(s, a + 1, b)[i] = s[a + i]

LEMMA CutIsTaken ==
  ASSUME NEW S, NEW s \in Seq(S), NEW a \in Nat, NEW b \in Nat, a <= b, b <= Len(s)
  PROVE  CutTaken(S, s, a, b)
  BY CutFacts DEF CutTaken

LEMMA SameCut ==
  ASSUME NEW S, NEW s \in Seq(S), NEW t \in Seq(S), Len(s) = Len(t),
         \A i \in 1 .. Len(s) : s[i] = t[i]
  PROVE  s = t
  BY SeqEqual

LEMMA ConsCut ==
  ASSUME NEW S, NEW s \in Seq(S), NEW a \in Nat, NEW b \in Nat, a < b, b <= Len(s)
  PROVE  <<s[a + 1]>> \o SubSeq(s, a + 2, b) = SubSeq(s, a + 1, b)
  <1>1. a + 1 \in Nat /\ a + 1 <= b /\ a + 1 + 1 = a + 2 /\ a + 1 <= Len(s) /\ a <= b
        /\ 1 + (b - (a + 1)) = b - a
    OBVIOUS
  <1> DEFINE t == SubSeq(s, a + 2, b)
             x == <<s[a + 1]>>
             w == SubSeq(s, a + 1, b)
  <1>2. /\ t \in Seq(S) /\ Len(t) = b - (a + 1)
        /\ \A i \in 1 .. b - (a + 1) : t[i] = s[a + 1 + i]
    <2>1. /\ SubSeq(s, a + 1 + 1, b) \in Seq(S) /\ Len(SubSeq(s, a + 1 + 1, b)) = b - (a + 1)
          /\ \A i \in 1 .. b - (a + 1) : SubSeq(s, a + 1 + 1, b)[i] = s[a + 1 + i]
      BY <1>1, CutFacts
    <2> QED BY <1>1, <2>1
  <1>3. /\ w \in Seq(S) /\ Len(w) = b - a /\ \A i \in 1 .. b - a : w[i] = s[a + i]
    BY <1>1, CutFacts
  <1>4. x \in Seq(S) /\ Len(x) = 1 /\ x[1] = s[a + 1]
    <2>1. a + 1 \in 1 .. Len(s)
      BY <1>1
    <2>2. s[a + 1] \in S
      BY <2>1
    <2> QED BY <2>2
  <1> HIDE DEF t, x, w
  <1>5. /\ x \o t \in Seq(S) /\ Len(x \o t) = Len(x) + Len(t)
        /\ \A i \in 1 .. Len(x) + Len(t) : (x \o t)[i] =
             IF i <= Len(x) THEN x[i] ELSE t[i - Len(x)]
    <2>1. x \in Seq(S) /\ t \in Seq(S)
      BY <1>2, <1>4
    <2> QED BY <2>1, ConcatProperties
  <1>6. ASSUME NEW i \in 1 .. b - a
        PROVE  (x \o t)[i] = w[i]
    <2>1. i \in 1 .. Len(x) + Len(t)
      BY <1>1, <1>2, <1>4
    <2>2. CASE i = 1
      BY <1>3, <1>4, <1>5, <2>1, <2>2
    <2>3. CASE i # 1
      <3>1. ~(i <= Len(x)) /\ i - Len(x) = i - 1 /\ i - 1 \in 1 .. b - (a + 1)
            /\ a + 1 + (i - 1) = a + i
        BY <1>4, <2>3
      <3>2. t[i - 1] = s[a + 1 + (i - 1)]
        BY <1>2, <3>1
      <3> QED BY <1>3, <1>5, <2>1, <3>1, <3>2
    <2> QED BY <2>2, <2>3
  <1>7. Len(x \o t) = Len(w)
    BY <1>1, <1>2, <1>3, <1>4, <1>5
  <1>8. x \o t = w
    BY <1>3, <1>5, <1>6, <1>7, SameCut
  <1> QED BY <1>8 DEF t, x, w

LEMMA SpreadFacts ==
  ASSUME NEW s, NEW pos, Spread(s, pos), NEW i \in 1 .. Len(s)
  PROVE  /\ pos[i] \in Nat /\ pos[i - 1] \in Nat /\ i \in Nat /\ i - 1 \in 0 .. Len(s)
         /\ pos[i - 1] < pos[i] /\ pos[i] <= Len(EscapedAll(s))
         /\ s[i] \in Unit /\ Len(s) \in Nat
         /\ pos[i] = pos[i - 1] + 1 \/ pos[i] = pos[i - 1] + 3
  <1>1. Len(s) \in Nat /\ i - 1 \in 0 .. Len(s) /\ i \in 0 .. Len(s) /\ i \in Nat
    BY DEF Spread
  <1>2. pos[i] \in Nat /\ pos[i - 1] \in Nat
    BY <1>1 DEF Spread
  <1>3. pos[i] = pos[i - 1] + 1 \/ pos[i] = pos[i - 1] + 3
    BY DEF Spread
  <1>4. pos[i] <= Len(EscapedAll(s)) /\ s[i] \in Unit
    BY DEF Spread
  <1> QED BY <1>1, <1>2, <1>3, <1>4

LEMMA SpreadGrows ==
  ASSUME NEW s, NEW pos, Spread(s, pos), NEW i \in 0 .. Len(s), NEW j \in i .. Len(s)
  PROVE  pos[i] <= pos[j] /\ pos[i] \in Nat /\ pos[j] \in Nat /\ pos[j] <= Len(EscapedAll(s))
  <1>0. Len(s) \in Nat /\ i \in Nat /\ j \in Nat /\ \A k \in 0 .. Len(s) : pos[k] \in Nat
    <2>1. s \in Seq(Unit) /\ pos \in [0 .. Len(s) -> Nat]
      BY DEF Spread
    <2>2. Len(s) \in Nat
      BY <2>1
    <2>3. i \in Nat /\ j \in Nat
      BY <2>2
    <2> QED BY <2>1, <2>2, <2>3
  <1> DEFINE bad == {k \in Nat : k \in i .. Len(s) /\ ~(pos[i] <= pos[k])}
  <1>1. bad = {}
    <2> SUFFICES ASSUME bad # {} PROVE FALSE
      OBVIOUS
    <2>1. PICK least \in bad : \A k \in bad : least <= k
      <3>1. bad \in SUBSET Nat
        OBVIOUS
      <3> HIDE DEF bad
      <3> QED BY <3>1, LeastExists
    <2>2. least \in Nat /\ least \in i .. Len(s) /\ ~(pos[i] <= pos[least])
      BY <2>1
    <2>3. least # i
      BY <1>0, <2>2
    <2>4. least - 1 \in Nat /\ least - 1 \in i .. Len(s) /\ least - 1 < least
          /\ least \in 1 .. Len(s)
      BY <1>0, <2>2, <2>3
    <2>5. pos[i] <= pos[least - 1]
      <3>1. least - 1 \notin bad
        BY <2>1, <2>4
      <3> QED BY <2>4, <3>1
    <2>6. pos[least - 1] < pos[least] /\ pos[least] \in Nat /\ pos[least - 1] \in Nat
      BY <2>4, SpreadFacts
    <2>7. pos[i] \in Nat
      BY <1>0
    <2> QED BY <2>2, <2>5, <2>6, <2>7
  <1>2. pos[i] <= pos[j] /\ pos[i] \in Nat /\ pos[j] \in Nat
    BY <1>0, <1>1
  <1>3. pos[j] <= Len(EscapedAll(s))
    <2>1. CASE j = 0
      BY <2>1 DEF Spread
    <2>2. CASE j # 0
      <3>1. j \in 1 .. Len(s)
        BY <1>0, <2>2
      <3> QED BY <3>1, SpreadFacts
    <2> QED BY <2>1, <2>2
  <1> QED BY <1>2, <1>3

LEMMA ThreeUnits ==
  ASSUME NEW i \in Nat, NEW p \in Nat, NEW q \in Nat, NEW n \in Nat,
         q = p + 3, i + (q - p) <= n + 1
  PROVE  i + 2 <= n /\ i + 1 <= n /\ i + (q - p) = i + 3 /\ ~(i + 2 > n)
  OBVIOUS

LEMMA UnitsAhead ==
  ASSUME NEW i \in Nat, NEW p \in Nat, NEW q \in Nat, NEW n \in Nat, NEW A \in Nat, NEW B \in Nat,
         A <= p, p < q, q <= B, n = B - A, i = p - A + 1
  PROVE  /\ i + (q - p) <= n + 1 /\ i + (q - p) = q - A + 1
         /\ \A j \in 0 .. 2 : i + j <= n => i + j \in 1 .. B - A /\ A + (i + j) = p + 1 + j
  <1>1. q - p \in Nat /\ i - 1 = p - A /\ p - A \in Nat
    OBVIOUS
  <1>2. i + (q - p) = q - A + 1
    OBVIOUS
  <1>3. q - A <= n
    OBVIOUS
  <1>4. ASSUME NEW j \in 0 .. 2, i + j <= n
        PROVE  i + j \in 1 .. B - A /\ A + (i + j) = p + 1 + j
    <2>1. j \in Nat /\ i >= 1
      BY <1>1
    <2>2. i + j \in Nat /\ i + j >= 1 /\ i + j <= B - A
      BY <1>4, <2>1
    <2>3. A + i = p + 1
      OBVIOUS
    <2> QED BY <2>1, <2>2, <2>3
  <1> QED BY <1>2, <1>3, <1>4

CodeIsAt(x, n, i, E, p) == \A j \in 0 .. 2 : i + j <= n => x[i + j] = E[p + 1 + j]
UnescapesAt(x, i, from) == from[i] = UnescapedAt(x, i, from)

UnescapesUnit(s, c, from, i, p, q) == from[i] = <<s[c + 1]>> \o from[i + (q - p)]
IsPlaced(s, pos, c, p, q) ==
  /\ Spread(s, pos) /\ c \in Nat /\ c + 1 \in 1 .. Len(s)
  /\ p \in Nat /\ q \in Nat /\ p = pos[c] /\ q = pos[c + 1]
IsReached(x, n, i, p, q) ==
  n \in Nat /\ n = Len(x) /\ i \in Nat /\ i >= 1 /\ i + (q - p) <= n + 1

LEMMA UnescapeStep ==
  ASSUME NEW s, NEW pos, NEW c, NEW p, NEW q, IsPlaced(s, pos, c, p, q),
         NEW x, NEW n, NEW i, IsReached(x, n, i, p, q),
         CodeIsAt(x, n, i, EscapedAll(s), p), NEW from, UnescapesAt(x, i, from)
  PROVE  UnescapesUnit(s, c, from, i, p, q)
  <1>0. /\ Spread(s, pos) /\ c \in Nat /\ c + 1 \in 1 .. Len(s)
        /\ p \in Nat /\ q \in Nat /\ p = pos[c] /\ q = pos[c + 1]
        /\ n \in Nat /\ n = Len(x) /\ i \in Nat /\ i >= 1 /\ i + (q - p) <= n + 1
    BY DEF IsPlaced, IsReached
  <1> USE <1>0
  <1> DEFINE E == EscapedAll(s)
  <1> DEFINE u == s[c + 1]
  <1>1. \/ q = p + 1 /\ Single(u, E, p)
        \/ q = p + 3 /\ Triple(u, E, p)
    <2>1. \/ pos[c + 1] = pos[c + 1 - 1] + 1 /\ Single(u, EscapedAll(s), pos[c + 1 - 1])
          \/ pos[c + 1] = pos[c + 1 - 1] + 3 /\ Triple(u, EscapedAll(s), pos[c + 1 - 1])
      <3> HIDE DEF u, E
      <3>1. \A k \in 1 .. Len(s) :
              \/ pos[k] = pos[k - 1] + 1 /\ Single(s[k], EscapedAll(s), pos[k - 1])
              \/ pos[k] = pos[k - 1] + 3 /\ Triple(s[k], EscapedAll(s), pos[k - 1])
        BY DEF Spread
      <3>2. PICK k \in 1 .. Len(s) : k = c + 1
        OBVIOUS
      <3> QED BY <3>1, <3>2 DEF u
    <2>2. c + 1 - 1 = c
      OBVIOUS
    <2> HIDE DEF u
    <2> QED BY <2>1, <2>2 DEF E
  <1> HIDE DEF u, E
  <1>2. i <= n /\ ~(i > Len(x))
    <2>1. q = p + 1 \/ q = p + 3
      BY <1>1
    <2>2. i <= n
      BY <2>1
    <2> QED BY <2>2
  <1>3. x[i] = E[p + 1]
    <2>1. i + 0 <= n /\ 0 \in 0 .. 2 /\ i + 0 = i /\ p + 1 + 0 = p + 1
      BY <1>2
    <2>2. x[i + 0] = E[p + 1 + 0]
      BY <2>1 DEF CodeIsAt, E
    <2> QED BY <2>1, <2>2
  <1>4. CASE q = p + 1 /\ Single(u, E, p)
    <2>1. x[i] \in Unit \ Markers /\ u = IF x[i] = Char("+") THEN Char(" ") ELSE x[i]
      BY <1>3, <1>4 DEF Single
    <2>2. x[i] # Char("%")
      BY <2>1 DEF Markers
    <2>3. from[i] = <<u>> \o from[i + 1]
      <3>1. CASE x[i] = Char("+")
        BY <1>2, <2>1, <3>1 DEF UnescapesAt, UnescapedAt
      <3>2. CASE x[i] # Char("+")
        BY <1>2, <2>1, <2>2, <3>2 DEF UnescapesAt, UnescapedAt
      <3> QED BY <3>1, <3>2
    <2>4. i + (q - p) = i + 1
      BY <1>4
    <2> QED BY <2>3, <2>4 DEF u, UnescapesUnit
  <1>5. CASE q = p + 3 /\ Triple(u, E, p)
    <2>1. i + 2 <= n /\ i + 1 <= n /\ ~(i + 2 > Len(x)) /\ i + (q - p) = i + 3
      <3>1. q = p + 3
        BY <1>5
      <3>2. i + 2 <= n /\ i + 1 <= n /\ i + (q - p) = i + 3 /\ ~(i + 2 > n)
        BY <3>1, ThreeUnits
      <3> QED BY <3>2
    <2>2. x[i + 1] = E[p + 2] /\ x[i + 2] = E[p + 3]
      <3>1. 1 \in 0 .. 2 /\ 2 \in 0 .. 2 /\ p + 1 + 1 = p + 2 /\ p + 1 + 2 = p + 3
        OBVIOUS
      <3>2. x[i + 1] = E[p + 1 + 1] /\ x[i + 2] = E[p + 1 + 2]
        BY <2>1, <3>1 DEF CodeIsAt, E
      <3> QED BY <3>1, <3>2
    <2>3. x[i] = Char("%") /\ x[i] # Char("+")
      <3>1. Char("%") # Char("+")
        <4>1. "%" # "+"
          OBVIOUS
        <4> QED BY <4>1, CharFacts
      <3> QED BY <1>3, <1>5, <3>1 DEF Triple
    <2> DEFINE digits == <<x[i + 1][2], x[i + 2][2]>>
    <2>4. digits \in DOMAIN Hex /\ u = Char(Hex[digits])
      BY <1>5, <2>2 DEF Triple
    <2>5. from[i] = <<u>> \o from[i + 3]
      BY <1>2, <2>1, <2>3, <2>4 DEF UnescapesAt, UnescapedAt
    <2> QED BY <2>1, <2>5 DEF u, UnescapesUnit
  <1> QED BY <1>1, <1>4, <1>5

(* What was escaped is unescaped.                                          *)
LEMMA UnescapeAgain ==
  ASSUME NEW s, NEW pos, Spread(s, pos), NEW a \in 0 .. Len(s), NEW b \in a .. Len(s)
  PROVE  Unescape(SubSeq(EscapedAll(s), pos[a] + 1, pos[b])) = SubSeq(s, a + 1, b)
  <1>1. PICK E : E = EscapedAll(s)
    OBVIOUS
  <1>2. /\ Len(s) \in Nat /\ a \in Nat /\ b \in Nat /\ a <= b /\ b <= Len(s)
        /\ s \in Seq(Unit) /\ E \in Seq(Unit) /\ Len(E) \in Nat
    BY <1>1 DEF Spread
  <1>3. \A k \in a .. b : pos[k] \in Nat /\ pos[a] <= pos[k] /\ pos[k] <= pos[b]
    <2> TAKE k \in a .. b
    <2>1. k \in a .. Len(s) /\ k \in 0 .. Len(s) /\ b \in k .. Len(s)
      BY <1>2
    <2>2. pos[a] <= pos[k] /\ pos[k] \in Nat
      BY <2>1, SpreadGrows
    <2>3. pos[k] <= pos[b]
      BY <2>1, SpreadGrows
    <2> QED BY <2>2, <2>3
  <1>4. PICK A, B : A = pos[a] /\ B = pos[b]
    OBVIOUS
  <1>5. A \in Nat /\ B \in Nat /\ A <= B /\ B <= Len(E)
    BY <1>1, <1>4, SpreadGrows
  <1>6. PICK x : x = SubSeq(E, A + 1, B)
    OBVIOUS
  <1>7. /\ x \in Seq(Unit) /\ Len(x) = B - A
        /\ \A i \in 1 .. B - A : x[i] = E[A + i]
    <2>1. /\ SubSeq(E, A + 1, B) \in Seq(Unit) /\ Len(SubSeq(E, A + 1, B)) = B - A
          /\ \A i \in 1 .. B - A : SubSeq(E, A + 1, B)[i] = E[A + i]
      BY <1>2, <1>5, CutFacts
    <2> QED BY <1>6, <2>1
  <1>70. PICK n \in Nat : n = Len(x) /\ n = B - A
    BY <1>5, <1>7
  <1>8. PICK from : /\ Unescape(x) = from[1]
                    /\ \A i \in 1 .. n + 3 : UnescapesAt(x, i, from)
    BY <1>70, UnescapeFacts DEF UnescapesAt
  <1> DEFINE Right(k) == from[pos[k] - A + 1] = SubSeq(s, k + 1, b)
             wrong == {k \in Nat : k <= b - a /\ ~Right(b - k)}
  <1>9. wrong = {}
    <2> SUFFICES ASSUME wrong # {} PROVE FALSE
      OBVIOUS
    <2>1. PICK least \in wrong : \A k \in wrong : least <= k
      <3>1. wrong \in SUBSET Nat
        OBVIOUS
      <3> HIDE DEF wrong
      <3> QED BY <3>1, LeastExists
    <2>2. least \in Nat /\ least <= b - a /\ ~Right(b - least)
      BY <2>1
    <2>3. least # 0 => least - 1 \in Nat /\ Right(b - (least - 1))
      <3> SUFFICES ASSUME least # 0
                   PROVE  least - 1 \in Nat /\ Right(b - (least - 1))
        OBVIOUS
      <3> HIDE DEF Right
      <3>1. least - 1 \in Nat /\ least - 1 <= b - a /\ least - 1 < least
        BY <1>2, <2>2
      <3>2. least - 1 \notin wrong
        <4> HIDE DEF wrong
        <4> QED BY <2>1, <2>2, <3>1
      <3> QED BY <3>1, <3>2
    <2> HIDE DEF wrong, Right
    <2>4. PICK at \in a .. b : at = b - least
      BY <1>2, <2>2
    <2>5. at \in Nat /\ ~Right(at) /\ at <= b
      BY <1>2, <2>2, <2>4
    <2>6. PICK p \in Nat : p = pos[at] /\ A <= p /\ p <= B
      BY <1>3, <1>4, <2>4
    <2>7. PICK i \in Nat : i = p - A + 1 /\ i >= 1
      BY <1>5, <2>6
    <2>8. i <= n + 1 /\ i \in 1 .. n + 3
      BY <1>5, <1>70, <2>6, <2>7
    <2>9. UnescapesAt(x, i, from)
      BY <1>8, <2>8
    <2>10. CASE least = 0
      <3>1. at = b /\ p = B /\ i > Len(x) /\ at + 1 > b
        <4>1. at = b /\ at + 1 > b
          BY <1>2, <2>4, <2>10
        <4>2. p = B
          BY <1>4, <2>6, <4>1
        <4>3. i > n
          BY <1>5, <1>70, <2>7, <4>2
        <4> QED BY <1>70, <4>1, <4>2, <4>3
      <3>2. from[i] = <<>>
        BY <2>9, <3>1 DEF UnescapesAt, UnescapedAt
      <3>3. SubSeq(s, at + 1, b) = <<>>
        <4>1. at + 1 \in Int /\ b \in Int
          BY <1>2, <2>5
        <4> QED BY <1>2, <3>1, <4>1, SubSeqEmpty
      <3> QED BY <2>5, <2>6, <2>7, <3>2, <3>3 DEF Right
    <2>11. CASE least # 0
      <3>1. at + 1 \in a .. b /\ at + 1 \in 1 .. Len(s) /\ b - (least - 1) = at + 1 /\ at < b
            /\ at + 1 + 1 = at + 2
        BY <1>2, <2>2, <2>4, <2>11
      <3>2. Right(at + 1)
        BY <2>3, <2>11, <3>1
      <3>3. PICK q \in Nat : q = pos[at + 1] /\ q <= B
        BY <1>3, <1>4, <3>1
      <3>4. p < q
        <4>1. pos[at + 1 - 1] < pos[at + 1]
          BY <3>1, SpreadFacts
        <4>2. at + 1 - 1 = at
          BY <2>5
        <4> QED BY <2>6, <3>3, <4>1, <4>2
      <3>50. /\ A \in Nat /\ B \in Nat /\ A <= p /\ p < q /\ q <= B /\ n = B - A
             /\ i = p - A + 1
        BY <1>5, <1>70, <2>6, <2>7, <3>3, <3>4
      <3>5. i + (q - p) <= n + 1 /\ i + (q - p) = q - A + 1
        BY <3>50, UnitsAhead
      <3>6. CodeIsAt(x, n, i, E, p)
        <4> SUFFICES ASSUME NEW j \in 0 .. 2, i + j <= n
                     PROVE  x[i + j] = E[p + 1 + j]
          BY DEF CodeIsAt
        <4>1. i + j \in 1 .. B - A /\ A + (i + j) = p + 1 + j
          <5>1. \A k \in 0 .. 2 : i + k <= n => i + k \in 1 .. B - A /\ A + (i + k) = p + 1 + k
            BY <3>50, UnitsAhead
          <5> QED BY <5>1
        <4> QED BY <1>7, <4>1
      <3>7. from[i] = <<s[at + 1]>> \o from[i + (q - p)]
        <4>1. IsPlaced(s, pos, at, p, q)
          BY <2>5, <2>6, <3>1, <3>3 DEF IsPlaced
        <4>2. IsReached(x, n, i, p, q)
          BY <1>70, <2>7, <3>5 DEF IsReached
        <4>3. CodeIsAt(x, n, i, EscapedAll(s), p)
          BY <1>1, <3>6
        <4>4. UnescapesUnit(s, at, from, i, p, q)
          BY <2>9, <4>1, <4>2, <4>3, UnescapeStep
        <4> QED BY <4>4 DEF UnescapesUnit
      <3>8. from[q - A + 1] = SubSeq(s, at + 2, b)
        BY <3>1, <3>2, <3>3 DEF Right
      <3>9. <<s[at + 1]>> \o SubSeq(s, at + 2, b) = SubSeq(s, at + 1, b)
        BY <1>2, <2>5, <3>1, ConsCut
      <3>10. from[i] = SubSeq(s, at + 1, b)
        BY <3>5, <3>7, <3>8, <3>9
      <3> QED BY <2>5, <2>6, <2>7, <3>10 DEF Right
    <2> QED BY <2>10, <2>11
  <1>10. Right(a)
    <2> HIDE DEF Right
    <2>1. b - a \in Nat /\ b - a <= b - a /\ b - (b - a) = a
      BY <1>2
    <2>2. Right(b - (b - a))
      BY <1>9, <2>1
    <2> QED BY <2>1, <2>2
  <1>11. pos[a] - A + 1 = 1
    BY <1>4, <1>5
  <1> QED BY <1>1, <1>4, <1>6, <1>8, <1>10, <1>11

LEMMA NoEndings ==
  ASSUME NEW s, NEW pos, Spread(s, pos), NEW i \in 1 .. Len(EscapedAll(s))
  PROVE  EscapedAll(s)[i] \notin Endings
  <1>2. PICK E : E = EscapedAll(s)
    OBVIOUS
  <1>3. /\ s \in Seq(Unit) /\ Len(s) \in Nat /\ E \in Seq(Unit)
        /\ Len(E) = pos[Len(s)] /\ pos[0] = 0
    BY <1>2 DEF Spread
  <1>4. i \in 1 .. Len(E)
    BY <1>2
  <1>5. E[i] \notin Endings
    <2> DEFINE past == {k \in Nat : k <= Len(s) /\ i <= pos[k]}
    <2>1. PICK least \in past : \A k \in past : least <= k
      <3>1. past \in SUBSET Nat
        OBVIOUS
      <3>2. Len(s) \in past
        BY <1>3, <1>4
      <3> HIDE DEF past
      <3> QED BY <3>1, <3>2, LeastExists
    <2>2. least \in Nat /\ least <= Len(s) /\ i <= pos[least]
      BY <2>1
    <2>3. Len(E) \in Nat /\ i \in Nat /\ i >= 1
      BY <1>3, <1>4
    <2>4. least # 0
      BY <1>3, <2>2, <2>3
    <2>5. least \in 1 .. Len(s) /\ least - 1 \in Nat /\ least - 1 < least
          /\ least - 1 <= Len(s)
      BY <1>3, <2>2, <2>4
    <2>6. ~(i <= pos[least - 1])
      <3>1. least - 1 \notin past
        <4> HIDE DEF past
        <4> QED BY <2>1, <2>2, <2>5
      <3> QED BY <2>5, <3>1
    <2> HIDE DEF past
    <2>7. PICK p \in Nat, q \in Nat : p = pos[least - 1] /\ q = pos[least]
      BY <2>5, SpreadFacts
    <2>8. \/ q = p + 1 /\ Single(s[least], E, p)
          \/ q = p + 3 /\ Triple(s[least], E, p)
      BY <1>2, <2>5, <2>7 DEF Spread
    <2>9. i <= q /\ p < i
      BY <2>2, <2>3, <2>6, <2>7
    <2>10. CASE q = p + 1 /\ Single(s[least], E, p)
      <3>1. i = p + 1
        BY <2>3, <2>9, <2>10
      <3> QED BY <2>10, <3>1 DEF Single, Markers
    <2>11. CASE q = p + 3 /\ Triple(s[least], E, p)
      <3>1. i = p + 1 \/ i = p + 2 \/ i = p + 3
        BY <2>3, <2>9, <2>11
      <3>2. E[p + 2] \notin Endings /\ E[p + 3] \notin Endings
        BY <2>11 DEF Triple, Markers
      <3>3. E[p + 1] \notin Endings
        <4>1. /\ "%" # "=" /\ "%" # "&" /\ "%" # "CR" /\ "%" # "LF"
          OBVIOUS
        <4>2. Char("%") # Char("=") /\ Char("%") # Char("&") /\ Char("%") # CR
              /\ Char("%") # LF
          BY <4>1, CharFacts DEF CR, LF
        <4> QED BY <2>11, <4>2 DEF Triple, Endings
      <3> QED BY <3>1, <3>2, <3>3
    <2> QED BY <2>8, <2>10, <2>11
  <1> QED BY <1>2, <1>5

LEMMA EscapedAgain ==
  ASSUME NEW s, NEW pos, Spread(s, pos)
  PROVE  Unescape(EscapedAll(s)) = s
  <1>2. PICK E : E = EscapedAll(s)
    OBVIOUS
  <1>3. /\ s \in Seq(Unit) /\ Len(s) \in Nat /\ E \in Seq(Unit)
        /\ Len(E) = pos[Len(s)] /\ pos[0] = 0
    BY <1>2 DEF Spread
  <1>4. Unescape(E) = s
    <2>1. 0 \in 0 .. Len(s) /\ Len(s) \in 0 .. Len(s)
      BY <1>3
    <2>2. Unescape(SubSeq(EscapedAll(s), pos[0] + 1, pos[Len(s)])) = SubSeq(s, 0 + 1, Len(s))
      BY <2>1, UnescapeAgain
    <2>3. SubSeq(E, 1, Len(E)) = E /\ SubSeq(s, 1, Len(s)) = s
      BY <1>3, SubSeqFull
    <2>4. 0 + 1 = 1
      OBVIOUS
    <2> QED BY <1>2, <1>3, <2>2, <2>3, <2>4
  <1> QED BY <1>2, <1>4

(* A text that is escaped for a form and unescaped by the server is the    *)
(* text again, and nothing in its code is taken for the end of a key or of *)
(* a value (internal.cpp:118, rest_server.cpp:240).                        *)
LEMMA EscapedIsUnescaped ==
  ASSUME NEW s \in Text, IsEscapable(s)
  PROVE  /\ Unescape(EscapedAll(s)) = s
         /\ \A i \in 1 .. Len(EscapedAll(s)) : EscapedAll(s)[i] \notin Endings
  BY SpreadExists, EscapedAgain, NoEndings

-----------------------------------------------------------------------------
(* The first m units of a text are in the first j units of its code, and   *)
(* the code of the next one is not complete there.                         *)
Pending(s, pos, m, j) ==
  /\ m \in 0 .. Len(s) /\ pos[m] <= j
  /\ IF m = Len(s) THEN j = pos[m] ELSE j < pos[m + 1]

LEMMA PendingExists ==
  ASSUME NEW s, NEW pos, Spread(s, pos), NEW j \in 0 .. Len(EscapedAll(s))
  PROVE  \E m \in 0 .. Len(s) : Pending(s, pos, m, j)
  <1>1. /\ Len(s) \in Nat /\ Len(EscapedAll(s)) = pos[Len(s)] /\ pos[0] = 0
        /\ Len(EscapedAll(s)) \in Nat
        /\ \A k \in 0 .. Len(s) : pos[k] \in Nat
    <2>1. s \in Seq(Unit) /\ pos \in [0 .. Len(s) -> Nat]
      BY DEF Spread
    <2>2. Len(s) \in Nat
      BY <2>1
    <2>3. Len(EscapedAll(s)) = pos[Len(s)] /\ pos[0] = 0
      BY DEF Spread
    <2>4. \A k \in 0 .. Len(s) : pos[k] \in Nat
      BY <2>1
    <2> QED BY <2>2, <2>3, <2>4
  <1>2. j \in Nat /\ j <= pos[Len(s)] /\ j >= 0
    BY <1>1
  <1>3. CASE j = pos[Len(s)]
    <2>1. Len(s) \in 0 .. Len(s) /\ pos[Len(s)] <= j
      BY <1>1, <1>2, <1>3
    <2> QED BY <1>3, <2>1 DEF Pending
  <1>4. CASE j # pos[Len(s)]
    <2> DEFINE past == {k \in Nat : k <= Len(s) /\ j < pos[k]}
    <2>1. PICK least \in past : \A k \in past : least <= k
      <3>1. past \in SUBSET Nat
        OBVIOUS
      <3>2. Len(s) \in past
        <4>1. j < pos[Len(s)]
          BY <1>1, <1>2, <1>4
        <4> QED BY <1>1, <4>1
      <3> HIDE DEF past
      <3> QED BY <3>1, <3>2, LeastExists
    <2>2. least \in Nat /\ least <= Len(s) /\ j < pos[least]
      BY <2>1
    <2>3. least # 0
      BY <1>1, <1>2, <2>2
    <2>4. least - 1 \in Nat /\ least - 1 < least /\ least - 1 <= Len(s)
          /\ least - 1 \in 0 .. Len(s) /\ least - 1 # Len(s) /\ least - 1 + 1 = least
          /\ ~(least <= least - 1)
      BY <1>1, <2>2, <2>3
    <2>5. least - 1 \notin past
      <3> HIDE DEF past
      <3> QED BY <2>1, <2>4
    <2>6. ~(j < pos[least - 1])
      BY <2>4, <2>5
    <2>7. pos[least - 1] <= j
      BY <1>1, <1>2, <2>4, <2>6
    <2>8. Pending(s, pos, least - 1, j)
      <3> HIDE DEF past
      <3> QED BY <2>2, <2>4, <2>7 DEF Pending
    <2> QED BY <2>4, <2>8
  <1> QED BY <1>3, <1>4

(* The code of a unit ends with something that begins no other.            *)
LEMMA LastOfCode ==
  ASSUME NEW s, NEW pos, Spread(s, pos), NEW i \in 1 .. Len(s)
  PROVE  /\ EscapedAll(s)[pos[i]] \notin Markers
         /\ pos[i] = pos[i - 1] + 3 => EscapedAll(s)[pos[i] - 1] \notin Markers
  <1>1. PICK E : E = EscapedAll(s)
    OBVIOUS
  <1>2. PICK p \in Nat, q \in Nat : p = pos[i - 1] /\ q = pos[i]
    BY SpreadFacts
  <1>3. \/ q = p + 1 /\ Single(s[i], E, p)
        \/ q = p + 3 /\ Triple(s[i], E, p)
    BY <1>1, <1>2 DEF Spread
  <1>4. CASE q = p + 1 /\ Single(s[i], E, p)
    <2>1. E[q] \notin Markers
      BY <1>4 DEF Single
    <2>2. q # p + 3
      BY <1>4
    <2> QED BY <1>1, <1>2, <2>1, <2>2
  <1>5. CASE q = p + 3 /\ Triple(s[i], E, p)
    <2>1. q - 1 = p + 2
      BY <1>5
    <2>2. E[q] \notin Markers /\ E[q - 1] \notin Markers
      BY <1>5, <2>1 DEF Triple
    <2> QED BY <1>1, <1>2, <2>2
  <1> QED BY <1>3, <1>4, <1>5

PendingAt(E, j, M) ==
  /\ M \in Nat /\ j \in Nat /\ M <= j
  /\ j = M \/ j = M + 1 \/ j = M + 2
  /\ j = M + 1 => E[j] = Char("%")
  /\ j = M + 2 => E[j - 1] = Char("%") /\ E[j] # Char("%")

LEMMA PendingFacts ==
  ASSUME NEW s, NEW pos, Spread(s, pos), NEW m, NEW j \in Int, Pending(s, pos, m, j)
  PROVE  PendingAt(EscapedAll(s), j, pos[m])
  <1> DEFINE M == pos[m]
  <1> USE DEF PendingAt
  <1>1. m \in 0 .. Len(s) /\ M <= j /\ Len(s) \in Nat /\ m \in Nat
    <2>1. s \in Seq(Unit)
      BY DEF Spread
    <2>2. m \in 0 .. Len(s) /\ M <= j
      BY DEF Pending
    <2> QED BY <2>1, <2>2
  <1>2. M \in Nat
    <2>1. pos \in [0 .. Len(s) -> Nat]
      BY DEF Spread
    <2> QED BY <1>1, <2>1
  <1> HIDE DEF M
  <1>3. CASE m = Len(s)
    <2>1. j = M
      BY <1>3 DEF Pending, M
    <2>2. j # M + 1 /\ j # M + 2
      BY <1>2, <2>1
    <2> QED BY <1>2, <2>1, <2>2 DEF M
  <1>4. CASE m # Len(s)
    <2>1. PICK i \in 1 .. Len(s) : i = m + 1 /\ i - 1 = m
      BY <1>1, <1>4
    <2>2. PICK q \in Nat : q = pos[i]
      BY SpreadFacts
    <2>3. j < q
      BY <1>4, <2>1, <2>2 DEF Pending
    <2>4. PICK E : E = EscapedAll(s)
      OBVIOUS
    <2>5. \/ q = M + 1 /\ Single(s[i], E, M)
          \/ q = M + 3 /\ Triple(s[i], E, M)
      <3>1. \/ pos[i] = pos[i - 1] + 1 /\ Single(s[i], EscapedAll(s), pos[i - 1])
            \/ pos[i] = pos[i - 1] + 3 /\ Triple(s[i], EscapedAll(s), pos[i - 1])
        BY DEF Spread
      <3> QED BY <2>1, <2>2, <2>4, <3>1 DEF M
    <2>6. j \in Nat /\ (j = M \/ j = M + 1 \/ j = M + 2)
      <3>1. q = M + 1 \/ q = M + 3
        BY <2>5
      <3> QED BY <1>1, <1>2, <2>3, <3>1
    <2>7. ASSUME j = M + 1 \/ j = M + 2
          PROVE  Triple(s[i], E, M)
      <3>1. q # M + 1
        BY <1>2, <2>2, <2>3, <2>7
      <3> QED BY <2>5, <3>1
    <2>8. ASSUME j = M + 1 PROVE E[j] = Char("%")
      BY <2>7, <2>8 DEF Triple
    <2>9. ASSUME j = M + 2 PROVE E[j - 1] = Char("%") /\ E[j] # Char("%")
      <3>1. j - 1 = M + 1
        BY <1>2, <2>9
      <3> QED BY <2>7, <2>9, <3>1 DEF Triple, Markers
    <2> QED BY <1>1, <1>2, <2>4, <2>6, <2>8, <2>9 DEF M
  <1> QED BY <1>3, <1>4

LEMMA PercentIsMarker == \A u : u \notin Markers => u # Char("%")
  BY DEF Markers

CodeCut(x, E, A, j) ==
  /\ x \in Seq(Unit) /\ Len(x) = j - A
  /\ \A i \in 1 .. j - A : x[i] = E[A + i]

EndsLike(x, E, A, j) ==
         /\ j = A <=> x = <<>>
         /\ j = A + 1 => Len(x) = 1
         /\ A < j => Last(x) = E[j]
         /\ Len(x) > 1 => A + 1 < j /\ x[Len(x) - 1] = E[j - 1]
         /\ A + 1 < j => Len(x) > 1

LEMMA CutEnds ==
  ASSUME NEW x, NEW E, NEW A \in Nat, NEW j \in Nat, A <= j, CodeCut(x, E, A, j)
  PROVE  EndsLike(x, E, A, j)
  <1>1. PICK n \in Nat : n = j - A
    OBVIOUS
  <1>2. x \in Seq(Unit) /\ Len(x) = n /\ \A i \in 1 .. n : x[i] = E[A + i]
    BY <1>1 DEF CodeCut
  <1>3. /\ n = 0 <=> j = A
        /\ n = 1 <=> j = A + 1
        /\ n >= 1 <=> A < j
        /\ n > 1 <=> A + 1 < j
        /\ A + n = j /\ A + (n - 1) = j - 1
    BY <1>1
  <1>4. n = 0 <=> x = <<>>
    BY <1>2
  <1>5. n >= 1 => Last(x) = E[j]
    <2> SUFFICES ASSUME n >= 1 PROVE Last(x) = E[j]
      OBVIOUS
    <2>1. n \in 1 .. n
      OBVIOUS
    <2>2. x[n] = E[A + n]
      BY <1>2, <2>1
    <2> QED BY <1>2, <1>3, <2>2 DEF Last
  <1>6. n > 1 => x[n - 1] = E[j - 1]
    <2> SUFFICES ASSUME n > 1 PROVE x[n - 1] = E[j - 1]
      OBVIOUS
    <2>1. n - 1 \in 1 .. n
      OBVIOUS
    <2>2. x[n - 1] = E[A + (n - 1)]
      BY <1>2, <2>1
    <2> QED BY <1>3, <2>2
  <1> HIDE <1>1
  <1> QED BY <1>2, <1>3, <1>4, <1>5, <1>6 DEF EndsLike

LEMMA PendingIsIncomplete ==
  ASSUME NEW s, NEW pos, Spread(s, pos), NEW m, NEW j \in Int, Pending(s, pos, m, j),
         NEW a \in 0 .. Len(s), a <= m, NEW A, A = pos[a], NEW M, M = pos[m],
         NEW x, CodeCut(x, EscapedAll(s), A, j)
  PROVE  Incomplete(x) = j - M
  <1>1. PICK E : E = EscapedAll(s)
    OBVIOUS
  <1>2. /\ Len(s) \in Nat /\ m \in 0 .. Len(s) /\ m \in Nat /\ a \in Nat
        /\ A \in Nat /\ M \in Nat /\ A <= M /\ m \in a .. Len(s)
    <2>1. s \in Seq(Unit)
      BY DEF Spread
    <2>2. m \in 0 .. Len(s)
      BY DEF Pending
    <2>3. Len(s) \in Nat /\ m \in Nat /\ a \in Nat /\ m \in a .. Len(s)
      BY <2>1, <2>2
    <2>4. A \in Nat /\ M \in Nat /\ A <= M
      BY <2>3, SpreadGrows
    <2> QED BY <2>2, <2>3, <2>4
  <1>3. /\ j = M \/ j = M + 1 \/ j = M + 2
        /\ j = M + 1 => E[j] = Char("%")
        /\ j = M + 2 => E[j - 1] = Char("%") /\ E[j] # Char("%")
        /\ M <= j /\ j \in Nat
    <2>1. PendingAt(EscapedAll(s), j, pos[m])
      BY PendingFacts
    <2> QED BY <1>1, <2>1 DEF PendingAt
  <1>4. /\ j = A <=> x = <<>>
        /\ j = A + 1 => Len(x) = 1
        /\ A < j => Last(x) = E[j]
        /\ Len(x) > 1 => A + 1 < j /\ x[Len(x) - 1] = E[j - 1]
        /\ A + 1 < j => Len(x) > 1
    <2>1. A <= j
      BY <1>2, <1>3
    <2>2. EndsLike(x, EscapedAll(s), A, j)
      BY <1>2, <1>3, <2>1, CutEnds
    <2> QED BY <1>1, <2>2 DEF EndsLike
  <1>6. CASE j = M + 1
    <2>1. A < j /\ j - M = 1 /\ j # A
      BY <1>2, <1>6
    <2>2. x # <<>> /\ Last(x) = Char("%")
      BY <1>3, <1>4, <1>6, <2>1
    <2> QED BY <2>1, <2>2 DEF Incomplete
  <1>7. CASE j = M + 2
    <2>1. A < j /\ A + 1 < j /\ j - M = 2
      BY <1>2, <1>7
    <2>2. Last(x) # Char("%") /\ Len(x) > 1 /\ x[Len(x) - 1] = Char("%")
      BY <1>3, <1>4, <1>7, <2>1
    <2> QED BY <2>1, <2>2 DEF Incomplete
  <1>8. CASE j = M
    <2>1. j - M = 0
      BY <1>2, <1>8
    <2>2. CASE m = a
      <3>1. j = A
        BY <1>8, <2>2
      <3>2. x = <<>> /\ ~(A + 1 < j)
        BY <1>2, <1>4, <3>1
      <3> QED BY <1>4, <2>1, <3>2 DEF Incomplete
    <2>3. CASE m # a
      <3>1. m \in 1 .. Len(s) /\ m - 1 \in Nat /\ m - 1 \in a .. Len(s) /\ m - 1 \in 0 .. Len(s)
        BY <1>2, <2>3
      <3>2. E[j] # Char("%")
        BY <1>1, <1>8, <3>1, LastOfCode, PercentIsMarker
      <3>3. PICK p \in Nat : p = pos[m - 1] /\ A <= p /\ (M = p + 1 \/ M = p + 3)
        <4>1. A <= pos[m - 1] /\ pos[m - 1] \in Nat
          BY <3>1, SpreadGrows
        <4>2. M = pos[m - 1] + 1 \/ M = pos[m - 1] + 3
          BY <3>1, SpreadFacts
        <4> QED BY <4>1, <4>2
      <3>5. Last(x) # Char("%")
        <4>1. A < j
          BY <1>2, <1>8, <3>3
        <4> QED BY <1>4, <3>2, <4>1
      <3>6. ASSUME A + 1 < j PROVE E[j - 1] # Char("%")
        <4>1. CASE M = p + 3
          <5>1. M = pos[m - 1] + 3
            BY <3>3, <4>1
          <5>2. EscapedAll(s)[pos[m] - 1] \notin Markers
            BY <3>1, <5>1, LastOfCode
          <5> QED BY <1>1, <1>8, <5>2, PercentIsMarker
        <4>2. CASE M = p + 1
          <5>1. j - 1 = p
            BY <1>2, <1>8, <4>2
          <5>2. m - 1 # a
            <6> SUFFICES ASSUME m - 1 = a PROVE FALSE
              OBVIOUS
            <6>1. p = A
              BY <3>3
            <6> QED BY <1>2, <1>8, <3>6, <4>2, <6>1
          <5>3. m - 1 \in 1 .. Len(s)
            BY <1>2, <3>1, <5>2
          <5>4. EscapedAll(s)[pos[m - 1]] \notin Markers
            BY <5>3, LastOfCode
          <5> QED BY <1>1, <3>3, <5>1, <5>4, PercentIsMarker
        <4> QED BY <3>3, <4>1, <4>2
      <3>7. ~(Len(x) > 1 /\ x[Len(x) - 1] = Char("%"))
        BY <1>4, <3>6
      <3> QED BY <2>1, <3>5, <3>7 DEF Incomplete
    <2> QED BY <2>2, <2>3
  <1> QED BY <1>3, <1>6, <1>7, <1>8

(* The first unit of S, wherever it is.                                    *)
FindsAt(s, S, f) ==
  /\ f \in 1 .. Len(s) + 1
  /\ \A i \in 1 .. Len(s) : i < f => s[i] \notin S
  /\ f <= Len(s) => s[f] \in S

LEMMA FindFacts ==
  ASSUME NEW s, NEW S, Len(s) \in Nat
  PROVE  FindsAt(s, S, Find(s, S))
  <1> DEFINE where == {i \in 1 .. Len(s) : s[i] \in S} \cup {Len(s) + 1}
  <1>1. PICK least \in where : \A k \in where : least <= k
    <2>1. where \in SUBSET Nat /\ Len(s) + 1 \in where
      OBVIOUS
    <2> HIDE DEF where
    <2> QED BY <2>1, LeastExists
  <1>2. where \in SUBSET Nat
    OBVIOUS
  <1>3. PICK f : f = Find(s, S)
    OBVIOUS
  <1>4. f = least
    <2>1. f = CHOOSE k \in where : \A j \in where : k <= j
      BY <1>3 DEF Find, Min
    <2> HIDE DEF where
    <2>2. f \in where /\ \A j \in where : f <= j
      BY <1>1, <2>1
    <2> QED BY <1>1, <1>2, <2>2
  <1>5. f \in 1 .. Len(s) + 1 /\ (f <= Len(s) => s[f] \in S)
    BY <1>1, <1>4
  <1>6. ASSUME NEW i \in 1 .. Len(s), i < f
        PROVE  s[i] \notin S
    <2> SUFFICES ASSUME s[i] \in S PROVE FALSE
      OBVIOUS
    <2>1. i \in where
      OBVIOUS
    <2>2. f <= i /\ f \in Nat /\ i \in Nat
      BY <1>1, <1>4, <1>5, <2>1
    <2> HIDE DEF where
    <2> QED BY <1>6, <2>2
  <1> HIDE DEF where
  <1> QED BY <1>3, <1>5, <1>6 DEF FindsAt

(* Text without S up to b, and then S.                                     *)
StopsAt(U, S, c, b) ==
  /\ \A j \in c + 1 .. b : U[j] \notin S
  /\ b < Len(U) => U[b + 1] \in S

FoundAhead(x, S, c, b, e) ==
  Find(x, S) = IF b < e THEN b - c + 1 ELSE e - c + 1

LEMMA FindAhead ==
  ASSUME NEW U \in Seq(Unit), NEW S, NEW c \in Nat, NEW b \in Nat, NEW e \in Nat,
         c <= b, c <= e, e <= Len(U), b <= Len(U), StopsAt(U, S, c, b),
         NEW x, x = SubSeq(U, c + 1, e)
  PROVE  FoundAhead(x, S, c, b, e)
  <1> USE DEF FoundAhead
  <1>1. PICK n \in Nat : n = e - c
    OBVIOUS
  <1>2. x \in Seq(Unit) /\ Len(x) = n /\ \A i \in 1 .. n : x[i] = U[c + i]
    <2>1. /\ SubSeq(U, c + 1, e) \in Seq(Unit) /\ Len(SubSeq(U, c + 1, e)) = e - c
          /\ \A i \in 1 .. e - c : SubSeq(U, c + 1, e)[i] = U[c + i]
      BY CutFacts
    <2> QED BY <1>1, <2>1
  <1>3. PICK f : f = Find(x, S)
    OBVIOUS
  <1>4. f \in 1 .. n + 1 /\ (\A i \in 1 .. n : i < f => x[i] \notin S)
        /\ (f <= n => x[f] \in S)
    <2>1. FindsAt(x, S, Find(x, S))
      BY <1>2, FindFacts
    <2> QED BY <1>2, <1>3, <2>1 DEF FindsAt
  <1>5. CASE b < e
    <2>1. PICK k \in 1 .. n : k = b - c + 1 /\ c + k = b + 1
      BY <1>1, <1>5
    <2>2. x[k] \in S
      <3>1. x[k] = U[b + 1]
        BY <1>2, <2>1
      <3>2. b < Len(U)
        BY <1>5
      <3> QED BY <3>1, <3>2 DEF StopsAt
    <2>3. ~(k < f)
      BY <1>4, <2>1, <2>2
    <2>4. ~(f < k)
      <3> SUFFICES ASSUME f < k PROVE FALSE
        OBVIOUS
      <3>1. f \in 1 .. n /\ f <= n /\ c + f \in c + 1 .. b
        BY <1>1, <1>4, <2>1
      <3>2. x[f] = U[c + f] /\ x[f] \in S
        BY <1>2, <1>4, <3>1
      <3>3. U[c + f] \notin S
        BY <3>1 DEF StopsAt
      <3> QED BY <3>2, <3>3
    <2>5. f \in Int /\ k \in Int
      BY <1>4, <2>1
    <2>6. f = k
      BY <2>3, <2>4, <2>5
    <2> QED BY <1>3, <1>5, <2>1, <2>6
  <1>6. CASE ~(b < e)
    <2>1. ~(f <= n)
      <3> SUFFICES ASSUME f <= n PROVE FALSE
        OBVIOUS
      <3>1. f \in 1 .. n /\ c + f \in c + 1 .. b
        BY <1>1, <1>4, <1>6
      <3>2. x[f] = U[c + f] /\ x[f] \in S
        BY <1>2, <1>4, <3>1
      <3>3. U[c + f] \notin S
        BY <3>1 DEF StopsAt
      <3> QED BY <3>2, <3>3
    <2>2. f = n + 1
      BY <1>4, <2>1
    <2> QED BY <1>1, <1>3, <1>6, <2>2
  <1> QED BY <1>5, <1>6

(* A cut of a cut, and two cuts joined.                                    *)
CutAgain(U, c, e, i, j) ==
  SubSeq(SubSeq(U, c + 1, e), i + 1, j) = SubSeq(U, c + i + 1, c + j)

LEMMA CutOfCut ==
  ASSUME NEW S, NEW U \in Seq(S), NEW c \in Nat, NEW e \in Nat, c <= e, e <= Len(U),
         NEW i \in Nat, NEW j \in Nat, i <= j, c + j <= e
  PROVE  CutAgain(U, c, e, i, j)
  <1>1. PICK x : x = SubSeq(U, c + 1, e)
    OBVIOUS
  <1>2. PICK n \in Nat : n = e - c
    OBVIOUS
  <1>3. x \in Seq(S) /\ Len(x) = n /\ \A k \in 1 .. n : x[k] = U[c + k]
    <2>1. /\ SubSeq(U, c + 1, e) \in Seq(S) /\ Len(SubSeq(U, c + 1, e)) = e - c
          /\ \A k \in 1 .. e - c : SubSeq(U, c + 1, e)[k] = U[c + k]
      BY CutFacts
    <2> QED BY <1>1, <1>2, <2>1
  <1>4. PICK h \in Nat : h = j - i
    OBVIOUS
  <1>5. /\ SubSeq(x, i + 1, j) \in Seq(S) /\ Len(SubSeq(x, i + 1, j)) = h
        /\ \A k \in 1 .. h : SubSeq(x, i + 1, j)[k] = x[i + k]
    <2>1. j <= Len(x)
      BY <1>2, <1>3
    <2>2. /\ SubSeq(x, i + 1, j) \in Seq(S) /\ Len(SubSeq(x, i + 1, j)) = j - i
          /\ \A k \in 1 .. j - i : SubSeq(x, i + 1, j)[k] = x[i + k]
      BY <1>3, <2>1, CutFacts
    <2> QED BY <1>4, <2>2
  <1>6. /\ SubSeq(U, c + i + 1, c + j) \in Seq(S) /\ Len(SubSeq(U, c + i + 1, c + j)) = h
        /\ \A k \in 1 .. h : SubSeq(U, c + i + 1, c + j)[k] = U[c + i + k]
    <2>1. c + i \in Nat /\ c + j \in Nat /\ c + i <= c + j /\ c + j <= Len(U)
          /\ (c + j) - (c + i) = h
      <3>1. Len(U) \in Nat
        OBVIOUS
      <3> QED BY <1>4, <3>1
    <2>2. /\ SubSeq(U, c + i + 1, c + j) \in Seq(S)
          /\ Len(SubSeq(U, c + i + 1, c + j)) = (c + j) - (c + i)
          /\ \A k \in 1 .. (c + j) - (c + i) : SubSeq(U, c + i + 1, c + j)[k] = U[c + i + k]
      BY <2>1, CutFacts
    <2> QED BY <2>1, <2>2
  <1>7. ASSUME NEW k \in 1 .. h
        PROVE  SubSeq(x, i + 1, j)[k] = SubSeq(U, c + i + 1, c + j)[k]
    <2>1. i + k \in 1 .. n /\ c + (i + k) = c + i + k
      BY <1>2, <1>4
    <2>2. x[i + k] = U[c + i + k]
      BY <1>3, <2>1
    <2> QED BY <1>5, <1>6, <2>2
  <1>8. SubSeq(x, i + 1, j) = SubSeq(U, c + i + 1, c + j)
    BY <1>5, <1>6, <1>7, SameCut
  <1> QED BY <1>1, <1>8 DEF CutAgain

CutsJoined(U, a, c, e) ==
  SubSeq(U, a + 1, c) \o SubSeq(U, c + 1, e) = SubSeq(U, a + 1, e)

LEMMA CutsJoin ==
  ASSUME NEW S, NEW U \in Seq(S), NEW a \in Nat, NEW c \in Nat, NEW e \in Nat,
         a <= c, c <= e, e <= Len(U)
  PROVE  CutsJoined(U, a, c, e)
  <1>1. Len(U) \in Nat
    OBVIOUS
  <1>2. a + 1 \in 1 .. Len(U) + 1 /\ c \in (a + 1) - 1 .. Len(U) /\ e \in c .. Len(U)
    BY <1>1
  <1> QED BY <1>2, ConcatAdjacentSubSeq DEF CutsJoined

LEMMA EmptyCut ==
  ASSUME NEW S, NEW U \in Seq(S), NEW a \in Nat, NEW b \in Nat, b <= a
  PROVE  SubSeq(U, a + 1, b) = <<>>
  <1>1. a + 1 > b /\ a + 1 \in Int /\ b \in Int
    OBVIOUS
  <1> QED BY <1>1, SubSeqEmpty

(* The code of a text in a form.                                           *)
CodeAt(U, a, s) ==
  /\ a + Len(EscapedAll(s)) <= Len(U)
  /\ \A j \in 1 .. Len(EscapedAll(s)) : U[a + j] = EscapedAll(s)[j]

LEMMA CodeCuts ==
  ASSUME NEW s, NEW pos, Spread(s, pos), NEW U \in Seq(Unit), NEW a \in Nat, CodeAt(U, a, s),
         NEW i \in Nat, NEW j \in Nat, i <= j, j <= Len(EscapedAll(s))
  PROVE  /\ SubSeq(U, a + i + 1, a + j) = SubSeq(EscapedAll(s), i + 1, j)
         /\ CodeCut(SubSeq(U, a + i + 1, a + j), EscapedAll(s), i, j)
  <1>1. PICK E : E = EscapedAll(s)
    OBVIOUS
  <1>2. E \in Seq(Unit) /\ Len(E) \in Nat /\ Len(U) \in Nat
    <2>1. E \in Seq(Unit)
      BY <1>1 DEF Spread
    <2> QED BY <2>1
  <1>3. PICK h \in Nat : h = j - i
    OBVIOUS
  <1>4. /\ SubSeq(E, i + 1, j) \in Seq(Unit) /\ Len(SubSeq(E, i + 1, j)) = h
        /\ \A k \in 1 .. h : SubSeq(E, i + 1, j)[k] = E[i + k]
    <2>0. j <= Len(E)
      BY <1>1
    <2>1. /\ SubSeq(E, i + 1, j) \in Seq(Unit) /\ Len(SubSeq(E, i + 1, j)) = j - i
          /\ \A k \in 1 .. j - i : SubSeq(E, i + 1, j)[k] = E[i + k]
      BY <1>2, <2>0, CutFacts
    <2> QED BY <1>3, <2>1
  <1>5. a + Len(E) <= Len(U) /\ \A k \in 1 .. Len(E) : U[a + k] = E[k]
    BY <1>1 DEF CodeAt
  <1>6. /\ SubSeq(U, a + i + 1, a + j) \in Seq(Unit) /\ Len(SubSeq(U, a + i + 1, a + j)) = h
        /\ \A k \in 1 .. h : SubSeq(U, a + i + 1, a + j)[k] = U[a + i + k]
    <2>1. a + i \in Nat /\ a + j \in Nat /\ a + i <= a + j /\ a + j <= Len(U)
          /\ (a + j) - (a + i) = h
      BY <1>1, <1>2, <1>3, <1>5
    <2>2. /\ SubSeq(U, a + i + 1, a + j) \in Seq(Unit)
          /\ Len(SubSeq(U, a + i + 1, a + j)) = (a + j) - (a + i)
          /\ \A k \in 1 .. (a + j) - (a + i) : SubSeq(U, a + i + 1, a + j)[k] = U[a + i + k]
      BY <2>1, CutFacts
    <2> QED BY <2>1, <2>2
  <1>7. ASSUME NEW k \in 1 .. h
        PROVE  SubSeq(E, i + 1, j)[k] = SubSeq(U, a + i + 1, a + j)[k]
               /\ U[a + i + k] = E[i + k]
    <2>1. i + k \in 1 .. Len(E) /\ a + (i + k) = a + i + k
      BY <1>1, <1>2, <1>3
    <2>2. U[a + i + k] = E[i + k]
      BY <1>5, <2>1
    <2> QED BY <1>4, <1>6, <2>2
  <1>8. SubSeq(E, i + 1, j) = SubSeq(U, a + i + 1, a + j)
    BY <1>4, <1>6, <1>7, SameCut
  <1>9. CodeCut(SubSeq(U, a + i + 1, a + j), E, i, j)
    BY <1>3, <1>6, <1>7 DEF CodeCut
  <1> QED BY <1>1, <1>8, <1>9

CodeCopied(U, s, a, i, j) ==
  SubSeq(U, a + i + 1, a + j) = SubSeq(EscapedAll(s), i + 1, j)

LEMMA CodeIsCopied ==
  ASSUME NEW s, NEW pos, Spread(s, pos), NEW U \in Seq(Unit), NEW a \in Nat, CodeAt(U, a, s),
         NEW i \in Nat, NEW j \in Nat, i <= j, j <= Len(EscapedAll(s))
  PROVE  CodeCopied(U, s, a, i, j)
  BY CodeCuts DEF CodeCopied

(* Nothing in the code is an end of a key or a value.                      *)
LEMMA CodeWithout ==
  ASSUME NEW s, NEW pos, Spread(s, pos), NEW U, NEW a \in Nat, CodeAt(U, a, s),
         NEW j \in Int, a < j, j <= a + Len(EscapedAll(s))
  PROVE  U[j] \in Unit \ Endings
  <1>1. PICK E : E = EscapedAll(s)
    OBVIOUS
  <1>2. E \in Seq(Unit) /\ Len(E) \in Nat
    <2>1. E \in Seq(Unit)
      BY <1>1 DEF Spread
    <2> QED BY <2>1
  <1>3. PICK i \in 1 .. Len(E) : i = j - a /\ a + i = j
    BY <1>1, <1>2
  <1>4. U[j] = E[i] /\ E[i] \in Unit
    BY <1>1, <1>2, <1>3 DEF CodeAt
  <1>5. E[i] \notin Endings
    BY <1>1, <1>3, NoEndings
  <1> QED BY <1>4, <1>5

-----------------------------------------------------------------------------
(* What the post processor is while it reads an url-encoded form.          *)
PostFields ==
  {"encoding", "boundary", "state", "name", "transfer", "buf", "escape", "offset",
   "must", "skip", "dash", "left", "changed", "ok", "params", "unsupported"}

ReadsUrl(p) ==
  /\ DOMAIN p = PostFields
  /\ p.encoding = "urlencoded" /\ p.transfer = "none"
  /\ p.ok = TRUE /\ p.unsupported = FALSE

(* It has read a key from a up to c.                                       *)
InKey(p, U, a, c, base) ==
  /\ p.state = "Init" /\ p.buf = SubSeq(U, a + 1, c) /\ p.escape = <<>>
  /\ p.params = base

ValueBegins(p, key, base) ==
  /\ p.state = "ProcessValue" /\ p.name = key /\ p.params = base
  /\ p.buf = <<>> /\ p.escape = <<>> /\ p.offset = 0

KeyIsRead(q, U, key, base, a, b, e) ==
  /\ ReadsUrl(q)
  /\ \/ e <= b /\ InKey(q, U, a, e, base) /\ q.left = <<>>
     \/ b < e /\ ValueBegins(q, key, base) /\ q.left = SubSeq(U, b + 2, e)

LEMMA ReadKeyStep ==
  ASSUME NEW p, ReadsUrl(p), NEW U \in Seq(Unit), NEW key, NEW pos, Spread(key, pos),
         NEW a \in Nat, CodeAt(U, a, key), NEW b \in Nat, b = a + Len(EscapedAll(key)),
         b < Len(U), U[b + 1] = Char("="), b - a <= PostBuffer,
         NEW base, NEW c \in Nat, a <= c, c <= b, InKey(p, U, a, c, base),
         NEW e \in Nat, c <= e, e <= Len(U), p.left = SubSeq(U, c + 1, e)
  PROVE  KeyIsRead(ReadKey(p), U, key, base, a, b, e)
  <1>1. PICK left : left = p.left
    OBVIOUS
  <1>2. left \in Seq(Unit) /\ Len(left) = e - c
    <2>1. SubSeq(U, c + 1, e) \in Seq(Unit) /\ Len(SubSeq(U, c + 1, e)) = e - c
      BY CutFacts
    <2> QED BY <1>1, <2>1
  <1>3. Find(left, {Char("=")}) = IF b < e THEN b - c + 1 ELSE e - c + 1
    <2>1. StopsAt(U, {Char("=")}, c, b)
      <3>1. ASSUME NEW j \in c + 1 .. b PROVE U[j] # Char("=")
        <4>1. j \in Int /\ a < j /\ j <= a + Len(EscapedAll(key))
          OBVIOUS
        <4>2. U[j] \in Unit \ Endings
          BY <4>1, CodeWithout
        <4> QED BY <4>2 DEF Endings
      <3> QED BY <3>1 DEF StopsAt
    <2>2. left = SubSeq(U, c + 1, e) /\ b <= Len(U)
      BY <1>1
    <2>3. FoundAhead(left, {Char("=")}, c, b, e)
      BY <2>1, <2>2, FindAhead
    <2> QED BY <2>3 DEF FoundAhead
  <1>4. PICK stop : stop = Find(left, {Char("=")}) - 1
    OBVIOUS
  <1>5. /\ b < e => stop = b - c /\ stop # Len(left) /\ stop \in Nat
        /\ ~(b < e) => stop = e - c /\ stop = Len(left) /\ stop \in Nat
    <2>1. CASE b < e
      <3>1. stop = b - c + 1 - 1
        BY <1>3, <1>4, <2>1
      <3>2. b - c + 1 - 1 = b - c /\ b - c \in Nat /\ b - c # e - c
        BY <2>1
      <3> QED BY <1>2, <2>1, <3>1, <3>2
    <2>2. CASE ~(b < e)
      <3>1. stop = e - c + 1 - 1
        BY <1>3, <1>4, <2>2
      <3>2. e - c + 1 - 1 = e - c /\ e - c \in Nat
        BY <2>2
      <3> QED BY <1>2, <2>2, <3>1, <3>2
    <2> QED BY <2>1, <2>2
  <1>6. Len(p.buf) = c - a /\ p.buf = SubSeq(U, a + 1, c)
    <2>1. p.buf = SubSeq(U, a + 1, c)
      BY DEF InKey
    <2>2. c <= Len(U)
      OBVIOUS
    <2>3. Len(SubSeq(U, a + 1, c)) = c - a
      BY <2>2, CutFacts
    <2> QED BY <2>1, <2>3
  <1>7. ~(stop + Len(p.buf) > PostBuffer)
    <2>1. stop + (c - a) <= b - a
      BY <1>5
    <2>2. PostBuffer \in Nat
      BY PostBuffersAssumption
    <2>3. stop + (c - a) \in Int /\ b - a \in Int
      BY <1>5
    <2> QED BY <1>6, <2>1, <2>2, <2>3
  <1>8. DOMAIN p = PostFields
    BY DEF ReadsUrl
  <1>9. CASE ~(b < e)
    <2>1. ReadKey(p) = [p EXCEPT !.buf = @ \o p.left, !.left = <<>>]
      BY <1>1, <1>4, <1>5, <1>7, <1>9 DEF ReadKey
    <2>2. SubSeq(U, a + 1, c) \o SubSeq(U, c + 1, e) = SubSeq(U, a + 1, e)
      <3>1. CutsJoined(U, a, c, e)
        BY CutsJoin
      <3> QED BY <3>1 DEF CutsJoined
    <2>3. p.buf \o p.left = SubSeq(U, a + 1, e)
      BY <1>6, <2>2
    <2> DEFINE q == ReadKey(p)
    <2>4. /\ DOMAIN q = PostFields /\ q.buf = p.buf \o p.left /\ q.left = <<>>
          /\ q.encoding = p.encoding /\ q.transfer = p.transfer /\ q.ok = p.ok
          /\ q.unsupported = p.unsupported /\ q.state = p.state
          /\ q.escape = p.escape /\ q.params = p.params
      BY <1>8, <2>1 DEF PostFields
    <2> HIDE DEF q
    <2>5. ReadsUrl(q) /\ InKey(q, U, a, e, base)
      BY <2>3, <2>4 DEF ReadsUrl, InKey
    <2>6. KeyIsRead(q, U, key, base, a, b, e)
      BY <1>9, <2>4, <2>5 DEF KeyIsRead
    <2> QED BY <2>6 DEF q
  <1>10. CASE b < e
    <2>1. ReadKey(p) =
            [p EXCEPT !.name = Unescape(p.buf \o SubSeq(p.left, 1, stop)),
                      !.buf = <<>>, !.offset = 0, !.state = "ProcessValue",
                      !.left = SubSeq(p.left, stop + 2, Len(p.left))]
      BY <1>1, <1>4, <1>5, <1>7, <1>10 DEF ReadKey
    <2>2. SubSeq(left, 1, stop) = SubSeq(U, c + 1, b)
      <3>1. SubSeq(SubSeq(U, c + 1, e), 0 + 1, stop) = SubSeq(U, c + 0 + 1, c + stop)
        <4>1. 0 \in Nat /\ 0 <= stop /\ c + stop <= e /\ stop \in Nat
          BY <1>5, <1>10
        <4>2. CutAgain(U, c, e, 0, stop)
          BY <4>1, CutOfCut
        <4> QED BY <4>2 DEF CutAgain
      <3>2. 0 + 1 = 1 /\ c + 0 + 1 = c + 1 /\ c + stop = b
        BY <1>5, <1>10
      <3> QED BY <1>1, <3>1, <3>2
    <2>3. SubSeq(left, stop + 2, Len(left)) = SubSeq(U, b + 2, e)
      <3>1. PICK i \in Nat, n \in Nat : i = stop + 1 /\ n = e - c /\ i <= n
        <4>1. stop = b - c
          BY <1>5, <1>10
        <4>2. b - c + 1 \in Nat /\ e - c \in Nat /\ b - c + 1 <= e - c
          BY <1>10
        <4> QED BY <4>1, <4>2
      <3>2. SubSeq(SubSeq(U, c + 1, e), i + 1, n) = SubSeq(U, c + i + 1, c + n)
        <4>1. c + n <= e
          BY <3>1
        <4>2. CutAgain(U, c, e, i, n)
          BY <3>1, <4>1, CutOfCut
        <4> QED BY <4>2 DEF CutAgain
      <3>3. i + 1 = stop + 2 /\ n = Len(left) /\ c + i + 1 = b + 2 /\ c + n = e
        BY <1>2, <1>5, <1>10, <3>1
      <3> QED BY <1>1, <3>2, <3>3
    <2>4. Unescape(p.buf \o SubSeq(p.left, 1, stop)) = key
      <3>1. SubSeq(U, a + 1, c) \o SubSeq(U, c + 1, b) = SubSeq(U, a + 1, b)
        <4>1. b <= Len(U)
          OBVIOUS
        <4>2. CutsJoined(U, a, c, b)
          BY <4>1, CutsJoin
        <4> QED BY <4>2 DEF CutsJoined
      <3>2. SubSeq(U, a + 1, b) = EscapedAll(key)
        <4>1. Len(EscapedAll(key)) \in Nat /\ EscapedAll(key) \in Seq(Unit)
          <5>1. EscapedAll(key) \in Seq(Unit)
            BY DEF Spread
          <5> QED BY <5>1
        <4>2. SubSeq(U, a + 0 + 1, a + Len(EscapedAll(key)))
              = SubSeq(EscapedAll(key), 0 + 1, Len(EscapedAll(key)))
          <5>1. /\ 0 \in Nat /\ 0 <= Len(EscapedAll(key))
                /\ Len(EscapedAll(key)) <= Len(EscapedAll(key))
            BY <4>1
          <5> QED BY <4>1, <5>1, CodeCuts
        <4>3. SubSeq(EscapedAll(key), 1, Len(EscapedAll(key))) = EscapedAll(key)
          BY <4>1, SubSeqFull
        <4>4. a + 0 + 1 = a + 1 /\ 0 + 1 = 1
          OBVIOUS
        <4> QED BY <4>2, <4>3, <4>4
      <3>3. Unescape(EscapedAll(key)) = key
        BY EscapedAgain
      <3> QED BY <1>1, <1>6, <2>2, <3>1, <3>2, <3>3
    <2> DEFINE q == ReadKey(p)
    <2>5. /\ DOMAIN q = PostFields /\ q.buf = <<>> /\ q.name = key /\ q.offset = 0
          /\ q.left = SubSeq(p.left, stop + 2, Len(p.left))
          /\ q.encoding = p.encoding /\ q.transfer = p.transfer /\ q.ok = p.ok
          /\ q.unsupported = p.unsupported /\ q.state = "ProcessValue"
          /\ q.escape = p.escape /\ q.params = p.params
      BY <1>8, <2>1, <2>4 DEF PostFields
    <2> HIDE DEF q
    <2>6. ReadsUrl(q) /\ ValueBegins(q, key, base)
      BY <2>5 DEF ReadsUrl, InKey, ValueBegins
    <2>7. q.left = SubSeq(U, b + 2, e)
      BY <1>1, <2>3, <2>5
    <2>8. KeyIsRead(q, U, key, base, a, b, e)
      BY <1>10, <2>6, <2>7 DEF KeyIsRead
    <2> QED BY <2>8 DEF q
  <1> QED BY <1>9, <1>10

(* What post_iterator has made of the first m units of a value: it may not *)
(* have been called yet.                                                   *)
Collected(params, base, key, s, m) ==
  \/ params = WithParam(base, key, SubSeq(s, 1, m))
  \/ m = 0 /\ params = base

ValueRead(p, U, a, s, pos, key, base, c, m) ==
  /\ p.state = "ProcessValue" /\ p.name = key /\ p.buf = <<>>
  /\ m \in 0 .. Len(s) /\ Pending(s, pos, m, c - a)
  /\ p.escape = SubSeq(U, a + pos[m] + 1, c) /\ p.offset = m
  /\ Collected(p.params, base, key, s, m)

InValue(p, U, a, s, pos, key, base, c) ==
  \E m \in 0 .. Len(s) : ValueRead(p, U, a, s, pos, key, base, c, m)

LEMMA WithParamFacts ==
  ASSUME NEW base, NEW key, NEW v, NEW w
  PROVE  /\ WithParam(WithParam(base, key, v), key, w) = WithParam(base, key, w)
         /\ key \in DOMAIN WithParam(base, key, v)
         /\ WithParam(base, key, v)[key] = v
  <1>1. DOMAIN WithParam(base, key, v) = DOMAIN base \cup {key}
    BY DEF WithParam
  <1>2. \A k \in DOMAIN base \cup {key} :
          WithParam(base, key, v)[k] = IF k = key THEN v ELSE base[k]
    BY DEF WithParam
  <1>3. WithParam(WithParam(base, key, v), key, w)
        = [k \in DOMAIN base \cup {key} |-> IF k = key THEN w ELSE base[k]]
    <2>0. PICK f : f = WithParam(base, key, v)
      OBVIOUS
    <2>1. WithParam(f, key, w) = [k \in DOMAIN f \cup {key} |-> IF k = key THEN w ELSE f[k]]
      BY DEF WithParam
    <2>2. DOMAIN f \cup {key} = DOMAIN base \cup {key}
      BY <1>1, <2>0
    <2>3. \A k \in DOMAIN base \cup {key} :
            (IF k = key THEN w ELSE f[k]) = (IF k = key THEN w ELSE base[k])
      BY <1>2, <2>0
    <2>4. [k \in DOMAIN base \cup {key} |-> IF k = key THEN w ELSE f[k]]
          = [k \in DOMAIN base \cup {key} |-> IF k = key THEN w ELSE base[k]]
      BY <2>3
    <2> QED BY <2>0, <2>1, <2>2, <2>4
  <1> QED BY <1>1, <1>2, <1>3 DEF WithParam

Delivered1(p, q, data) ==
  /\ DOMAIN q = DOMAIN p
  /\ q.params = WithParam(p.params, p.name, ParamBefore(p) \o data)
  /\ q.offset = p.offset + Len(data) /\ q.must = FALSE
  /\ q.encoding = p.encoding /\ q.boundary = p.boundary /\ q.transfer = p.transfer
  /\ q.ok = p.ok /\ q.unsupported = p.unsupported /\ q.state = p.state
  /\ q.name = p.name /\ q.buf = p.buf /\ q.escape = p.escape /\ q.left = p.left
  /\ q.skip = p.skip /\ q.dash = p.dash /\ q.changed = p.changed

LEMMA DeliverFacts ==
  ASSUME NEW p, DOMAIN p = PostFields, p.name # None, p.unsupported = FALSE,
         p.transfer \in Supported, NEW data
  PROVE  Delivered1(p, Deliver(p, data), data)
  <1>1. PostIterator(p, data) =
          [p EXCEPT !.params = WithParam(@, p.name, ParamBefore(p) \o data)]
    BY DEF PostIterator
  <1>2. PICK v : v = WithParam(p.params, p.name, ParamBefore(p) \o data)
    OBVIOUS
  <1>3. PICK r : r = PostIterator(p, data)
    OBVIOUS
  <1>4. r = [p EXCEPT !.params = v]
    BY <1>1, <1>2, <1>3
  <1>5. PICK q : q = [r EXCEPT !.must = FALSE, !.offset = @ + Len(data)]
    OBVIOUS
  <1>6. q = Deliver(p, data)
    BY <1>3, <1>5 DEF Deliver
  <1>7. Delivered1(p, q, data)
    BY <1>2, <1>4, <1>5 DEF Delivered1, PostFields
  <1> QED BY <1>6, <1>7

SoFar(p, s, key, base, m, v) ==
  /\ ParamBefore(p) = SubSeq(s, 1, m)
  /\ WithParam(p.params, key, v) = WithParam(base, key, v)

LEMMA ParamSoFar ==
  ASSUME NEW p, NEW s \in Seq(Unit), NEW key, NEW base, p.name = key, NEW m \in Nat,
         p.offset = m, Collected(p.params, base, key, s, m), NEW v
  PROVE  SoFar(p, s, key, base, m, v)
  <1> USE DEF SoFar
  <1>1. CASE m = 0
    <2>1. SubSeq(s, 1, m) = <<>>
      BY <1>1, SubSeqEmpty
    <2>2. ParamBefore(p) = <<>>
      BY <1>1 DEF ParamBefore
    <2>3. WithParam(p.params, key, v) = WithParam(base, key, v)
      BY WithParamFacts DEF Collected
    <2> QED BY <2>1, <2>2, <2>3
  <1>2. CASE m # 0
    <2>1. p.offset > 0
      BY <1>2
    <2>2. p.params = WithParam(base, key, SubSeq(s, 1, m))
      BY <1>2 DEF Collected
    <2>3. key \in DOMAIN p.params /\ p.params[key] = SubSeq(s, 1, m)
      <3>1. PICK w : w = SubSeq(s, 1, m)
        OBVIOUS
      <3>2. PICK f : f = WithParam(base, key, w)
        OBVIOUS
      <3>3. key \in DOMAIN f /\ f[key] = w
        BY <3>2, WithParamFacts
      <3>4. p.params = f
        BY <2>2, <3>1, <3>2
      <3> QED BY <3>1, <3>3, <3>4
    <2>4. ParamBefore(p) = SubSeq(s, 1, m)
      BY <2>1, <2>3 DEF ParamBefore
    <2>5. WithParam(p.params, key, v) = WithParam(base, key, v)
      BY <2>2, WithParamFacts
    <2> QED BY <2>4, <2>5
  <1> QED BY <1>1, <1>2

(* How far a turn looks.                                                   *)
LEMMA MinOfSizes ==
  ASSUME NEW x \in Nat, NEW y \in Nat
  PROVE  Min({x, y}) \in Nat /\ Min({x, y}) <= x /\ Min({x, y}) <= y
         /\ (Min({x, y}) = x \/ Min({x, y}) = y)
  BY MinOfTwo

Amper(p) == Min({Find(p.left, EndOfValue) - 1, EscapeBuffer})
Taken(p) == Min({Amper(p), EscapeBuffer - Len(p.escape)})

LEMMA TakenFacts ==
  ASSUME NEW p, NEW U \in Seq(Unit), NEW c \in Nat, NEW b \in Nat, NEW e \in Nat,
         c <= b, c <= e, e <= Len(U), b <= Len(U), StopsAt(U, EndOfValue, c, b),
         p.left = SubSeq(U, c + 1, e), Len(p.escape) \in 0 .. 2
  PROVE  /\ Taken(p) \in Nat /\ c + Taken(p) <= b /\ c + Taken(p) <= e
         /\ Amper(p) \in Nat /\ Taken(p) <= Amper(p)
  <1>1. PICK f : f = Find(p.left, EndOfValue) - 1
    OBVIOUS
  <1>2. FoundAhead(p.left, EndOfValue, c, b, e)
    BY FindAhead
  <1>3. f \in Nat /\ c + f <= b /\ c + f <= e
    <2>1. f = IF b < e THEN b - c ELSE e - c
      BY <1>1, <1>2 DEF FoundAhead
    <2> QED BY <2>1
  <1>4. PICK h \in Nat : h = EscapeBuffer - Len(p.escape)
    <2>1. EscapeBuffer \in Nat /\ EscapeBuffer > 2
      BY PostBuffersAssumption
    <2>2. PICK l \in 0 .. 2 : l = Len(p.escape)
      OBVIOUS
    <2>3. EscapeBuffer - l \in Nat
      <3>1. PICK size \in Nat : size = EscapeBuffer /\ size > 2
        BY <2>1
      <3>2. \A n \in Nat, k \in 0 .. 2 : n > 2 => n - k \in Nat
        OBVIOUS
      <3> QED BY <3>1, <3>2
    <2> QED BY <2>2, <2>3
  <1>5. PICK amper \in Nat : amper = Amper(p) /\ amper <= f
    <2>1. EscapeBuffer \in Nat
      BY PostBuffersAssumption
    <2>2. Min({f, EscapeBuffer}) \in Nat /\ Min({f, EscapeBuffer}) <= f
      BY <1>3, <2>1, MinOfSizes
    <2> QED BY <1>1, <2>2 DEF Amper
  <1>6. PICK taken \in Nat : taken = Taken(p) /\ taken <= amper
    <2>1. Min({amper, h}) \in Nat /\ Min({amper, h}) <= amper
      BY MinOfSizes
    <2> QED BY <1>4, <1>5, <2>1 DEF Taken
  <1>7. c + taken <= b /\ c + taken <= e
    BY <1>3, <1>5, <1>6
  <1> QED BY <1>5, <1>6, <1>7

(* The turn in a value, taken apart.                                       *)
ValueText(p) == p.escape \o SubSeq(p.left, 1, Taken(p))
ValueKept(p) == Len(ValueText(p)) - Incomplete(ValueText(p))
ValueLeft(p) == SubSeq(p.left, Taken(p) + 1, Len(p.left))
ValueQueued(p) ==
  [p EXCEPT !.escape = SubSeq(ValueText(p), ValueKept(p) + 1, Len(ValueText(p))),
            !.left = ValueLeft(p)]
ValueSent(p) == Deliver(ValueQueued(p), Unescape(SubSeq(ValueText(p), 1, ValueKept(p))))
ValueEnded(p) == Amper(p) < Len(p.left) /\ p.left[Amper(p) + 1] \in EndOfValue

LEMMA ReadValueIs ==
  ASSUME NEW p
  PROVE  ReadValue(p) =
           IF ValueKept(p) = 0 /\ ValueLeft(p) = <<>> THEN ValueQueued(p)
           ELSE IF ~ValueEnded(p) \/ ValueLeft(p)[1] \notin EndOfValue THEN ValueSent(p)
           ELSE IF ValueLeft(p)[1] = Char("&")
           THEN [ValueSent(p) EXCEPT !.left = Tail(ValueLeft(p)), !.state = "Init"]
           ELSE [ValueSent(p) EXCEPT !.state = "ExpectNewLine"]
  BY Zenon DEF ReadValue, ValueText, ValueKept, ValueLeft, ValueQueued, ValueSent, ValueEnded,
     Taken, Amper

(* Later in the code, later in the text.                                   *)
LEMMA PendingGrows ==
  ASSUME NEW s, NEW pos, Spread(s, pos), NEW m, NEW i \in Int, Pending(s, pos, m, i),
         NEW n, NEW j \in Int, Pending(s, pos, n, j), i <= j
  PROVE  m <= n
  <1>1. m \in 0 .. Len(s) /\ n \in 0 .. Len(s) /\ Len(s) \in Nat
    <2>1. s \in Seq(Unit)
      BY DEF Spread
    <2> QED BY <2>1 DEF Pending
  <1>2. SUFFICES ASSUME ~(m <= n) PROVE FALSE
    OBVIOUS
  <1>3. n \in Nat /\ m \in Nat /\ n # Len(s) /\ n + 1 \in 0 .. Len(s) /\ m \in n + 1 .. Len(s)
    BY <1>1, <1>2
  <1>4. j < pos[n + 1]
    BY <1>3 DEF Pending
  <1>5. pos[n + 1] <= pos[m] /\ pos[n + 1] \in Nat /\ pos[m] \in Nat
    BY <1>3, SpreadGrows
  <1>6. pos[m] <= i
    BY DEF Pending
  <1> QED BY <1>4, <1>5, <1>6

LEMMA PendingAtEnd ==
  ASSUME NEW s, NEW pos, Spread(s, pos), NEW m, Pending(s, pos, m, Len(EscapedAll(s)))
  PROVE  m = Len(s)
  <1>1. s \in Seq(Unit) /\ Len(EscapedAll(s)) = pos[Len(s)]
    BY DEF Spread
  <1>2. Len(s) \in Nat /\ m \in 0 .. Len(s)
    BY <1>1 DEF Pending
  <1>3. SUFFICES ASSUME m # Len(s) PROVE FALSE
    OBVIOUS
  <1>4. m + 1 \in 0 .. Len(s) /\ Len(s) \in m + 1 .. Len(s)
    BY <1>2, <1>3
  <1>5. pos[m + 1] <= pos[Len(s)] /\ pos[m + 1] \in Nat /\ pos[Len(s)] \in Nat
    BY <1>4, SpreadGrows
  <1>6. pos[Len(s)] < pos[m + 1]
    BY <1>1, <1>3 DEF Pending
  <1> QED BY <1>5, <1>6

(* Equal positions, equal units.                                           *)
LEMMA PendingSame ==
  ASSUME NEW s, NEW pos, Spread(s, pos), NEW m \in 0 .. Len(s), NEW n \in 0 .. Len(s),
         m <= n, pos[m] = pos[n]
  PROVE  m = n
  <1>1. Len(s) \in Nat /\ m \in Nat /\ n \in Nat
    <2>1. s \in Seq(Unit)
      BY DEF Spread
    <2>2. Len(s) \in Nat
      BY <2>1
    <2> QED BY <2>2
  <1>2. SUFFICES ASSUME m # n PROVE FALSE
    OBVIOUS
  <1>3. PICK k \in 1 .. Len(s) : k = m + 1 /\ k - 1 = m /\ n \in k .. Len(s)
    BY <1>1, <1>2
  <1>4. pos[k - 1] < pos[k] /\ pos[k] \in Nat /\ pos[k - 1] \in Nat
    BY SpreadFacts
  <1>5. k \in 0 .. Len(s)
    BY <1>1
  <1>6. pos[k] <= pos[n] /\ pos[n] \in Nat
    BY <1>3, <1>5, SpreadGrows
  <1>7. pos[k - 1] = pos[n]
    BY <1>3
  <1> QED BY <1>4, <1>6, <1>7

(* What the turn does with the text.                                       *)
ValueTaken(p, U, a, s, pos, c, e, m, d, n) ==
  /\ d = c + Taken(p) /\ d \in Nat /\ c <= d /\ d <= e
  /\ Taken(p) \in Nat /\ Amper(p) \in Nat /\ Taken(p) <= Amper(p)
  /\ n \in 0 .. Len(s) /\ m <= n /\ Pending(s, pos, n, d - a)
  /\ ValueKept(p) = pos[n] - pos[m]
  /\ Unescape(SubSeq(ValueText(p), 1, ValueKept(p))) = SubSeq(s, m + 1, n)
  /\ SubSeq(ValueText(p), ValueKept(p) + 1, Len(ValueText(p))) = SubSeq(U, a + pos[n] + 1, d)
  /\ ValueLeft(p) = SubSeq(U, d + 1, e)

LEMMA ValueTakenFacts ==
  ASSUME NEW p, NEW U \in Seq(Unit), NEW s, NEW pos, Spread(s, pos),
         NEW a \in Nat, CodeAt(U, a, s), NEW b \in Nat, b = a + Len(EscapedAll(s)),
         b <= Len(U), b < Len(U) => U[b + 1] = Char("&"),
         NEW c \in Nat, a <= c, c <= b, NEW m \in 0 .. Len(s), Pending(s, pos, m, c - a),
         p.escape = SubSeq(U, a + pos[m] + 1, c),
         NEW e \in Nat, c <= e, e <= Len(U), p.left = SubSeq(U, c + 1, e)
  PROVE  \E d \in Nat, n \in 0 .. Len(s) :
           d <= b /\ ValueTaken(p, U, a, s, pos, c, e, m, d, n)
  <1>1. PICK M : M = pos[m]
    OBVIOUS
  <1>2. M \in Nat /\ M <= c - a /\ c - a <= M + 2
    <2>1. PendingAt(EscapedAll(s), c - a, M)
      <3>1. c - a \in Int
        OBVIOUS
      <3> QED BY <1>1, <3>1, PendingFacts
    <2>2. M \in Nat /\ (c - a = M \/ c - a = M + 1 \/ c - a = M + 2)
      BY <2>1 DEF PendingAt
    <2> QED BY <2>2
  <1>3. /\ p.escape = SubSeq(U, a + M + 1, c) /\ Len(p.escape) = c - (a + M)
        /\ a + M \in Nat /\ a + M <= c
    <2>1. a + M \in Nat /\ a + M <= c /\ c <= Len(U)
      BY <1>2
    <2>2. Len(SubSeq(U, a + M + 1, c)) = c - (a + M)
      BY <2>1, CutFacts
    <2> QED BY <1>1, <2>1, <2>2
  <1>4. StopsAt(U, EndOfValue, c, b)
    <2>1. ASSUME NEW j \in c + 1 .. b PROVE U[j] \notin EndOfValue
      <3>1. j \in Int /\ a < j /\ j <= a + Len(EscapedAll(s))
        OBVIOUS
      <3>2. U[j] \in Unit \ Endings
        BY <3>1, CodeWithout
      <3> QED BY <3>2 DEF Endings, EndOfValue
    <2>2. Char("&") \in EndOfValue
      BY DEF EndOfValue
    <2> QED BY <2>1, <2>2 DEF StopsAt
  <1>5. PICK taken \in Nat : taken = Taken(p) /\ c + taken <= b /\ c + taken <= e
                           /\ Amper(p) \in Nat /\ taken <= Amper(p)
    <2>1. Len(p.escape) \in 0 .. 2
      <3>1. PICK l \in Nat : l = c - (a + M) /\ l <= 2
        BY <1>2, <1>3
      <3>2. l \in 0 .. 2
        BY <3>1
      <3> QED BY <1>3, <3>1, <3>2
    <2> QED BY <1>4, <2>1, TakenFacts
  <1>6. PICK d \in Nat : d = c + taken /\ c <= d /\ d <= b /\ d <= e
    BY <1>5
  <1>7. PICK j \in Nat : j = d - a /\ c - a <= j /\ M <= j /\ a + j = d
                         /\ j <= Len(EscapedAll(s))
    <2>1. d - a \in Nat /\ c - a <= d - a /\ M <= d - a /\ a + (d - a) = d
      BY <1>2, <1>6
    <2>2. d - a <= Len(EscapedAll(s))
      <3>1. EscapedAll(s) \in Seq(Unit)
        BY DEF Spread
      <3>2. Len(EscapedAll(s)) \in Nat
        BY <3>1
      <3> QED BY <1>6, <3>2
    <2> QED BY <2>1, <2>2
  <1>8. PICK n \in 0 .. Len(s) : Pending(s, pos, n, j)
    <2>1. Len(EscapedAll(s)) \in Nat
      <3>1. EscapedAll(s) \in Seq(Unit)
        BY DEF Spread
      <3> QED BY <3>1
    <2>2. j \in 0 .. Len(EscapedAll(s))
      BY <1>7, <2>1
    <2> QED BY <2>2, PendingExists
  <1>9. PICK N : N = pos[n]
    OBVIOUS
  <1>10. N \in Nat /\ N <= j
    <2>1. PendingAt(EscapedAll(s), j, N)
      BY <1>8, <1>9, PendingFacts
    <2> QED BY <2>1 DEF PendingAt
  <1>11. m <= n /\ m \in Nat /\ n \in Nat /\ Len(s) \in Nat /\ n \in m .. Len(s) /\ M <= N
    <2>1. c - a \in Int
      OBVIOUS
    <2>2. m <= n
      BY <1>7, <1>8, <2>1, PendingGrows
    <2>3. s \in Seq(Unit)
      BY DEF Spread
    <2>4. Len(s) \in Nat
      BY <2>3
    <2>5. n \in m .. Len(s) /\ m \in Nat /\ n \in Nat
      BY <2>2, <2>4
    <2> QED BY <1>1, <1>9, <2>2, <2>4, <2>5, SpreadGrows
  <1>12. PICK x : x = ValueText(p)
    OBVIOUS
  <1>13. x = SubSeq(U, a + M + 1, d)
    <2>1. SubSeq(p.left, 1, taken) = SubSeq(U, c + 1, d)
      <3>1. CutAgain(U, c, e, 0, taken)
        <4>1. 0 \in Nat /\ 0 <= taken /\ c + taken <= e
          BY <1>5
        <4> QED BY <4>1, CutOfCut
      <3>2. 0 + 1 = 1 /\ c + 0 + 1 = c + 1
        OBVIOUS
      <3> QED BY <1>6, <3>1, <3>2 DEF CutAgain
    <2>2. SubSeq(U, a + M + 1, c) \o SubSeq(U, c + 1, d) = SubSeq(U, a + M + 1, d)
      <3>1. d <= Len(U)
        BY <1>6
      <3>2. PICK f \in Nat : f = a + M
        BY <1>3
      <3>3. f <= c
        BY <1>3, <3>2
      <3>4. CutsJoined(U, f, c, d)
        <4>1. c <= d
          BY <1>6
        <4> QED BY <3>1, <3>3, <4>1, CutsJoin
      <3> QED BY <3>2, <3>4 DEF CutsJoined
    <2> QED BY <1>3, <1>5, <1>12, <2>1, <2>2 DEF ValueText
  <1>14. CodeCut(x, EscapedAll(s), M, j)
    <2>1. CodeCut(SubSeq(U, a + M + 1, a + j), EscapedAll(s), M, j)
      BY <1>2, <1>7, CodeCuts
    <2> QED BY <1>7, <1>13, <2>1
  <1>15. Incomplete(x) = j - N
    <2>1. m \in 0 .. Len(s)
      OBVIOUS
    <2>2. j \in Int
      BY <1>7
    <2> QED BY <1>1, <1>8, <1>9, <1>11, <1>14, <2>1, <2>2, PendingIsIncomplete
  <1>16. PICK kept \in Nat : kept = ValueKept(p) /\ kept = N - M
    <2>1. Len(x) = j - M
      BY <1>14 DEF CodeCut
    <2>2. (j - M) - (j - N) = N - M /\ N - M \in Nat
      BY <1>2, <1>7, <1>10, <1>11
    <2> QED BY <1>12, <1>15, <2>1, <2>2 DEF ValueKept
  <1>17. Unescape(SubSeq(x, 1, kept)) = SubSeq(s, m + 1, n)
    <2>1. SubSeq(x, 1, kept) = SubSeq(U, a + M + 1, a + N)
      <3>1. CutAgain(U, a + M, d, 0, kept)
        <4>1. 0 \in Nat /\ 0 <= kept /\ a + M + kept <= d /\ a + M <= d /\ d <= Len(U)
          BY <1>2, <1>6, <1>7, <1>10, <1>16
        <4> QED BY <1>3, <1>6, <1>16, <4>1, CutOfCut
      <3>2. 0 + 1 = 1 /\ a + M + 0 + 1 = a + M + 1 /\ a + M + kept = a + N
        BY <1>2, <1>10, <1>16
      <3> QED BY <1>13, <3>1, <3>2 DEF CutAgain
    <2>2. SubSeq(U, a + M + 1, a + N) = SubSeq(EscapedAll(s), M + 1, N)
      <3>1. N <= Len(EscapedAll(s))
        <4>1. n \in 0 .. Len(s) /\ n \in n .. Len(s)
          BY <1>11
        <4>2. pos[n] <= Len(EscapedAll(s))
          BY <4>1, SpreadGrows
        <4> QED BY <1>9, <4>2
      <3>2. M \in Nat /\ N \in Nat /\ M <= N
        BY <1>2, <1>10, <1>11
      <3>3. CodeCopied(U, s, a, M, N)
        BY <3>1, <3>2, CodeIsCopied
      <3> QED BY <3>3 DEF CodeCopied
    <2>3. Unescape(SubSeq(EscapedAll(s), pos[m] + 1, pos[n])) = SubSeq(s, m + 1, n)
      BY <1>11, UnescapeAgain
    <2> QED BY <1>1, <1>9, <2>1, <2>2, <2>3
  <1>18. SubSeq(x, kept + 1, Len(x)) = SubSeq(U, a + N + 1, d)
    <2>1. PICK l \in Nat : l = j - M /\ l = Len(x)
      <3>1. Len(x) = j - M
        BY <1>14 DEF CodeCut
      <3>2. j - M \in Nat
        BY <1>2, <1>7
      <3> QED BY <3>1, <3>2
    <2>2. CutAgain(U, a + M, d, kept, l)
      <3>1. kept <= l /\ a + M + l <= d /\ a + M <= d /\ d <= Len(U)
        BY <1>2, <1>6, <1>7, <1>10, <1>16, <2>1
      <3> QED BY <1>3, <1>6, <1>16, <2>1, <3>1, CutOfCut
    <2>3. a + M + kept + 1 = a + N + 1 /\ a + M + l = d
      BY <1>2, <1>7, <1>10, <1>16, <2>1
    <2> QED BY <1>13, <2>1, <2>2, <2>3 DEF CutAgain
  <1>19. ValueLeft(p) = SubSeq(U, d + 1, e)
    <2>1. PICK l \in Nat : l = e - c /\ l = Len(p.left)
      <3>1. Len(SubSeq(U, c + 1, e)) = e - c
        BY CutFacts
      <3>2. e - c \in Nat
        OBVIOUS
      <3> QED BY <3>1, <3>2
    <2>2. CutAgain(U, c, e, taken, l)
      <3>1. taken <= l /\ c + l <= e
        BY <1>5, <2>1
      <3> QED BY <1>5, <2>1, <3>1, CutOfCut
    <2>3. c + taken + 1 = d + 1 /\ c + l = e
      BY <1>6, <2>1
    <2> QED BY <1>5, <2>1, <2>2, <2>3 DEF CutAgain, ValueLeft
  <1>20. ValueTaken(p, U, a, s, pos, c, e, m, d, n)
    BY <1>1, <1>5, <1>6, <1>7, <1>8, <1>9, <1>11, <1>12, <1>16, <1>17, <1>18, <1>19
       DEF ValueTaken
  <1> QED BY <1>6, <1>20

ValueDone(q, base, key, s) ==
  /\ q.state = "Init" /\ q.buf = <<>> /\ q.escape = <<>>
  /\ q.params = WithParam(base, key, s)

ValueIsRead(q, U, a, s, pos, key, base, b, c, e) ==
  /\ ReadsUrl(q)
  /\ \/ \E d \in Nat : /\ c <= d /\ d <= b /\ d <= e
                       /\ InValue(q, U, a, s, pos, key, base, d)
                       /\ q.left = SubSeq(U, d + 1, e)
     \/ b < e /\ ValueDone(q, base, key, s) /\ q.left = SubSeq(U, b + 2, e)

LEMMA ReadValueStep ==
  ASSUME NEW p, ReadsUrl(p), NEW U \in Seq(Unit), NEW s, NEW pos, Spread(s, pos),
         NEW a \in Nat, CodeAt(U, a, s), NEW b \in Nat, b = a + Len(EscapedAll(s)),
         b <= Len(U), b < Len(U) => U[b + 1] = Char("&"),
         NEW key, key # None, NEW base,
         NEW c \in Nat, a <= c, c <= b, InValue(p, U, a, s, pos, key, base, c),
         NEW e \in Nat, c <= e, e <= Len(U), p.left = SubSeq(U, c + 1, e)
  PROVE  ValueIsRead(ReadValue(p), U, a, s, pos, key, base, b, c, e)
  <1> USE DEF ValueIsRead
  <1>1. PICK m \in 0 .. Len(s) : ValueRead(p, U, a, s, pos, key, base, c, m)
    BY DEF InValue
  <1>2. PICK d \in Nat, n \in 0 .. Len(s) :
          d <= b /\ ValueTaken(p, U, a, s, pos, c, e, m, d, n)
    <2>1. Pending(s, pos, m, c - a) /\ p.escape = SubSeq(U, a + pos[m] + 1, c)
      BY <1>1 DEF ValueRead
    <2> QED BY <2>1, ValueTakenFacts
  <1>3. /\ p.state = "ProcessValue" /\ p.name = key /\ p.buf = <<>> /\ p.offset = m
        /\ Collected(p.params, base, key, s, m)
    BY <1>1 DEF ValueRead
  <1>4. /\ d = c + Taken(p) /\ c <= d /\ d <= e
        /\ m <= n /\ Pending(s, pos, n, d - a)
        /\ ValueKept(p) = pos[n] - pos[m]
        /\ Unescape(SubSeq(ValueText(p), 1, ValueKept(p))) = SubSeq(s, m + 1, n)
        /\ SubSeq(ValueText(p), ValueKept(p) + 1, Len(ValueText(p)))
           = SubSeq(U, a + pos[n] + 1, d)
        /\ ValueLeft(p) = SubSeq(U, d + 1, e)
    BY <1>2 DEF ValueTaken
  <1>5. s \in Seq(Unit) /\ Len(s) \in Nat /\ m \in Nat /\ n \in Nat
    <2>1. s \in Seq(Unit)
      BY DEF Spread
    <2>2. Len(s) \in Nat
      BY <2>1
    <2> QED BY <2>1, <2>2
  <1>6. PICK q : q = ValueQueued(p)
    OBVIOUS
  <1>7. /\ DOMAIN q = PostFields /\ q.escape = SubSeq(U, a + pos[n] + 1, d)
        /\ q.left = SubSeq(U, d + 1, e) /\ q.state = p.state /\ q.name = p.name
        /\ q.buf = p.buf /\ q.offset = p.offset /\ q.params = p.params
        /\ q.encoding = p.encoding /\ q.transfer = p.transfer /\ q.ok = p.ok
        /\ q.unsupported = p.unsupported
    <2>1. DOMAIN p = PostFields
      BY DEF ReadsUrl
    <2>2. q = [p EXCEPT !.escape = SubSeq(U, a + pos[n] + 1, d), !.left = SubSeq(U, d + 1, e)]
      BY <1>4, <1>6 DEF ValueQueued
    <2> QED BY <2>1, <2>2 DEF PostFields
  <1>8. ReadsUrl(q)
    BY <1>7 DEF ReadsUrl
  <1>9. PICK r : r = ValueSent(p)
    OBVIOUS
  <1>10. /\ DOMAIN r = PostFields /\ r.escape = q.escape /\ r.left = q.left
         /\ r.state = p.state /\ r.name = key /\ r.buf = <<>> /\ r.offset = n
         /\ r.params = WithParam(base, key, SubSeq(s, 1, n))
         /\ ReadsUrl(r)
    <2>1. PICK data : data = SubSeq(s, m + 1, n)
      OBVIOUS
    <2>2. Delivered1(q, Deliver(q, data), data)
      <3>1. q.transfer \in Supported
        BY <1>8 DEF ReadsUrl, Supported
      <3>2. DOMAIN q = PostFields /\ q.unsupported = FALSE
        BY <1>8 DEF ReadsUrl
      <3>3. q.name # None
        BY <1>3, <1>7
      <3> QED BY <3>1, <3>2, <3>3, DeliverFacts
    <2>3. r = Deliver(q, data)
      BY <1>4, <1>6, <1>9, <2>1 DEF ValueSent
    <2>4. Delivered1(q, r, data)
      BY <2>2, <2>3
    <2>5. n <= Len(s)
      BY <1>5
    <2>6. Len(data) = n - m
      BY <1>4, <1>5, <2>1, <2>5, CutFacts
    <2>7. ParamBefore(q) = SubSeq(s, 1, m)
          /\ WithParam(q.params, key, SubSeq(s, 1, n)) = WithParam(base, key, SubSeq(s, 1, n))
      <3>1. q.name = key /\ q.offset = m /\ Collected(q.params, base, key, s, m)
        BY <1>3, <1>7
      <3>2. PICK v : v = SubSeq(s, 1, n)
        OBVIOUS
      <3>3. SoFar(q, s, key, base, m, v)
        BY <1>5, <3>1, ParamSoFar
      <3> QED BY <3>2, <3>3 DEF SoFar
    <2>8. SubSeq(s, 1, m) \o data = SubSeq(s, 1, n)
      <3>1. CutsJoined(s, 0, m, n)
        <4>1. 0 \in Nat /\ 0 <= m
          BY <1>5
        <4>2. m <= n
          BY <1>4
        <4> QED BY <1>5, <2>5, <4>1, <4>2, CutsJoin
      <3>2. 0 + 1 = 1
        OBVIOUS
      <3> QED BY <2>1, <3>1, <3>2 DEF CutsJoined
    <2>9. r.params = WithParam(base, key, SubSeq(s, 1, n))
      <3>1. r.params = WithParam(q.params, q.name, ParamBefore(q) \o data)
        BY <2>4 DEF Delivered1
      <3> QED BY <1>3, <1>7, <2>7, <2>8, <3>1
    <2>10. r.offset = n
      <3>1. r.offset = q.offset + Len(data)
        BY <2>4 DEF Delivered1
      <3>2. m + (n - m) = n
        BY <1>5
      <3> QED BY <1>3, <1>7, <2>6, <3>1, <3>2
    <2>11. ReadsUrl(r)
      BY <1>8, <2>4 DEF Delivered1, ReadsUrl
    <2>12. DOMAIN r = PostFields /\ r.escape = q.escape /\ r.left = q.left
           /\ r.state = p.state /\ r.name = key /\ r.buf = <<>>
      BY <1>3, <1>7, <2>4 DEF Delivered1
    <2> QED BY <2>9, <2>10, <2>11, <2>12
  <1>11. ASSUME ValueKept(p) = 0, ValueLeft(p) = <<>>
         PROVE  InValue(q, U, a, s, pos, key, base, d)
    <2>1. pos[m] = pos[n]
      <3>1. pos \in [0 .. Len(s) -> Nat]
        BY DEF Spread
      <3>2. pos[m] \in Nat /\ pos[n] \in Nat
        BY <3>1
      <3>3. pos[n] - pos[m] = 0
        BY <1>4, <1>11
      <3> QED BY <3>2, <3>3
    <2>2. m = n
      BY <1>4, <2>1, PendingSame
    <2>3. ValueRead(q, U, a, s, pos, key, base, d, n)
      BY <1>3, <1>4, <1>7, <2>2 DEF ValueRead
    <2> QED BY <2>3 DEF InValue
  <1>12. InValue(r, U, a, s, pos, key, base, d)
    <2>1. Collected(r.params, base, key, s, n)
      BY <1>10 DEF Collected
    <2>2. ValueRead(r, U, a, s, pos, key, base, d, n)
      BY <1>3, <1>4, <1>7, <1>10, <2>1 DEF ValueRead
    <2> QED BY <2>2 DEF InValue
  <1>13. ASSUME ValueLeft(p) # <<>>, ValueLeft(p)[1] \in EndOfValue
         PROVE  /\ d = b /\ b < e /\ ValueLeft(p)[1] = Char("&") /\ n = Len(s)
                /\ Tail(ValueLeft(p)) = SubSeq(U, b + 2, e)
    <2>1. d < e
      <3> SUFFICES ASSUME ~(d < e) PROVE FALSE
        OBVIOUS
      <3>1. e <= d
        OBVIOUS
      <3>2. SubSeq(U, d + 1, e) = <<>>
        BY <3>1, EmptyCut
      <3> QED BY <1>4, <1>13, <3>2
    <2>2. PICK l \in Nat : l = e - d /\ 1 \in 1 .. l
      BY <2>1
    <2>3. ValueLeft(p) \in Seq(Unit) /\ Len(ValueLeft(p)) = l /\ ValueLeft(p)[1] = U[d + 1]
      <3>1. /\ SubSeq(U, d + 1, e) \in Seq(Unit) /\ Len(SubSeq(U, d + 1, e)) = e - d
            /\ \A i \in 1 .. e - d : SubSeq(U, d + 1, e)[i] = U[d + i]
        <4>1. d <= e /\ d \in Nat
          BY <1>4
        <4>2. CutTaken(Unit, U, d, e)
          BY <4>1, CutIsTaken
        <4> QED BY <4>2 DEF CutTaken
      <3> QED BY <1>4, <2>2, <3>1
    <2>4. d = b
      <3> SUFFICES ASSUME d # b PROVE FALSE
        OBVIOUS
      <3>0. d < b /\ a <= d
        <4>1. d <= b
          BY <1>2
        <4>2. c <= d
          BY <1>4
        <4> QED BY <4>1, <4>2
      <3>1. d + 1 \in Int /\ a < d + 1 /\ d + 1 <= a + Len(EscapedAll(s))
        <4>1. d + 1 <= b
          BY <3>0
        <4> QED BY <3>0, <4>1
      <3>2. U[d + 1] \in Unit \ Endings
        BY <3>1, CodeWithout
      <3> QED BY <1>13, <2>3, <3>2 DEF Endings, EndOfValue
    <2>5. b < Len(U) /\ b < e
      BY <2>1, <2>4
    <2>6. ValueLeft(p)[1] = Char("&")
      BY <2>3, <2>4, <2>5
    <2>7. n = Len(s)
      <3>1. EscapedAll(s) \in Seq(Unit)
        BY DEF Spread
      <3>2. Len(EscapedAll(s)) \in Nat
        BY <3>1
      <3>3. d - a = Len(EscapedAll(s))
        BY <2>4, <3>2
      <3> QED BY <1>4, <3>3, PendingAtEnd
    <2>8. Tail(ValueLeft(p)) = SubSeq(U, b + 2, e)
      <3>1. Tail(ValueLeft(p)) = SubSeq(ValueLeft(p), 2, Len(ValueLeft(p)))
        <4>1. PICK y \in Seq(Unit) : y = ValueLeft(p)
          BY <2>3
        <4>2. Tail(y) = SubSeq(y, 2, Len(y))
          OBVIOUS
        <4> QED BY <4>1, <4>2
      <3>2. CutAgain(U, d, e, 1, l)
        <4>1. 1 <= l /\ d + l <= e /\ 1 \in Nat
          BY <2>2
        <4> QED BY <1>4, <2>2, <4>1, CutOfCut
      <3>3. 1 + 1 = 2 /\ d + 1 + 1 = b + 2 /\ d + l = e
        BY <2>2, <2>4
      <3> QED BY <1>4, <2>3, <3>1, <3>2, <3>3 DEF CutAgain
    <2> QED BY <2>4, <2>5, <2>6, <2>7, <2>8
  <1>14. ValueEnded(p) => ValueLeft(p) # <<>>
    <2> SUFFICES ASSUME ValueEnded(p) PROVE ValueLeft(p) # <<>>
      OBVIOUS
    <2>1. PICK l \in Nat : l = e - c /\ l = Len(p.left)
      <3>1. Len(SubSeq(U, c + 1, e)) = e - c
        BY CutFacts
      <3>2. e - c \in Nat
        OBVIOUS
      <3> QED BY <3>1, <3>2
    <2>2. Taken(p) < l
      <3>1. Taken(p) \in Nat /\ Amper(p) \in Nat /\ Taken(p) <= Amper(p)
        BY <1>2 DEF ValueTaken
      <3>2. Amper(p) < l
        BY <2>1 DEF ValueEnded
      <3> QED BY <3>1, <3>2
    <2>3. d < e
      <3>1. d = c + Taken(p) /\ Taken(p) \in Nat
        BY <1>2 DEF ValueTaken
      <3> QED BY <2>1, <2>2, <3>1
    <2>4. Len(ValueLeft(p)) = e - d
      <3>1. d <= e
        BY <2>3
      <3>2. Len(SubSeq(U, d + 1, e)) = e - d
        BY <3>1, CutFacts
      <3> QED BY <1>4, <3>2
    <2>5. e - d # 0
      BY <2>3
    <2> QED BY <2>4, <2>5
  <1>15. CASE ValueKept(p) = 0 /\ ValueLeft(p) = <<>>
    <2>1. ReadValue(p) = q
      BY <1>6, <1>15, ReadValueIs, Zenon
    <2> QED BY <1>2, <1>4, <1>7, <1>8, <1>11, <1>15, <2>1
  <1>16. CASE /\ ~(ValueKept(p) = 0 /\ ValueLeft(p) = <<>>)
              /\ ~ValueEnded(p) \/ ValueLeft(p)[1] \notin EndOfValue
    <2>1. ReadValue(p) = r
      BY <1>9, <1>16, ReadValueIs, Zenon
    <2> QED BY <1>2, <1>4, <1>7, <1>10, <1>12, <2>1
  <1>17. CASE /\ ~(ValueKept(p) = 0 /\ ValueLeft(p) = <<>>)
              /\ ~(~ValueEnded(p) \/ ValueLeft(p)[1] \notin EndOfValue)
    <2>1. /\ d = b /\ b < e /\ ValueLeft(p)[1] = Char("&") /\ n = Len(s)
          /\ Tail(ValueLeft(p)) = SubSeq(U, b + 2, e)
      BY <1>13, <1>14, <1>17
    <2>2. ReadValue(p) = [ValueSent(p) EXCEPT !.left = Tail(ValueLeft(p)), !.state = "Init"]
      BY <1>17, <2>1, ReadValueIs, Zenon
    <2>3. PICK t : t = ReadValue(p)
      OBVIOUS
    <2>4. t = [r EXCEPT !.left = SubSeq(U, b + 2, e), !.state = "Init"]
      BY <1>9, <2>1, <2>2, <2>3
    <2>5. /\ DOMAIN t = PostFields /\ t.left = SubSeq(U, b + 2, e) /\ t.state = "Init"
          /\ t.buf = r.buf /\ t.escape = r.escape /\ t.params = r.params
          /\ t.encoding = r.encoding /\ t.transfer = r.transfer /\ t.ok = r.ok
          /\ t.unsupported = r.unsupported
      BY <1>10, <2>4 DEF PostFields
    <2>6. ReadsUrl(t)
      BY <1>10, <2>5 DEF ReadsUrl
    <2>7. t.escape = <<>>
      <3>1. a + pos[n] = b /\ pos[n] \in Nat
        <4>1. Len(EscapedAll(s)) = pos[Len(s)] /\ EscapedAll(s) \in Seq(Unit)
          BY DEF Spread
        <4>2. Len(EscapedAll(s)) \in Nat
          BY <4>1
        <4> QED BY <2>1, <4>1, <4>2
      <3>2. SubSeq(U, b + 1, b) = <<>>
        BY EmptyCut
      <3> QED BY <1>7, <1>10, <2>1, <2>5, <3>1, <3>2
    <2>8. t.params = WithParam(base, key, s)
      <3>1. SubSeq(s, 1, Len(s)) = s
        BY <1>5, SubSeqFull
      <3> QED BY <1>10, <2>1, <2>5, <3>1
    <2>9. ValueDone(t, base, key, s)
      BY <1>10, <2>5, <2>7, <2>8 DEF ValueDone
    <2> QED BY <2>1, <2>3, <2>5, <2>6, <2>9
  <1> QED BY <1>15, <1>16, <1>17

-----------------------------------------------------------------------------
(* Two sequences, one behind the other.                                    *)
Joined(S, x, y, t) ==
  /\ t \in Seq(S) /\ Len(t) = Len(x) + Len(y)
  /\ \A j \in 1 .. Len(x) : t[j] = x[j]
  /\ \A j \in 1 .. Len(y) : t[Len(x) + j] = y[j]

LEMMA JoinFacts ==
  ASSUME NEW S, NEW x \in Seq(S), NEW y \in Seq(S)
  PROVE  Joined(S, x, y, x \o y)
  <1>1. PICK t : t = x \o y
    OBVIOUS
  <1>2. PICK m \in Nat, n \in Nat : m = Len(x) /\ n = Len(y)
    OBVIOUS
  <1>3. t \in Seq(S) /\ Len(t) = m + n
        /\ \A q \in 1 .. m + n : t[q] = IF q <= m THEN x[q] ELSE y[q - m]
    BY <1>1, <1>2, ConcatProperties
  <1>4. \A j \in 1 .. m : t[j] = x[j]
    <2>1. \A j \in 1 .. m : j \in 1 .. m + n /\ j <= m
      OBVIOUS
    <2> QED BY <1>3, <2>1
  <1>5. ASSUME NEW j \in 1 .. n PROVE t[m + j] = y[j]
    <2>1. PICK q \in 1 .. m + n : q = m + j /\ ~(q <= m) /\ q - m = j
      OBVIOUS
    <2> QED BY <1>3, <2>1
  <1> QED BY <1>1, <1>2, <1>3, <1>4, <1>5 DEF Joined

(* A field in the code of a form, and in the code of a form.               *)
FieldCode(first, field) ==
  (IF first THEN <<>> ELSE <<Char("&")>>)
  \o EscapedAll(field.key) \o <<Char("=")>> \o EscapedAll(field.value)

Separator(first) == IF first THEN 0 ELSE 1

FieldLaid(t, first, a, field) ==
  /\ \A j \in 1 .. Len(EscapedAll(field.key)) : t[a + j] = EscapedAll(field.key)[j]
  /\ t[a + Len(EscapedAll(field.key)) + 1] = Char("=")
  /\ \A j \in 1 .. Len(EscapedAll(field.value)) :
       t[a + Len(EscapedAll(field.key)) + 1 + j] = EscapedAll(field.value)[j]
  /\ ~first => t[a] = Char("&")

FieldSize(first, field) ==
  Separator(first) + Len(EscapedAll(field.key)) + 1 + Len(EscapedAll(field.value))

FieldCodeLaid(first, field) ==
  /\ FieldCode(first, field) \in Seq(Unit)
  /\ Len(FieldCode(first, field)) = FieldSize(first, field)
  /\ FieldLaid(FieldCode(first, field), first, Separator(first), field)

LEMMA FieldCodeFacts ==
  ASSUME NEW first \in BOOLEAN, NEW field,
         EscapedAll(field.key) \in Seq(Unit), EscapedAll(field.value) \in Seq(Unit)
  PROVE  FieldCodeLaid(first, field)
  <1>1. PICK K \in Seq(Unit), V \in Seq(Unit) :
          K = EscapedAll(field.key) /\ V = EscapedAll(field.value)
    OBVIOUS
  <1> DEFINE before == IF first THEN <<>> ELSE <<Char("&")>>
  <1>14. /\ before \in Seq(Unit) /\ Len(before) = Separator(first)
         /\ Separator(first) \in Nat
         /\ ~first => Separator(first) = 1 /\ before[1] = Char("&")
    <2>1. CASE first
      <3>1. <<>> \in Seq(Unit) /\ Len(<<>>) = 0
        OBVIOUS
      <3> QED BY <2>1, <3>1 DEF Separator
    <2>2. CASE ~first
      <3>1. PICK u \in Unit : u = Char("&")
        BY CharsAreUnits
      <3>2. <<u>> \in Seq(Unit) /\ Len(<<u>>) = 1 /\ <<u>>[1] = u
        OBVIOUS
      <3> QED BY <2>2, <3>1, <3>2 DEF Separator
    <2> QED BY <2>1, <2>2
  <1>2. PICK A \in Seq(Unit), m \in Nat :
          /\ A = before /\ m = Len(A)
          /\ m = Separator(first) /\ (~first => m = 1 /\ A[1] = Char("&"))
    <2> HIDE DEF before
    <2> QED BY <1>14
  <1>3. PICK B \in Seq(Unit) : B = <<Char("=")>> /\ Len(B) = 1 /\ B[1] = Char("=")
    <2>1. PICK u \in Unit : u = Char("=")
      BY CharsAreUnits
    <2>2. <<u>> \in Seq(Unit) /\ Len(<<u>>) = 1 /\ <<u>>[1] = u
      OBVIOUS
    <2> QED BY <2>1, <2>2
  <1>4. PICK k \in Nat, v \in Nat : k = Len(K) /\ v = Len(V)
    OBVIOUS
  <1>15. PICK x : x = A \o K
    OBVIOUS
  <1>5. /\ x \in Seq(Unit) /\ Len(x) = m + k
        /\ \A j \in 1 .. m : x[j] = A[j]
        /\ \A j \in 1 .. k : x[m + j] = K[j]
    <2>1. Joined(Unit, A, K, x)
      BY <1>15, JoinFacts
    <2> QED BY <1>2, <1>4, <2>1 DEF Joined
  <1>16. PICK y : y = x \o B
    OBVIOUS
  <1>6. /\ y \in Seq(Unit) /\ Len(y) = m + k + 1
        /\ \A j \in 1 .. m + k : y[j] = x[j]
        /\ y[m + k + 1] = Char("=")
    <2>1. Joined(Unit, x, B, y)
      BY <1>5, <1>16, JoinFacts
    <2> QED BY <1>3, <1>5, <2>1 DEF Joined
  <1>17. PICK z : z = y \o V
    OBVIOUS
  <1>7. /\ z \in Seq(Unit) /\ Len(z) = m + k + 1 + v
        /\ \A j \in 1 .. m + k + 1 : z[j] = y[j]
        /\ \A j \in 1 .. v : z[m + k + 1 + j] = V[j]
    <2>1. Joined(Unit, y, V, z)
      BY <1>6, <1>17, JoinFacts
    <2> QED BY <1>4, <1>6, <2>1 DEF Joined
  <1>8. z = FieldCode(first, field)
    BY <1>1, <1>2, <1>3, <1>15, <1>16, <1>17 DEF FieldCode
  <1>9. \A j \in 1 .. k : z[m + j] = K[j]
    <2>1. \A j \in 1 .. k : m + j \in 1 .. m + k /\ m + j \in 1 .. m + k + 1
      OBVIOUS
    <2> QED BY <1>5, <1>6, <1>7, <2>1
  <1>10. z[m + k + 1] = Char("=")
    <2>1. m + k + 1 \in 1 .. m + k + 1
      OBVIOUS
    <2> QED BY <1>6, <1>7, <2>1
  <1>11. ~first => z[m] = Char("&")
    <2>1. SUFFICES ASSUME ~first PROVE z[m] = Char("&")
      OBVIOUS
    <2>2. m = 1 /\ 1 \in 1 .. m /\ 1 \in 1 .. m + k /\ 1 \in 1 .. m + k + 1
      BY <1>2, <2>1
    <2> QED BY <1>2, <1>5, <1>6, <1>7, <2>1, <2>2
  <1>12. FieldLaid(z, first, m, field)
    BY <1>1, <1>4, <1>7, <1>9, <1>10, <1>11 DEF FieldLaid
  <1>13. Len(z) = FieldSize(first, field)
    BY <1>1, <1>2, <1>4, <1>7 DEF FieldSize
  <1> HIDE DEF before
  <1> QED BY <1>2, <1>7, <1>8, <1>12, <1>13 DEF FieldCodeLaid

(* The fields of a form in its code: field i ends at ends[i].              *)
KeyAt(ends, i) == ends[i - 1] + Separator(i = 1)

UrlLaid(fields, U, ends) ==
  /\ U \in Seq(Unit) /\ ends \in [0 .. Len(fields) -> Nat] /\ ends[0] = 0
  /\ Len(U) = ends[Len(fields)]
  /\ \A i \in 1 .. Len(fields) :
       /\ ends[i] <= Len(U)
       /\ ends[i] = ends[i - 1] + FieldSize(i = 1, fields[i])
       /\ FieldLaid(U, i = 1, KeyAt(ends, i), fields[i])

LEMMA UrlLaidOut ==
  ASSUME NEW fields, Len(fields) \in Nat,
         \A i \in 1 .. Len(fields) : /\ EscapedAll(fields[i].key) \in Seq(Unit)
                                     /\ EscapedAll(fields[i].value) \in Seq(Unit)
  PROVE  \E ends : UrlLaid(fields, UrlEncoded(fields), ends)
  <1>1. PICK n \in Nat : n = Len(fields)
    OBVIOUS
  <1>2. PICK codes : codes = [i \in 1 .. n |-> FieldCode(i = 1, fields[i])]
    OBVIOUS
  <1>3. PICK U : U = UrlEncoded(fields)
    OBVIOUS
  <1>4. U = FlattenSeq(codes)
    BY <1>1, <1>2, <1>3 DEF UrlEncoded, FieldCode
  <1>5. \A i \in 1 .. n :
          /\ codes[i] \in Seq(Unit) /\ Len(codes[i]) = FieldSize(i = 1, fields[i])
          /\ FieldLaid(codes[i], i = 1, Separator(i = 1), fields[i])
    <2>1. ASSUME NEW i \in 1 .. n PROVE FieldCodeLaid(i = 1, fields[i])
      <3>1. /\ EscapedAll(fields[i].key) \in Seq(Unit)
            /\ EscapedAll(fields[i].value) \in Seq(Unit)
            /\ (i = 1) \in BOOLEAN
        BY <1>1
      <3> QED BY <3>1, FieldCodeFacts
    <2> QED BY <1>2, <2>1 DEF FieldCodeLaid
  <1>6. PICK ends \in [0 .. n -> Nat] :
          ends[0] = 0 /\ \A i \in 1 .. n : ends[i] = ends[i - 1] + Len(codes[i])
    <2>1. PICK sizes : sizes = [i \in 1 .. n |-> Len(codes[i])]
      OBVIOUS
    <2>2. \A i \in 1 .. n : sizes[i] = Len(codes[i]) /\ sizes[i] \in Nat
      BY <1>5, <2>1
    <2>3. PICK sums \in [0 .. n -> Nat] :
            sums[0] = 0 /\ \A i \in 1 .. n : sums[i] = sums[i - 1] + sizes[i]
      BY <2>2, SumsAre
    <2> QED BY <2>2, <2>3
  <1>7. Parts(Unit, n, codes, ends)
    <2>1. codes \in [1 .. n -> Seq(Unit)]
      BY <1>2, <1>5
    <2> QED BY <1>6, <2>1 DEF Parts
  <1>8. LaidOut(Unit, codes, ends, U, n)
    BY <1>4, <1>7, FlattenSeqFacts
  <1>9. U \in Seq(Unit) /\ Len(U) = ends[n]
    BY <1>8 DEF LaidOut
  <1>10. ASSUME NEW i \in 1 .. n
         PROVE  /\ ends[i] <= Len(U)
                /\ ends[i] = ends[i - 1] + FieldSize(i = 1, fields[i])
                /\ FieldLaid(U, i = 1, KeyAt(ends, i), fields[i])
    <2>1. ends[i] <= Len(U) /\ \A j \in 1 .. Len(codes[i]) : U[ends[i - 1] + j] = codes[i][j]
      BY <1>8, <1>9 DEF LaidOut
    <2>2. ends[i] = ends[i - 1] + FieldSize(i = 1, fields[i])
      BY <1>5, <1>6
    <2>3. PICK K \in Seq(Unit), V \in Seq(Unit) :
            K = EscapedAll(fields[i].key) /\ V = EscapedAll(fields[i].value)
      BY <1>1
    <2>4. PICK k \in Nat, v \in Nat : k = Len(K) /\ v = Len(V)
      OBVIOUS
    <2>5. PICK m \in 0 .. 1 : m = Separator(i = 1) /\ (i # 1 => m = 1)
      BY DEF Separator
    <2>6. Len(codes[i]) = m + k + 1 + v
      BY <1>5, <2>3, <2>4, <2>5 DEF FieldSize
    <2>7. PICK a \in Nat : a = ends[i - 1]
      <3>1. i - 1 \in 0 .. n
        OBVIOUS
      <3> QED BY <1>6, <3>1
    <2>8. \A j \in 1 .. m + k + 1 + v : U[a + j] = codes[i][j]
      BY <2>1, <2>6, <2>7
    <2>9. /\ \A j \in 1 .. k : codes[i][m + j] = K[j]
          /\ codes[i][m + k + 1] = Char("=")
          /\ \A j \in 1 .. v : codes[i][m + k + 1 + j] = V[j]
          /\ i # 1 => codes[i][m] = Char("&")
      BY <1>5, <2>3, <2>4, <2>5 DEF FieldLaid
    <2>10. \A j \in 1 .. k : U[a + m + j] = K[j]
      <3>1. \A j \in 1 .. k : m + j \in 1 .. m + k + 1 + v /\ a + (m + j) = a + m + j
        OBVIOUS
      <3> QED BY <2>8, <2>9, <3>1
    <2>11. U[a + m + k + 1] = Char("=")
      <3>1. m + k + 1 \in 1 .. m + k + 1 + v /\ a + (m + k + 1) = a + m + k + 1
        OBVIOUS
      <3> QED BY <2>8, <2>9, <3>1
    <2>12. \A j \in 1 .. v : U[a + m + k + 1 + j] = V[j]
      <3>1. \A j \in 1 .. v : m + k + 1 + j \in 1 .. m + k + 1 + v
                              /\ a + (m + k + 1 + j) = a + m + k + 1 + j
        OBVIOUS
      <3> QED BY <2>8, <2>9, <3>1
    <2>13. i # 1 => U[a + m] = Char("&")
      <3>1. i # 1 => m \in 1 .. m + k + 1 + v
        BY <2>5
      <3> QED BY <2>8, <2>9, <3>1
    <2>14. FieldLaid(U, i = 1, a + m, fields[i])
      BY <2>3, <2>4, <2>10, <2>11, <2>12, <2>13 DEF FieldLaid
    <2> QED BY <2>1, <2>2, <2>5, <2>7, <2>14 DEF KeyAt
  <1>11. UrlLaid(fields, U, ends)
    BY <1>1, <1>6, <1>9, <1>10 DEF UrlLaid
  <1> QED BY <1>3, <1>11

(* The parameters after the first i fields.                                *)
FieldsWith(fields, k, i) == {j \in 1 .. i : fields[j].key = k}

ParamsAfter(fields, query, i) ==
  [k \in DOMAIN query \cup {fields[j].key : j \in 1 .. i} |->
     IF FieldsWith(fields, k, i) = {} THEN query[k]
     ELSE fields[Max(FieldsWith(fields, k, i))].value]

LEMMA MaxIs ==
  ASSUME NEW S \in SUBSET Int, NEW x \in S, \A y \in S : y <= x
  PROVE  Max(S) = x
  <1>1. x \in S /\ \A y \in S : x >= y
    OBVIOUS
  <1>2. \A z \in S : (\A y \in S : z >= y) => z = x
    OBVIOUS
  <1> QED BY <1>1, <1>2, Zenon DEF Max

LEMMA ParamsNext ==
  ASSUME NEW fields, NEW query, NEW i \in Nat, i >= 1
  PROVE  ParamsAfter(fields, query, i)
         = WithParam(ParamsAfter(fields, query, i - 1), fields[i].key, fields[i].value)
  <1>1. PICK f : f = ParamsAfter(fields, query, i - 1)
    OBVIOUS
  <1>2. PICK key, value : key = fields[i].key /\ value = fields[i].value
    OBVIOUS
  <1>3. DOMAIN f = DOMAIN query \cup {fields[j].key : j \in 1 .. i - 1}
    BY <1>1 DEF ParamsAfter
  <1>4. DOMAIN f \cup {key} = DOMAIN query \cup {fields[j].key : j \in 1 .. i}
    <2>1. 1 .. i = (1 .. i - 1) \cup {i}
      OBVIOUS
    <2>2. {fields[j].key : j \in 1 .. i} = {fields[j].key : j \in 1 .. i - 1} \cup {key}
      BY <1>2, <2>1
    <2> QED BY <1>3, <2>2
  <1>5. ASSUME NEW k \in DOMAIN f \cup {key}
        PROVE  (IF FieldsWith(fields, k, i) = {} THEN query[k]
                ELSE fields[Max(FieldsWith(fields, k, i))].value)
               = IF k = key THEN value ELSE f[k]
    <2>1. CASE k = key
      <3>1. i \in FieldsWith(fields, k, i)
        BY <1>2, <2>1 DEF FieldsWith
      <3>2. Max(FieldsWith(fields, k, i)) = i
        <4>1. FieldsWith(fields, k, i) \in SUBSET Int
              /\ \A y \in FieldsWith(fields, k, i) : y <= i
          BY DEF FieldsWith
        <4> QED BY <3>1, <4>1, MaxIs
      <3> QED BY <1>2, <2>1, <3>1, <3>2
    <2>2. CASE k # key
      <3>1. FieldsWith(fields, k, i) = FieldsWith(fields, k, i - 1)
        BY <1>2, <2>2 DEF FieldsWith
      <3>2. f[k] = IF FieldsWith(fields, k, i - 1) = {} THEN query[k]
                   ELSE fields[Max(FieldsWith(fields, k, i - 1))].value
        <4>1. k \in DOMAIN query \cup {fields[j].key : j \in 1 .. i - 1}
          BY <1>3, <2>2
        <4> QED BY <1>1, <4>1 DEF ParamsAfter
      <3> QED BY <2>2, <3>1, <3>2
    <2> QED BY <2>1, <2>2
  <1>6. WithParam(f, key, value)
        = [k \in DOMAIN f \cup {key} |-> IF k = key THEN value ELSE f[k]]
    BY DEF WithParam
  <1>7. ParamsAfter(fields, query, i)
        = [k \in DOMAIN f \cup {key} |-> IF FieldsWith(fields, k, i) = {} THEN query[k]
                                         ELSE fields[Max(FieldsWith(fields, k, i))].value]
    BY <1>4 DEF ParamsAfter
  <1> QED BY <1>1, <1>2, <1>5, <1>6, <1>7

LEMMA ParamsFirst ==
  ASSUME NEW fields, NEW query, query = [k \in DOMAIN query |-> query[k]]
  PROVE  ParamsAfter(fields, query, 0) = query
  <1>1. DOMAIN query \cup {fields[j].key : j \in 1 .. 0} = DOMAIN query
    OBVIOUS
  <1>2. \A k \in DOMAIN query : FieldsWith(fields, k, 0) = {}
    BY DEF FieldsWith
  <1>3. ParamsAfter(fields, query, 0) = [k \in DOMAIN query |-> query[k]]
    BY <1>1, <1>2 DEF ParamsAfter
  <1> QED BY <1>3

LEMMA ParamsLast ==
  ASSUME NEW form, NEW query
  PROVE  ParamsAfter(form.fields, query, Len(form.fields)) = Parameters(form, query)
  BY DEF ParamsAfter, Parameters, FieldsWith

(* Where a field is in the code of its form.                               *)
FieldIn(fields, U, ends, i, a, w, e) ==
  /\ a = KeyAt(ends, i) /\ a \in Nat /\ w \in Nat /\ e \in Nat
  /\ w = a + Len(EscapedAll(fields[i].key)) + 1
  /\ e = w + Len(EscapedAll(fields[i].value)) /\ e = ends[i] /\ e <= Len(U)
  /\ Len(EscapedAll(fields[i].key)) \in Nat /\ Len(EscapedAll(fields[i].value)) \in Nat
  /\ CodeAt(U, a, fields[i].key) /\ CodeAt(U, w, fields[i].value)
  /\ U[w] = Char("=")

FieldWritten(field) ==
  /\ field.key \in Text \ {None} /\ field.value \in Text
  /\ IsEscapable(field.key) /\ IsEscapable(field.value)
  /\ Len(EscapedAll(field.key)) <= PostBuffer

UrlWritten(fields, U, ends) ==
  /\ UrlLaid(fields, U, ends) /\ Len(fields) \in Nat
  /\ \A i \in 1 .. Len(fields) : FieldWritten(fields[i])

LEMMA FieldFacts ==
  ASSUME NEW fields, NEW U, NEW ends, UrlWritten(fields, U, ends), NEW i \in 1 .. Len(fields)
  PROVE  \E a \in Nat, w \in Nat, e \in Nat : FieldIn(fields, U, ends, i, a, w, e)
  <1>1. FieldWritten(fields[i]) /\ Len(fields) \in Nat
    BY DEF UrlWritten
  <1>2. PICK K \in Seq(Unit), V \in Seq(Unit) :
          K = EscapedAll(fields[i].key) /\ V = EscapedAll(fields[i].value)
    <2>1. PICK pos : Spread(fields[i].key, pos)
      BY <1>1, SpreadExists DEF FieldWritten
    <2>2. PICK pos2 : Spread(fields[i].value, pos2)
      BY <1>1, SpreadExists DEF FieldWritten
    <2> QED BY <2>1, <2>2 DEF Spread
  <1>3. PICK k \in Nat, v \in Nat : k = Len(K) /\ v = Len(V)
    OBVIOUS
  <1>4. PICK m \in 0 .. 1 : m = Separator(i = 1)
    BY DEF Separator
  <1>5. PICK b \in Nat, e \in Nat : b = ends[i - 1] /\ e = ends[i]
    <2>1. ends \in [0 .. Len(fields) -> Nat]
      BY DEF UrlWritten, UrlLaid
    <2>2. i - 1 \in 0 .. Len(fields) /\ i \in 0 .. Len(fields)
      BY <1>1
    <2> QED BY <2>1, <2>2
  <1>6. /\ e <= Len(U) /\ e = b + FieldSize(i = 1, fields[i])
        /\ FieldLaid(U, i = 1, KeyAt(ends, i), fields[i])
    BY <1>5 DEF UrlWritten, UrlLaid
  <1>7. PICK a \in Nat : a = b + m /\ a = KeyAt(ends, i)
    BY <1>4, <1>5 DEF KeyAt
  <1>8. e = a + k + 1 + v
    BY <1>2, <1>3, <1>4, <1>6, <1>7 DEF FieldSize
  <1>9. PICK w \in Nat : w = a + k + 1
    OBVIOUS
  <1>10. /\ \A j \in 1 .. k : U[a + j] = K[j]
         /\ U[w] = Char("=")
         /\ \A j \in 1 .. v : U[w + j] = V[j]
    BY <1>2, <1>3, <1>6, <1>7, <1>9 DEF FieldLaid
  <1>11. Len(U) \in Nat
    BY DEF UrlWritten, UrlLaid
  <1>12. a + k <= Len(U) /\ w + v <= Len(U) /\ e = w + v
    BY <1>6, <1>8, <1>9, <1>11
  <1>13. CodeAt(U, a, fields[i].key) /\ CodeAt(U, w, fields[i].value)
    BY <1>2, <1>3, <1>10, <1>12 DEF CodeAt
  <1>14. FieldIn(fields, U, ends, i, a, w, e)
    BY <1>2, <1>3, <1>5, <1>6, <1>7, <1>9, <1>10, <1>12, <1>13 DEF FieldIn
  <1> QED BY <1>14

(* What follows a field.                                                   *)
LEMMA FieldFollows ==
  ASSUME NEW fields, NEW U, NEW ends, UrlWritten(fields, U, ends), NEW i \in 1 .. Len(fields)
  PROVE  /\ ends[i] \in Nat /\ ends[i] <= Len(U) /\ Len(U) \in Nat
         /\ ends[i] = Len(U) <=> i = Len(fields)
         /\ i # Len(fields) =>
              /\ i + 1 \in 1 .. Len(fields) /\ KeyAt(ends, i + 1) = ends[i] + 1
              /\ U[ends[i] + 1] = Char("&")
  <1>1. /\ Len(fields) \in Nat /\ U \in Seq(Unit) /\ Len(U) = ends[Len(fields)]
        /\ ends \in [0 .. Len(fields) -> Nat]
    BY DEF UrlWritten, UrlLaid
  <1>2. Len(U) \in Nat /\ i \in Nat /\ i \in 0 .. Len(fields)
    BY <1>1
  <1>3. ends[i] \in Nat /\ ends[i] <= Len(U)
    BY <1>1, <1>2 DEF UrlWritten, UrlLaid
  <1>4. ASSUME i # Len(fields)
        PROVE  /\ i + 1 \in 1 .. Len(fields) /\ KeyAt(ends, i + 1) = ends[i] + 1
               /\ U[ends[i] + 1] = Char("&") /\ ends[i] < Len(U)
    <2>1. PICK next \in 1 .. Len(fields) : next = i + 1 /\ next - 1 = i /\ next # 1
      BY <1>1, <1>2, <1>4
    <2>2. PICK a \in Nat, w \in Nat, e \in Nat : FieldIn(fields, U, ends, next, a, w, e)
      BY FieldFacts
    <2>3. KeyAt(ends, next) = ends[i] + 1
      <3>1. Separator(next = 1) = 1
        BY <2>1 DEF Separator
      <3> QED BY <2>1, <3>1 DEF KeyAt
    <2>4. U[ends[i] + 1] = Char("&")
      <3>1. FieldLaid(U, next = 1, KeyAt(ends, next), fields[next])
        BY DEF UrlWritten, UrlLaid
      <3>2. U[KeyAt(ends, next)] = Char("&")
        BY <2>1, <3>1 DEF FieldLaid
      <3> QED BY <2>3, <3>2
    <2>5. ends[i] < Len(U)
      <3>1. a = ends[i] + 1 /\ a < w /\ w <= e /\ e <= Len(U)
        <4>1. PICK k \in Nat, v \in Nat : w = a + k + 1 /\ e = w + v
          BY <2>2 DEF FieldIn
        <4>2. a = ends[i] + 1 /\ e <= Len(U)
          BY <2>2, <2>3 DEF FieldIn
        <4>3. a < w /\ w <= e
          BY <4>1
        <4> QED BY <4>2, <4>3
      <3> QED BY <1>2, <1>3, <3>1
    <2> QED BY <2>1, <2>3, <2>4, <2>5
  <1> QED BY <1>1, <1>2, <1>3, <1>4

-----------------------------------------------------------------------------
(* The post processor has read the code of a form up to c.                 *)
AtNothing(p, fields, query, c) ==
  Len(fields) = 0 /\ c = 0 /\ p.state = "Init" /\ p.params = query

AtKey(p, fields, query, U, ends, i, c) ==
  /\ KeyAt(ends, i) <= c /\ c <= KeyAt(ends, i) + Len(EscapedAll(fields[i].key))
  /\ InKey(p, U, KeyAt(ends, i), c, ParamsAfter(fields, query, i - 1))

ValueAt(fields, ends, i) == KeyAt(ends, i) + Len(EscapedAll(fields[i].key)) + 1

AtValue(p, fields, query, U, ends, i, c) ==
  /\ ValueAt(fields, ends, i) <= c /\ c <= ends[i]
  /\ \E pos : /\ Spread(fields[i].value, pos)
              /\ InValue(p, U, ValueAt(fields, ends, i), fields[i].value, pos,
                         fields[i].key, ParamsAfter(fields, query, i - 1), c)

AtField(p, fields, query, U, ends, i, c) ==
  \/ AtKey(p, fields, query, U, ends, i, c)
  \/ AtValue(p, fields, query, U, ends, i, c)

UrlAt(p, fields, query, U, ends, c) ==
  \/ AtNothing(p, fields, query, c)
  \/ \E i \in 1 .. Len(fields) : AtField(p, fields, query, U, ends, i, c)

(* A turn reads on.                                                        *)
TurnedTo(q, fields, query, U, ends, c, e) ==
  /\ ReadsUrl(q)
  /\ \E d \in Nat : /\ c <= d /\ d <= e /\ q.left = SubSeq(U, d + 1, e)
                    /\ UrlAt(q, fields, query, U, ends, d)

LEMMA TurnIs ==
  ASSUME NEW p, ReadsUrl(p)
  PROVE  /\ p.state = "Init" => Turn(p) = ReadKey(p)
         /\ p.state = "ProcessValue" => Turn(p) = ReadValue(p)
  <1>1. Turn(p) = UrlTurn(p)
    BY DEF Turn, ReadsUrl
  <1>2. p.state = "Init" => UrlTurn(p) = ReadKey(p)
    BY Zenon DEF UrlTurn
  <1>3. p.state = "ProcessValue" => UrlTurn(p) = ReadValue(p)
    BY DEF UrlTurn
  <1> QED BY <1>1, <1>2, <1>3

LEMMA KeyTurn ==
  ASSUME NEW fields, NEW query, NEW U, NEW ends, UrlWritten(fields, U, ends),
         NEW i \in 1 .. Len(fields), NEW p, ReadsUrl(p),
         NEW c \in Nat, AtKey(p, fields, query, U, ends, i, c),
         NEW e \in Nat, c <= e, e <= Len(U), p.left = SubSeq(U, c + 1, e)
  PROVE  TurnedTo(Turn(p), fields, query, U, ends, c, e)
  <1>1. PICK a \in Nat, w \in Nat, z \in Nat : FieldIn(fields, U, ends, i, a, w, z)
    BY FieldFacts
  <1>2. PICK key, value : key = fields[i].key /\ value = fields[i].value
    OBVIOUS
  <1>3. PICK k \in Nat, v \in Nat :
          k = Len(EscapedAll(key)) /\ v = Len(EscapedAll(value))
    BY <1>1, <1>2 DEF FieldIn
  <1>4. /\ a = KeyAt(ends, i) /\ w = a + k + 1 /\ z = w + v /\ z = ends[i] /\ z <= Len(U)
        /\ CodeAt(U, a, key) /\ CodeAt(U, w, value) /\ U[w] = Char("=")
    BY <1>1, <1>2, <1>3 DEF FieldIn
  <1>5. U \in Seq(Unit) /\ Len(U) \in Nat
    BY DEF UrlWritten, UrlLaid
  <1>6. FieldWritten(fields[i])
    BY DEF UrlWritten
  <1>7. PICK kpos : Spread(key, kpos)
    BY <1>2, <1>6, SpreadExists DEF FieldWritten
  <1>8. PICK vpos : Spread(value, vpos)
    BY <1>2, <1>6, SpreadExists DEF FieldWritten
  <1>9. PICK base : base = ParamsAfter(fields, query, i - 1)
    OBVIOUS
  <1>18. PICK b \in Nat : b = a + k
    OBVIOUS
  <1>10. b = a + k /\ b + 1 = w /\ b < Len(U) /\ b + 2 = w + 1
    <2>1. w = a + k + 1 /\ z = w + v /\ z <= Len(U)
      BY <1>4
    <2>2. b + 1 = w /\ b + 2 = w + 1
      BY <1>18, <2>1
    <2>3. w <= z
      BY <2>1
    <2> QED BY <1>5, <1>18, <2>1, <2>2, <2>3
  <1>11. a <= c /\ c <= b /\ InKey(p, U, a, c, base)
    BY <1>2, <1>3, <1>4, <1>9, <1>10 DEF AtKey
  <1>12. PICK q : q = Turn(p)
    OBVIOUS
  <1>13. q = ReadKey(p)
    <2>1. p.state = "Init"
      BY <1>11 DEF InKey
    <2> QED BY <1>12, <2>1, TurnIs
  <1>14. b = a + Len(EscapedAll(key)) /\ U[b + 1] = Char("=") /\ b - a <= PostBuffer
    <2>1. b - a = k
      BY <1>10
    <2>2. k <= PostBuffer
      BY <1>2, <1>3, <1>6 DEF FieldWritten
    <2> QED BY <1>3, <1>4, <1>10, <2>1, <2>2
  <1>15. /\ ReadsUrl(q)
         /\ \/ e <= b /\ InKey(q, U, a, e, base) /\ q.left = <<>>
            \/ b < e /\ ValueBegins(q, key, base) /\ q.left = SubSeq(U, b + 2, e)
    <2>1. CodeAt(U, a, key) /\ b < Len(U)
      BY <1>4, <1>10
    <2>2. KeyIsRead(ReadKey(p), U, key, base, a, b, e)
      BY <1>5, <1>7, <1>11, <1>14, <2>1, ReadKeyStep
    <2> QED BY <1>13, <2>2 DEF KeyIsRead
  <1>16. CASE e <= b /\ InKey(q, U, a, e, base) /\ q.left = <<>>
    <2>1. AtKey(q, fields, query, U, ends, i, e)
      <3>1. a <= e /\ e <= a + k
        BY <1>10, <1>11, <1>16
      <3> QED BY <1>2, <1>3, <1>4, <1>9, <1>16, <3>1 DEF AtKey
    <2>2. q.left = SubSeq(U, e + 1, e)
      BY <1>5, <1>16, EmptyCut
    <2>3. UrlAt(q, fields, query, U, ends, e)
      BY <2>1 DEF UrlAt, AtField
    <2>4. c <= e /\ e <= e
      OBVIOUS
    <2> QED BY <1>12, <1>15, <2>2, <2>3, <2>4 DEF TurnedTo
  <1>17. CASE b < e /\ ValueBegins(q, key, base) /\ q.left = SubSeq(U, b + 2, e)
    <2>1. InValue(q, U, w, value, vpos, key, base, w)
      <3>1. /\ q.state = "ProcessValue" /\ q.name = key /\ q.params = base
            /\ q.buf = <<>> /\ q.escape = <<>> /\ q.offset = 0
        BY <1>17 DEF ValueBegins
      <3>2. value \in Seq(Unit) /\ vpos[0] = 0 /\ vpos \in [0 .. Len(value) -> Nat]
        BY <1>8 DEF Spread
      <3>3. 0 \in 0 .. Len(value) /\ Len(value) \in Nat
        BY <3>2
      <3>4. Pending(value, vpos, 0, w - w)
        <4>1. w - w = 0
          OBVIOUS
        <4>2. 0 # Len(value) => 0 < vpos[0 + 1]
          <5>1. SUFFICES ASSUME 0 # Len(value) PROVE 0 < vpos[0 + 1]
            OBVIOUS
          <5>2. 1 \in 1 .. Len(value) /\ 1 - 1 = 0 /\ 0 + 1 = 1
            BY <3>3, <5>1
          <5>3. vpos[1 - 1] < vpos[1]
            BY <1>8, <5>2, SpreadFacts
          <5> QED BY <3>2, <5>2, <5>3
        <4> QED BY <3>2, <3>3, <4>1, <4>2 DEF Pending
      <3>5. q.escape = SubSeq(U, w + vpos[0] + 1, w)
        <4>1. w + vpos[0] + 1 = w + 1
          BY <3>2
        <4>2. SubSeq(U, w + 1, w) = <<>>
          BY <1>5, EmptyCut
        <4> QED BY <3>1, <4>1, <4>2
      <3>6. Collected(q.params, base, key, value, 0)
        BY <3>1 DEF Collected
      <3>7. ValueRead(q, U, w, value, vpos, key, base, w, 0)
        BY <3>1, <3>3, <3>4, <3>5, <3>6 DEF ValueRead
      <3> QED BY <3>3, <3>7 DEF InValue
    <2>2. AtValue(q, fields, query, U, ends, i, w)
      <3>1. w = ValueAt(fields, ends, i) /\ w <= ends[i]
        <4>1. w = ValueAt(fields, ends, i)
          BY <1>2, <1>3, <1>4 DEF ValueAt
        <4>2. z = w + v /\ z = ends[i]
          BY <1>4
        <4>3. w <= z
          BY <4>2
        <4> QED BY <4>1, <4>2, <4>3
      <3> QED BY <1>2, <1>8, <1>9, <2>1, <3>1 DEF AtValue
    <2>3. w <= e /\ c <= w /\ q.left = SubSeq(U, w + 1, e)
      BY <1>10, <1>11, <1>17
    <2>4. UrlAt(q, fields, query, U, ends, w)
      BY <2>2 DEF UrlAt, AtField
    <2> QED BY <1>12, <1>15, <2>3, <2>4 DEF TurnedTo
  <1> QED BY <1>15, <1>16, <1>17

LEMMA ValueTurn ==
  ASSUME NEW fields, NEW query, NEW U, NEW ends, UrlWritten(fields, U, ends),
         NEW i \in 1 .. Len(fields), NEW p, ReadsUrl(p),
         NEW c \in Nat, AtValue(p, fields, query, U, ends, i, c),
         NEW e \in Nat, c <= e, e <= Len(U), p.left = SubSeq(U, c + 1, e)
  PROVE  TurnedTo(Turn(p), fields, query, U, ends, c, e)
  <1>1. PICK a \in Nat, w \in Nat, b \in Nat : FieldIn(fields, U, ends, i, a, w, b)
    BY FieldFacts
  <1>2. PICK key, value : key = fields[i].key /\ value = fields[i].value
    OBVIOUS
  <1>3. /\ w = ValueAt(fields, ends, i) /\ b = w + Len(EscapedAll(value)) /\ b = ends[i]
        /\ b <= Len(U) /\ CodeAt(U, w, value)
    BY <1>1, <1>2 DEF FieldIn, ValueAt
  <1>4. U \in Seq(Unit) /\ Len(U) \in Nat /\ Len(fields) \in Nat
    BY DEF UrlWritten, UrlLaid
  <1>5. key # None
    BY <1>2 DEF UrlWritten, FieldWritten
  <1>6. PICK base : base = ParamsAfter(fields, query, i - 1)
    OBVIOUS
  <1>7. PICK pos : /\ w <= c /\ c <= b /\ Spread(value, pos)
                   /\ InValue(p, U, w, value, pos, key, base, c)
    BY <1>2, <1>3, <1>6 DEF AtValue
  <1>8. PICK q : q = Turn(p)
    OBVIOUS
  <1>9. q = ReadValue(p)
    <2>1. p.state = "ProcessValue"
      BY <1>7 DEF InValue, ValueRead
    <2> QED BY <1>8, <2>1, TurnIs
  <1>10. b < Len(U) => U[b + 1] = Char("&")
    <2>1. b = Len(U) <=> i = Len(fields)
      BY <1>3, FieldFollows
    <2>2. i # Len(fields) => U[ends[i] + 1] = Char("&")
      BY FieldFollows
    <2> QED BY <1>3, <2>1, <2>2
  <1>11. /\ ReadsUrl(q)
         /\ \/ \E d \in Nat : /\ c <= d /\ d <= b /\ d <= e
                              /\ InValue(q, U, w, value, pos, key, base, d)
                              /\ q.left = SubSeq(U, d + 1, e)
            \/ b < e /\ ValueDone(q, base, key, value) /\ q.left = SubSeq(U, b + 2, e)
    <2>1. CodeAt(U, w, value) /\ b = w + Len(EscapedAll(value)) /\ b <= Len(U)
      BY <1>3
    <2>2. ValueIsRead(ReadValue(p), U, w, value, pos, key, base, b, c, e)
      BY <1>4, <1>5, <1>7, <1>10, <2>1, ReadValueStep
    <2> QED BY <1>9, <2>2 DEF ValueIsRead
  <1>12. ASSUME NEW d \in Nat, c <= d, d <= b, d <= e,
                InValue(q, U, w, value, pos, key, base, d), q.left = SubSeq(U, d + 1, e)
         PROVE  TurnedTo(q, fields, query, U, ends, c, e)
    <2>1. w <= d
      BY <1>7, <1>12
    <2>2. AtValue(q, fields, query, U, ends, i, d)
      BY <1>2, <1>3, <1>6, <1>7, <1>12, <2>1 DEF AtValue
    <2>3. UrlAt(q, fields, query, U, ends, d)
      BY <2>2 DEF UrlAt, AtField
    <2> QED BY <1>11, <1>12, <2>3 DEF TurnedTo
  <1>13. ASSUME b < e, ValueDone(q, base, key, value), q.left = SubSeq(U, b + 2, e)
         PROVE  TurnedTo(q, fields, query, U, ends, c, e)
    <2>1. b < Len(U) /\ i # Len(fields)
      <3>1. b < Len(U)
        BY <1>4, <1>13
      <3>2. b = Len(U) <=> i = Len(fields)
        BY <1>3, FieldFollows
      <3> QED BY <1>4, <3>1, <3>2
    <2>2. PICK next \in 1 .. Len(fields) : next = i + 1 /\ next - 1 = i
      BY <1>4, <2>1
    <2>3. KeyAt(ends, next) = b + 1
      BY <1>3, <2>1, <2>2, FieldFollows
    <2>4. PICK d \in Nat : d = b + 1 /\ c <= d /\ d <= e /\ d + 1 = b + 2
      BY <1>7, <1>13
    <2>5. q.left = SubSeq(U, d + 1, e)
      BY <1>13, <2>4
    <2>6. InKey(q, U, d, d, ParamsAfter(fields, query, next - 1))
      <3>1. /\ q.state = "Init" /\ q.buf = <<>> /\ q.escape = <<>>
            /\ q.params = WithParam(base, key, value)
        BY <1>13 DEF ValueDone
      <3>2. SubSeq(U, d + 1, d) = <<>>
        BY <1>4, EmptyCut
      <3>3. ParamsAfter(fields, query, i) = WithParam(base, key, value)
        <4>1. i \in Nat /\ i >= 1
          BY <1>4
        <4> QED BY <1>2, <1>6, <4>1, ParamsNext
      <3> QED BY <2>2, <3>1, <3>2, <3>3 DEF InKey
    <2>7. AtKey(q, fields, query, U, ends, next, d)
      <3>1. Len(EscapedAll(fields[next].key)) \in Nat
        <4>1. \E a2 \in Nat, w2 \in Nat, b2 \in Nat : FieldIn(fields, U, ends, next, a2, w2, b2)
          BY FieldFacts
        <4> QED BY <4>1 DEF FieldIn
      <3>2. d <= d + Len(EscapedAll(fields[next].key)) /\ d <= d
        BY <3>1
      <3> QED BY <2>3, <2>4, <2>6, <3>2 DEF AtKey
    <2>8. UrlAt(q, fields, query, U, ends, d)
      BY <2>7 DEF UrlAt, AtField
    <2> QED BY <1>11, <2>4, <2>5, <2>8 DEF TurnedTo
  <1> QED BY <1>8, <1>11, <1>12, <1>13

LEMMA UrlTurnStep ==
  ASSUME NEW fields, NEW query, NEW U, NEW ends, UrlWritten(fields, U, ends),
         NEW p, ReadsUrl(p), NEW c \in Nat, UrlAt(p, fields, query, U, ends, c),
         NEW e \in Nat, c <= e, e <= Len(U), p.left = SubSeq(U, c + 1, e), p.left # <<>>
  PROVE  TurnedTo(Turn(p), fields, query, U, ends, c, e)
  <1>1. U \in Seq(Unit) /\ Len(U) \in Nat
    BY DEF UrlWritten, UrlLaid
  <1>2. ~AtNothing(p, fields, query, c)
    <2> SUFFICES ASSUME AtNothing(p, fields, query, c) PROVE FALSE
      OBVIOUS
    <2>1. Len(fields) = 0 /\ c = 0
      BY DEF AtNothing
    <2>2. Len(U) = 0
      BY <2>1 DEF UrlWritten, UrlLaid
    <2>3. e <= c
      BY <2>1, <2>2
    <2>4. SubSeq(U, c + 1, e) = <<>>
      BY <1>1, <2>3, EmptyCut
    <2> QED BY <2>4
  <1>3. PICK i \in 1 .. Len(fields) : AtField(p, fields, query, U, ends, i, c)
    BY <1>2 DEF UrlAt
  <1>4. CASE AtKey(p, fields, query, U, ends, i, c)
    BY <1>4, KeyTurn
  <1>5. CASE AtValue(p, fields, query, U, ends, i, c)
    BY <1>5, ValueTurn
  <1> QED BY <1>3, <1>4, <1>5 DEF AtField

(* A new post processor, and one for which the next piece begins.          *)
LEMMA NewUrlAt ==
  ASSUME NEW form, NEW query, query = [k \in DOMAIN query |-> query[k]],
         form.encoding = "urlencoded", NEW U, NEW ends, UrlWritten(form.fields, U, ends),
         NEW p, p = NewPostProcessor(form, query)
  PROVE  ReadsUrl(p) /\ UrlAt(p, form.fields, query, U, ends, 0)
  <1>1. /\ DOMAIN p = PostFields /\ p.encoding = "urlencoded" /\ p.transfer = "none"
        /\ p.ok = TRUE /\ p.unsupported = FALSE /\ p.state = "Init"
        /\ p.buf = <<>> /\ p.escape = <<>> /\ p.params = query
    BY DEF NewPostProcessor, PostFields
  <1>2. ReadsUrl(p)
    BY <1>1 DEF ReadsUrl
  <1>3. PICK fields : fields = form.fields
    OBVIOUS
  <1>4. UrlWritten(fields, U, ends) /\ Len(fields) \in Nat /\ U \in Seq(Unit) /\ ends[0] = 0
    BY <1>3 DEF UrlWritten, UrlLaid
  <1>5. CASE Len(fields) = 0
    BY <1>1, <1>2, <1>3, <1>5 DEF UrlAt, AtNothing
  <1>6. CASE Len(fields) # 0
    <2>1. 1 \in 1 .. Len(fields) /\ 1 - 1 = 0
      BY <1>4, <1>6
    <2>2. KeyAt(ends, 1) = 0
      BY <1>4, <2>1 DEF KeyAt, Separator
    <2>3. Len(EscapedAll(fields[1].key)) \in Nat
      <3>1. \E a \in Nat, w \in Nat, b \in Nat : FieldIn(fields, U, ends, 1, a, w, b)
        BY <1>4, <2>1, FieldFacts
      <3> QED BY <3>1 DEF FieldIn
    <2>4. InKey(p, U, 0, 0, ParamsAfter(fields, query, 0))
      <3>1. SubSeq(U, 0 + 1, 0) = <<>>
        <4>1. 0 \in Nat /\ 0 <= 0
          OBVIOUS
        <4> QED BY <1>4, <4>1, EmptyCut
      <3> QED BY <1>1, <3>1, ParamsFirst DEF InKey
    <2>5. AtKey(p, fields, query, U, ends, 1, 0)
      <3>1. 0 <= 0 /\ 0 <= 0 + Len(EscapedAll(fields[1].key))
        BY <2>3
      <3> QED BY <2>1, <2>2, <2>4, <3>1 DEF AtKey
    <2> QED BY <1>2, <1>3, <2>1, <2>5 DEF UrlAt, AtField
  <1> QED BY <1>5, <1>6

LEMMA BeginUrlAt ==
  ASSUME NEW fields, NEW query, NEW U, NEW ends, NEW p, ReadsUrl(p),
         NEW c, UrlAt(p, fields, query, U, ends, c), NEW piece
  PROVE  /\ ReadsUrl(Begin(p, piece)) /\ Begin(p, piece).left = piece
         /\ UrlAt(Begin(p, piece), fields, query, U, ends, c)
  <1>1. PICK q : q = Begin(p, piece)
    OBVIOUS
  <1>2. /\ DOMAIN q = PostFields /\ q.left = piece /\ q.encoding = p.encoding
        /\ q.transfer = p.transfer /\ q.ok = p.ok /\ q.unsupported = p.unsupported
        /\ q.state = p.state /\ q.name = p.name /\ q.buf = p.buf /\ q.escape = p.escape
        /\ q.offset = p.offset /\ q.params = p.params
    <2>1. DOMAIN p = PostFields
      BY DEF ReadsUrl
    <2> QED BY <1>1, <2>1 DEF Begin, PostFields
  <1>3. ReadsUrl(q)
    BY <1>2 DEF ReadsUrl
  <1>4. \A a, base : InKey(p, U, a, c, base) => InKey(q, U, a, c, base)
    BY <1>2 DEF InKey
  <1>5. \A a, s, pos, key, base :
          InValue(p, U, a, s, pos, key, base, c) => InValue(q, U, a, s, pos, key, base, c)
    <2>1. \A a, s, pos, key, base, m :
            ValueRead(p, U, a, s, pos, key, base, c, m)
            => ValueRead(q, U, a, s, pos, key, base, c, m)
      BY <1>2 DEF ValueRead
    <2> QED BY <2>1 DEF InValue
  <1>6. \A i : AtField(p, fields, query, U, ends, i, c)
               => AtField(q, fields, query, U, ends, i, c)
    BY <1>4, <1>5 DEF AtField, AtKey, AtValue
  <1>7. AtNothing(p, fields, query, c) => AtNothing(q, fields, query, c)
    BY <1>2 DEF AtNothing
  <1>8. UrlAt(q, fields, query, U, ends, c)
    BY <1>6, <1>7 DEF UrlAt
  <1> QED BY <1>1, <1>2, <1>3, <1>8

(* The newline that ends the last value.                                   *)
LEMMA NothingUnescaped == Unescape(<<>>) = <<>>
  <1>1. Len(<<>>) = 0 /\ Len(<<>>) \in Nat
    OBVIOUS
  <1>2. PICK from : /\ Unescape(<<>>) = from[1]
                    /\ \A i \in 1 .. Len(<<>>) + 3 : from[i] = UnescapedAt(<<>>, i, from)
    BY <1>1, UnescapeFacts
  <1>3. 1 \in 1 .. Len(<<>>) + 3 /\ 1 > Len(<<>>)
    BY <1>1
  <1>4. from[1] = UnescapedAt(<<>>, 1, from)
    BY <1>2, <1>3
  <1>5. UnescapedAt(<<>>, 1, from) = <<>>
    BY <1>3, Zenon DEF UnescapedAt
  <1> QED BY <1>2, <1>4, <1>5

LEMMA FlushTaken ==
  ASSUME NEW p, p.left = <<LF>>, p.escape = <<>>
  PROVE  Taken(p) = 0 /\ Amper(p) = 0
  <1>1. PICK U \in Seq(Unit) : U = <<LF>> /\ Len(U) = 1 /\ U[1] = LF
    <2>1. PICK u \in Unit : u = LF
      BY CharsAreUnits
    <2>2. <<u>> \in Seq(Unit) /\ Len(<<u>>) = 1 /\ <<u>>[1] = u
      OBVIOUS
    <2> QED BY <2>1, <2>2
  <1>2. SubSeq(U, 0 + 1, 1) = U
    <2>1. 0 + 1 = 1
      OBVIOUS
    <2> QED BY <1>1, <2>1, SubSeqFull
  <1>3. StopsAt(U, EndOfValue, 0, 0)
    <2>1. LF \in EndOfValue
      BY DEF EndOfValue
    <2>2. 0 + 1 = 1 /\ 0 + 1 .. 0 = {}
      OBVIOUS
    <2> QED BY <1>1, <2>1, <2>2 DEF StopsAt
  <1>4. Len(p.escape) \in 0 .. 2
    <2>1. Len(<<>>) = 0
      OBVIOUS
    <2> QED BY <2>1
  <1>5. p.left = SubSeq(U, 0 + 1, 1)
    BY <1>1, <1>2
  <1>6. 0 \in Nat /\ 1 \in Nat /\ 0 <= 0 /\ 0 <= 1 /\ 1 <= Len(U) /\ 0 <= Len(U)
    BY <1>1
  <1>7. Taken(p) \in Nat /\ 0 + Taken(p) <= 0
    BY <1>3, <1>4, <1>5, <1>6, TakenFacts
  <1>8. FoundAhead(p.left, EndOfValue, 0, 0, 1)
    BY <1>3, <1>5, <1>6, FindAhead
  <1>9. Find(p.left, EndOfValue) - 1 = 0
    <2>1. Find(p.left, EndOfValue) = 0 - 0 + 1
      BY <1>8 DEF FoundAhead
    <2> QED BY <2>1
  <1>10. Min({0, EscapeBuffer}) = 0
    <2>1. EscapeBuffer \in Nat /\ 0 \in Nat
      BY PostBuffersAssumption
    <2>2. Min({0, EscapeBuffer}) \in Nat /\ Min({0, EscapeBuffer}) <= 0
      BY <2>1, MinOfSizes
    <2> QED BY <2>2
  <1>11. Taken(p) = 0
    BY <1>7
  <1>12. Amper(p) = 0
    BY <1>9, <1>10 DEF Amper
  <1> QED BY <1>11, <1>12

LEMMA FlushIs ==
  ASSUME NEW p, p.left = <<LF>>, p.escape = <<>>
  PROVE  /\ ReadValue(p) = [ValueSent(p) EXCEPT !.state = "ExpectNewLine"]
         /\ ValueSent(p) = Deliver(ValueQueued(p), <<>>)
         /\ ValueQueued(p) = [p EXCEPT !.escape = <<>>, !.left = <<LF>>]
  <1>1. PICK U \in Seq(Unit) : U = <<LF>> /\ Len(U) = 1 /\ U[1] = LF
    <2>1. PICK u \in Unit : u = LF
      BY CharsAreUnits
    <2>2. <<u>> \in Seq(Unit) /\ Len(<<u>>) = 1 /\ <<u>>[1] = u
      OBVIOUS
    <2> QED BY <2>1, <2>2
  <1>2. Taken(p) = 0 /\ Amper(p) = 0
    BY FlushTaken
  <1>3. ValueText(p) = <<>>
    <2>1. SubSeq(U, 1, 0) = <<>>
      BY <1>1, SubSeqEmpty
    <2>2. <<>> \o <<>> = <<>>
      OBVIOUS
    <2> QED BY <1>1, <1>2, <2>1, <2>2 DEF ValueText
  <1>4. ValueKept(p) = 0
    <2>1. Len(<<>>) = 0
      OBVIOUS
    <2>2. Incomplete(<<>>) = 0
      BY <2>1 DEF Incomplete
    <2> QED BY <1>3, <2>1, <2>2 DEF ValueKept
  <1>5. ValueLeft(p) = U
    <2>1. 0 + 1 = 1
      OBVIOUS
    <2>2. SubSeq(U, 1, 1) = U
      BY <1>1, SubSeqFull
    <2> QED BY <1>1, <1>2, <2>1, <2>2 DEF ValueLeft
  <1>6. ValueLeft(p) # <<>> /\ ValueLeft(p)[1] = LF
    <2>1. Len(<<>>) = 0
      OBVIOUS
    <2> QED BY <1>1, <1>5, <2>1
  <1>7. LF \in EndOfValue /\ LF # Char("&")
    <2>1. "LF" # "&"
      OBVIOUS
    <2> QED BY <2>1, CharFacts DEF EndOfValue, LF
  <1>8. ValueEnded(p)
    <2>1. 0 < Len(p.left) /\ p.left[0 + 1] = LF
      BY <1>1
    <2> QED BY <1>2, <1>7, <2>1 DEF ValueEnded
  <1>9. ReadValue(p) = [ValueSent(p) EXCEPT !.state = "ExpectNewLine"]
    BY <1>4, <1>6, <1>7, <1>8, ReadValueIs, Zenon
  <1>10. SubSeq(<<>>, 1, 0) = <<>> /\ SubSeq(<<>>, 0 + 1, Len(<<>>)) = <<>>
    <2>1. <<>> \in Seq(Unit) /\ Len(<<>>) = 0 /\ 0 + 1 = 1
      OBVIOUS
    <2> QED BY <2>1, SubSeqEmpty
  <1>11. ValueSent(p) = Deliver(ValueQueued(p), <<>>)
    BY <1>3, <1>4, <1>10, NothingUnescaped DEF ValueSent
  <1>12. ValueQueued(p) = [p EXCEPT !.escape = <<>>, !.left = <<LF>>]
    BY <1>1, <1>3, <1>4, <1>5, <1>10 DEF ValueQueued
  <1> QED BY <1>9, <1>11, <1>12

LEMMA ValueFlushed ==
  ASSUME NEW p, ReadsUrl(p), NEW U \in Seq(Unit), NEW s, NEW pos, Spread(s, pos),
         NEW a \in Nat, NEW key, key # None, NEW base, NEW b \in Nat,
         b = a + Len(EscapedAll(s)), InValue(p, U, a, s, pos, key, base, b)
  PROVE  Destroyed(p).params = WithParam(base, key, s)
  <1>1. s \in Seq(Unit) /\ Len(s) \in Nat /\ Len(EscapedAll(s)) \in Nat
        /\ pos[Len(s)] = Len(EscapedAll(s))
    <2>1. s \in Seq(Unit) /\ EscapedAll(s) \in Seq(Unit)
          /\ pos[Len(s)] = Len(EscapedAll(s))
      BY DEF Spread
    <2> QED BY <2>1
  <1>2. PICK m \in 0 .. Len(s) : ValueRead(p, U, a, s, pos, key, base, b, m)
    BY DEF InValue
  <1>3. m = Len(s)
    <2>1. b - a = Len(EscapedAll(s))
      BY <1>1
    <2>2. Pending(s, pos, m, Len(EscapedAll(s)))
      BY <1>2, <2>1 DEF ValueRead
    <2> QED BY <2>2, PendingAtEnd
  <1>4. /\ p.state = "ProcessValue" /\ p.name = key /\ p.offset = Len(s)
        /\ Collected(p.params, base, key, s, Len(s))
        /\ p.escape = SubSeq(U, a + pos[Len(s)] + 1, b)
    BY <1>2, <1>3 DEF ValueRead
  <1>5. p.escape = <<>>
    <2>1. a + pos[Len(s)] = b
      BY <1>1
    <2>2. SubSeq(U, b + 1, b) = <<>>
      BY EmptyCut
    <2> QED BY <1>4, <2>1, <2>2
  <1>6. PICK r : r = Begin(p, <<LF>>)
    OBVIOUS
  <1>7. /\ DOMAIN r = PostFields /\ r.left = <<LF>> /\ r.encoding = p.encoding
        /\ r.transfer = p.transfer /\ r.ok = p.ok /\ r.unsupported = p.unsupported
        /\ r.state = p.state /\ r.name = p.name /\ r.escape = p.escape
        /\ r.offset = p.offset /\ r.params = p.params
    <2>1. DOMAIN p = PostFields
      BY DEF ReadsUrl
    <2> QED BY <1>6, <2>1 DEF Begin, PostFields
  <1>8. PICK q : q = ValueQueued(r)
    OBVIOUS
  <1>9. q = [r EXCEPT !.escape = <<>>, !.left = <<LF>>]
    BY <1>5, <1>7, <1>8, FlushIs
  <1>10. /\ DOMAIN q = PostFields /\ q.transfer = p.transfer /\ q.unsupported = p.unsupported
         /\ q.name = p.name /\ q.offset = p.offset /\ q.params = p.params
    BY <1>7, <1>9 DEF PostFields
  <1>11. PICK sent1 : sent1 = ValueSent(r)
    OBVIOUS
  <1>12. sent1 = Deliver(q, <<>>)
    BY <1>5, <1>7, <1>8, <1>11, FlushIs
  <1>13. Delivered1(q, sent1, <<>>)
    <2>1. q.transfer \in Supported /\ q.unsupported = FALSE /\ q.name # None
      BY <1>4, <1>10 DEF ReadsUrl, Supported
    <2>2. Delivered1(q, Deliver(q, <<>>), <<>>)
      BY <1>10, <2>1, DeliverFacts
    <2> QED BY <1>12, <2>2
  <1>14. sent1.params = WithParam(base, key, s)
    <2>1. SoFar(q, s, key, base, Len(s), s)
      <3>1. q.name = key /\ q.offset = Len(s) /\ Collected(q.params, base, key, s, Len(s))
        BY <1>4, <1>10
      <3> QED BY <1>1, <3>1, ParamSoFar
    <2>2. ParamBefore(q) = s /\ WithParam(q.params, key, s) = WithParam(base, key, s)
      <3>1. SubSeq(s, 1, Len(s)) = s
        BY <1>1, SubSeqFull
      <3> QED BY <2>1, <3>1 DEF SoFar
    <2>3. s \o <<>> = s
      BY <1>1
    <2>4. sent1.params = WithParam(q.params, q.name, ParamBefore(q) \o <<>>)
      BY <1>13 DEF Delivered1
    <2> QED BY <1>4, <1>10, <2>2, <2>3, <2>4
  <1>15. PICK t : t = ReadValue(r)
    OBVIOUS
  <1>16. t = [sent1 EXCEPT !.state = "ExpectNewLine"]
    BY <1>5, <1>7, <1>11, <1>15, FlushIs
  <1>17. DOMAIN sent1 = PostFields
    BY <1>10, <1>13 DEF Delivered1
  <1>18. DOMAIN t = PostFields /\ t.state = "ExpectNewLine" /\ t.params = sent1.params
    BY <1>16, <1>17 DEF PostFields
  <1>19. UrlTurn(r) = t
    BY <1>4, <1>7, <1>15 DEF UrlTurn
  <1>20. UrlTurn(t) = ReadNewLine(t)
    BY <1>18 DEF UrlTurn
  <1>21. Destroyed(p) = ReadNewLine(t)
    BY <1>4, <1>6, <1>19, <1>20 DEF Destroyed
  <1>22. ReadNewLine(t).params = t.params
    BY <1>18 DEF ReadNewLine, PostFields
  <1> QED BY <1>14, <1>18, <1>21, <1>22

(* At the end of the form the parameters are complete.                     *)
LEMMA UrlDestroyed ==
  ASSUME NEW form, NEW query, query = [k \in DOMAIN query |-> query[k]],
         NEW U, NEW ends, UrlWritten(form.fields, U, ends),
         NEW p, ReadsUrl(p), UrlAt(p, form.fields, query, U, ends, Len(U))
  PROVE  Destroyed(p).params = Parameters(form, query)
  <1>1. PICK fields : fields = form.fields
    OBVIOUS
  <1>2. /\ UrlWritten(fields, U, ends) /\ Len(fields) \in Nat /\ U \in Seq(Unit)
        /\ Len(U) \in Nat
    BY <1>1 DEF UrlWritten, UrlLaid
  <1>3. ParamsAfter(fields, query, Len(fields)) = Parameters(form, query)
    BY <1>1, ParamsLast
  <1>4. CASE AtNothing(p, fields, query, Len(U))
    <2>1. Len(fields) = 0 /\ p.state = "Init" /\ p.params = query
      BY <1>4 DEF AtNothing
    <2>2. Destroyed(p) = p
      BY <2>1 DEF Destroyed
    <2> QED BY <1>3, <2>1, <2>2, ParamsFirst
  <1>5. ASSUME NEW i \in 1 .. Len(fields), AtField(p, fields, query, U, ends, i, Len(U))
        PROVE  Destroyed(p).params = Parameters(form, query)
    <2>1. PICK a \in Nat, w \in Nat, b \in Nat : FieldIn(fields, U, ends, i, a, w, b)
      BY <1>2, FieldFacts
    <2>2. PICK key, value : key = fields[i].key /\ value = fields[i].value
      OBVIOUS
    <2>3. PICK k \in Nat, v \in Nat :
            k = Len(EscapedAll(key)) /\ v = Len(EscapedAll(value))
      BY <2>1, <2>2 DEF FieldIn
    <2>4. /\ a = KeyAt(ends, i) /\ w = a + k + 1 /\ b = w + v /\ b = ends[i] /\ b <= Len(U)
      BY <2>1, <2>2, <2>3 DEF FieldIn
    <2>5. ~AtKey(p, fields, query, U, ends, i, Len(U))
      <3> SUFFICES ASSUME AtKey(p, fields, query, U, ends, i, Len(U)) PROVE FALSE
        OBVIOUS
      <3>1. Len(U) <= a + k
        BY <2>2, <2>3, <2>4 DEF AtKey
      <3>2. a + k < b
        BY <2>4
      <3> QED BY <1>2, <2>4, <3>1, <3>2
    <2>6. AtValue(p, fields, query, U, ends, i, Len(U))
      BY <1>5, <2>5 DEF AtField
    <2>7. Len(U) = b
      BY <1>2, <2>4, <2>6 DEF AtValue
    <2>8. i = Len(fields)
      BY <1>2, <2>4, <2>7, FieldFollows
    <2>9. PICK base : base = ParamsAfter(fields, query, i - 1)
      OBVIOUS
    <2>10. PICK pos : Spread(value, pos) /\ InValue(p, U, w, value, pos, key, base, b)
      <3>1. w = ValueAt(fields, ends, i)
        BY <2>2, <2>3, <2>4 DEF ValueAt
      <3> QED BY <2>2, <2>6, <2>7, <2>9, <3>1 DEF AtValue
    <2>11. Destroyed(p).params = WithParam(base, key, value)
      <3>1. key # None
        BY <1>2, <2>2 DEF UrlWritten, FieldWritten
      <3>2. b = w + Len(EscapedAll(value))
        BY <2>3, <2>4
      <3> QED BY <1>2, <2>10, <3>1, <3>2, ValueFlushed
    <2>12. ParamsAfter(fields, query, i) = WithParam(base, key, value)
      <3>1. i \in Nat /\ i >= 1
        BY <1>2
      <3> QED BY <2>2, <2>9, <3>1, ParamsNext
    <2> QED BY <1>3, <2>8, <2>11, <2>12
  <1> QED BY <1>1, <1>4, <1>5 DEF UrlAt

-----------------------------------------------------------------------------
(* The requests with a url-encoded form, and where the fields of the form  *)
(* end in the upload.                                                      *)
UrlRequest(r) ==
  r.form # None /\ EndsAsAForm(r.form) /\ r.form.encoding = "urlencoded"

FieldEnds(r) == CHOOSE ends : UrlLaid(r.form.fields, Upload(r), ends)

UrlUploaded(r) ==
  /\ r.method = "POST" /\ r.query = [k \in DOMAIN r.query |-> r.query[k]]
  /\ UrlWritten(r.form.fields, Upload(r), FieldEnds(r))

LEMMA UrlRequestFacts ==
  ASSUME FormsAreReadable, NEW r \in Requests, UrlRequest(r)
  PROVE  UrlUploaded(r)
  <1>1. /\ r.method = "POST" /\ r.upload # "none" /\ IsReadable(r.form)
        /\ r.query \in [DOMAIN r.query -> Text]
    BY DEF FormsAreReadable, UrlRequest
  <1>2. r.query = [k \in DOMAIN r.query |-> r.query[k]]
    BY <1>1
  <1>3. /\ r.form.encoding = "urlencoded" /\ r.form.after = <<>> /\ r.form # None
        /\ "urlencoded" # "multipart"
    BY DEF UrlRequest, EndsAsAForm
  <1>4. PICK fields : fields = r.form.fields
    OBVIOUS
  <1>5. fields \in Seq(Fields) /\ ReadableUrl(r.form)
    BY <1>1, <1>3, <1>4 DEF IsReadable
  <1>6. Len(fields) \in Nat /\ \A i \in 1 .. Len(fields) : fields[i] \in Fields
    BY <1>5
  <1>7. r.form.before = <<>>
    BY <1>5 DEF ReadableUrl
  <1>8. ASSUME NEW i \in 1 .. Len(fields)
        PROVE  FieldWritten(fields[i])
    <2>1. i \in DOMAIN fields
      BY <1>5
    <2>2. /\ IsEscapable(fields[i].key) /\ IsEscapable(fields[i].value)
          /\ Len(EscapedAll(fields[i].key)) <= PostBuffer
      BY <1>4, <1>5, <2>1 DEF ReadableUrl
    <2>3. fields[i].key \in Text \ {None} /\ fields[i].value \in Text
      BY <1>6 DEF Fields
    <2> QED BY <2>2, <2>3 DEF FieldWritten
  <1>9. \A i \in 1 .. Len(fields) : /\ EscapedAll(fields[i].key) \in Seq(Unit)
                                    /\ EscapedAll(fields[i].value) \in Seq(Unit)
    <2> SUFFICES ASSUME NEW i \in 1 .. Len(fields)
                 PROVE  /\ EscapedAll(fields[i].key) \in Seq(Unit)
                        /\ EscapedAll(fields[i].value) \in Seq(Unit)
      OBVIOUS
    <2>1. PICK pos : Spread(fields[i].key, pos)
      BY <1>8, SpreadExists DEF FieldWritten
    <2>2. PICK pos2 : Spread(fields[i].value, pos2)
      BY <1>8, SpreadExists DEF FieldWritten
    <2> QED BY <2>1, <2>2 DEF Spread
  <1>10. PICK ends : UrlLaid(fields, UrlEncoded(fields), ends)
    BY <1>6, <1>9, UrlLaidOut
  <1>11. Upload(r) = UrlEncoded(fields)
    <2>1. PICK U \in Seq(Unit) : U = UrlEncoded(fields)
      BY <1>10 DEF UrlLaid
    <2>2. Upload(r) = FormBody(r.form)
      BY <1>1, <1>3 DEF Upload
    <2>3. FormBody(r.form) = <<>> \o U \o <<>>
      BY <1>3, <1>4, <1>7, <2>1 DEF FormBody
    <2>4. <<>> \o U = U /\ U \o <<>> = U
      BY <2>1
    <2> QED BY <2>1, <2>2, <2>3, <2>4
  <1>12. UrlLaid(fields, Upload(r), FieldEnds(r))
    BY <1>4, <1>10, <1>11, Zenon DEF FieldEnds
  <1>13. UrlWritten(fields, Upload(r), FieldEnds(r))
    BY <1>6, <1>8, <1>12 DEF UrlWritten
  <1> QED BY <1>1, <1>2, <1>4, <1>13 DEF UrlUploaded

(* The part of the body that is given next is what follows in the upload.  *)
PartIsAhead ==
  /\ Available \in Nat /\ Available >= 1 /\ given \in Nat
  /\ given + Available <= Len(Upload(request))
  /\ SubSeq(buffer, 1, Available)
     = SubSeq(Upload(request), given + 1, given + Available)

LEMMA PartAhead ==
  ASSUME NoneOverruns, Inv, pc \in {"body", "post"}, AtPart
  PROVE  PartIsAhead
  <1>1. /\ buffer # <<>> /\ state = "CONTINUE_SENT" /\ request \in Requests
        /\ (pc = "after body") = FALSE
    BY DEF Inv, LoopInv, ControlInv
  <1>2. PICK n : n = Available
    OBVIOUS
  <1>3. n = Takes(request, upload, chunk, Len(buffer))
    BY <1>2 DEF Available, Takes, Chunked
  <1>4. PICK t \in Nat :
           /\ Unread(request, buffer, input, t)
           /\ InBody(request, FALSE, upload, chunk, given, t)
    BY <1>1, AtBody
  <1>5. request.upload = "chunked" => chunk \notin {None, 0}
    BY DEF AtPart, Chunked
  <1>6. PartTaken(request, buffer, upload, chunk, given, t, n)
    BY <1>1, <1>3, <1>4, <1>5, InBodyPart
  <1>7. PICK U, b, g : U = Upload(request) /\ b = buffer /\ g = given
    OBVIOUS
  <1>8. /\ n \in 1 .. Len(b) /\ g \in Nat /\ g + n <= Len(U)
        /\ \A j \in 1 .. n : b[j] = U[g + j]
    BY <1>1, <1>6, <1>7 DEF PartTaken, NoneOverruns
  <1>9. U \in Seq(Units(request)) /\ Len(U) \in Nat
    BY <1>1, <1>7, UploadFacts
  <1>10. b \in Seq(Units(request)) /\ Len(b) \in Nat
    BY <1>1, <1>4, <1>7, UnreadFacts
  <1>11. n \in Nat /\ n >= 1 /\ n <= Len(b)
    BY <1>8, <1>10
  <1>12. PICK S : S = Units(request)
    OBVIOUS
  <1>13. PICK x : x = SubSeq(b, 1, n)
    OBVIOUS
  <1>14. x \in Seq(S) /\ Len(x) = n /\ \A i \in 1 .. n : x[i] = b[i]
    <2>1. 0 \in Nat /\ 0 <= n /\ 0 + 1 = 1 /\ n - 0 = n /\ \A i \in Int : 0 + i = i
      BY <1>11
    <2>2. /\ SubSeq(b, 0 + 1, n) \in Seq(S) /\ Len(SubSeq(b, 0 + 1, n)) = n - 0
          /\ \A i \in 1 .. n - 0 : SubSeq(b, 0 + 1, n)[i] = b[0 + i]
      BY <1>10, <1>11, <1>12, <2>1, CutFacts
    <2> QED BY <1>13, <2>1, <2>2
  <1>15. PICK y : y = SubSeq(U, g + 1, g + n)
    OBVIOUS
  <1>16. y \in Seq(S) /\ Len(y) = n /\ \A i \in 1 .. n : y[i] = U[g + i]
    <2>1. PICK h \in Nat : h = g + n
      BY <1>8, <1>11
    <2>2. g <= h /\ h <= Len(U) /\ h - g = n
      BY <1>8, <1>11, <2>1
    <2>3. /\ SubSeq(U, g + 1, h) \in Seq(S) /\ Len(SubSeq(U, g + 1, h)) = h - g
          /\ \A i \in 1 .. h - g : SubSeq(U, g + 1, h)[i] = U[g + i]
      BY <1>8, <1>9, <1>12, <2>2, CutFacts
    <2> QED BY <1>15, <2>1, <2>2, <2>3
  <1>17. x = y
    <2>1. \A i \in 1 .. n : x[i] = y[i]
      BY <1>8, <1>14, <1>16
    <2> QED BY <1>14, <1>16, <2>1, SameCut
  <1> QED BY <1>2, <1>7, <1>8, <1>11, <1>13, <1>15, <1>17 DEF PartIsAhead

-----------------------------------------------------------------------------
(* How far the post processor is when it reads the form of a request.      *)
ReadTo(p, r, c) ==
  UrlAt(p, r.form.fields, r.query, Upload(r), FieldEnds(r), c)

WithinLimit == MaxBody = 0 \/ remaining > 0

PartIsRead ==
  /\ Posting
  /\ \E c \in Nat :
       /\ given <= c /\ c <= given + Available
       /\ post.left = SubSeq(Upload(request), c + 1, given + Available)
       /\ ReadTo(post, request, c)

PostInv ==
  UrlRequest(request) /\ state \in Reading \cup {"FOOTERS_RECEIVED"} =>
    /\ ReadsUrl(post)
    /\ pc = "post" => PartIsRead
    /\ pc # "post" /\ WithinLimit => ReadTo(post, request, given)

(* Which steps concern the post processor.                                 *)
Sits ==
  /\ UNCHANGED <<request, post, given, remaining>>
  /\ pc # "post" /\ pc' # "post"
  /\ state' \in Reading \cup {"FOOTERS_RECEIVED"} =>
       state \in Reading \cup {"FOOTERS_RECEIVED"}

LEMMA PostSteps ==
  ASSUME Inv, [Next]_vars
  PROVE  \/ Ends \/ Sits \/ UNCHANGED vars
         \/ FirstCall \/ PostCall \/ PostTurn \/ BodyCall
  <1>1. CASE Read
    BY <1>1 DEF Read, Sits, requestVars
  <1>2. CASE HeaderLine
    <2>1. <<state, state'>> \in LineSteps
      BY <1>2, HeaderLineFacts DEF Inv
    <2>2. UNCHANGED <<request, post, given, remaining>> /\ pc = "idle" /\ pc' # "post"
      BY <1>2 DEF HeaderLine, Becomes, requestVars
    <2> QED BY <2>1, <2>2 DEF Sits, LineSteps, Reading
  <1>3. CASE ParseHeaders
    BY <1>3 DEF ParseHeaders, Idle, Becomes, Sits, requestVars, Reading
  <1>4. CASE WriteHeaders /\ state = "CONTINUE_SENDING"
    BY <1>4 DEF WriteHeaders, Sits, requestVars, Reading
  <1>5. CASE AfterBody
    <2>1. state = "CONTINUE_SENT"
      BY <1>5 DEF AfterBody, BodyIsRead, Idle, Inv, ControlInv
    <2> QED BY <1>5, <2>1 DEF AfterBody, BodyIsRead, Idle, Becomes, Wait, Sits, requestVars, Reading
  <1>6. CASE ChunkLine /\ state' # "CLOSED"
    <2>1. pc' # "post" /\ UNCHANGED <<request, state, given, post, remaining>> /\ pc = "body"
      BY <1>6 DEF ChunkLine, ConnectionClose, Again
    <2> QED BY <2>1 DEF Sits
  <1>7. CASE NoHeaderLine
    BY <1>7 DEF NoHeaderLine, Wait, Sits, requestVars
  <1>8. CASE NothingToDo
    BY <1>8 DEF NothingToDo, Wait, Sits, requestVars
  <1>9. CASE EnterBody
    BY <1>9 DEF EnterBody, Idle, Sits, requestVars
  <1>10. CASE PollTimesOut
    BY <1>10 DEF PollTimesOut, Sits, requestVars
  <1>11. CASE Leave
    BY <1>11 DEF Leave, Sits, requestVars
  <1>12. CASE ReadEnd
    BY <1>12 DEF ReadEnd, ConnectionClose, Ends
  <1>13. CASE SeeShutdown
    BY <1>13 DEF SeeShutdown, ConnectionClose, Ends
  <1>14. CASE WriteHeaders
    BY <1>4, <1>14 DEF WriteHeaders, Ends, Answering, Inv, ControlInv
  <1>15. CASE RefillBody
    <2>1. state \in Answering /\ UNCHANGED request /\ CallReader
      BY <1>15 DEF RefillBody, Idle, Answering
    <2> QED BY <2>1, ReaderFacts DEF Ends, Answering, Inv
  <1>16. CASE SendBody
    BY <1>16 DEF SendBody, Ends, Answering, Inv, ControlInv
  <1>17. CASE MalformedFirstLine
    BY <1>17 DEF MalformedFirstLine, ConnectionClose, Ends
  <1>18. CASE MalformedHeader
    BY <1>18, MalformedIsAnswered, ErrorFacts DEF MalformedHeader, Ends, Answering
  <1>19. CASE HeaderTooLarge \/ NoMemoryForBody
    BY <1>19, LackIsAnswered, ErrorFacts DEF Ends, Answering
  <1>20. CASE ChunkLine
    BY <1>6, <1>20 DEF Ends, ChunkLine
  <1>21. CASE ClosesUnanswered
    BY <1>21, ClosingFacts DEF ConnectionClose, Ends
  <1>22. CASE FinalCall
    BY <1>22 DEF FinalCall, Ends, Answering
  <1>23. CASE FinalCallFails
    BY <1>23 DEF FinalCallFails, ConnectionClose, Ends
  <1>24. CASE HeadersSent
    BY <1>24 DEF HeadersSent, Becomes, Ends, Answering
  <1>25. CASE UnreadyBody
    BY <1>25 DEF UnreadyBody, Becomes, Ends, Answering
  <1>26. CASE ReadBody
    <2>1. state \in Answering /\ UNCHANGED request /\ CallReader
      BY <1>26 DEF ReadBody, Idle, Answering
    <2> QED BY <2>1, ReaderFacts DEF Ends, Answering, Inv
  <1>27. CASE BodySent
    BY <1>27 DEF BodySent, Becomes, Ends, Answering
  <1>28. CASE FootersSent
    BY <1>28 DEF FootersSent, ConnectionClose, Ends
  <1>29. CASE Closed
    BY <1>29 DEF Closed, Idle, Ends
  <1>30. CASE Timeout
    BY <1>30 DEF Timeout, ConnectionClose, Ends
  <1> QED BY <1>1, <1>2, <1>3, <1>5, <1>7, <1>8, <1>9, <1>10, <1>11, <1>12, <1>13,
         <1>14, <1>15, <1>16, <1>17, <1>18, <1>19, <1>20, <1>21, <1>22, <1>23, <1>24,
         <1>25, <1>26, <1>27, <1>28, <1>29, <1>30
          DEF Next, Client, Write, ReceiveHeaders, ReceiveBody, Answer,
              ClosesUnanswered

LEMMA SitsStep ==
  ASSUME PostInv, Sits
  PROVE  PostInv'
  <1> SUFFICES ASSUME UrlRequest(request'), state' \in Reading \cup {"FOOTERS_RECEIVED"}
               PROVE  /\ ReadsUrl(post')
                      /\ pc' = "post" => PartIsRead'
                      /\ pc' # "post" /\ WithinLimit' => ReadTo(post', request', given')
    BY DEF PostInv
  <1>1. UrlRequest(request) /\ state \in Reading \cup {"FOOTERS_RECEIVED"}
    BY DEF Sits
  <1>2. ReadsUrl(post) /\ (WithinLimit => ReadTo(post, request, given))
    BY <1>1 DEF PostInv, Sits
  <1> QED BY <1>2 DEF Sits, WithinLimit, MaxBody

(* The first call makes a post processor.                                  *)
LEMMA FirstPost ==
  ASSUME FormsAreReadable, Inv, FirstCall, UrlRequest(request)
  PROVE  ReadsUrl(post') /\ ReadTo(post', request, given') /\ pc' # "post"
         /\ request' = request
  <1>1. request \in Requests /\ given' = 0 /\ request' = request /\ pc' # "post"
        /\ post' = CreatedPostProcessor
    BY DEF FirstCall, Idle, Becomes, Inv, ControlInv, CountInv, BeforeCall
  <1>2. UrlUploaded(request)
    BY <1>1, UrlRequestFacts
  <1>3. PICK r : r = request
    OBVIOUS
  <1>4. /\ r.query = [k \in DOMAIN r.query |-> r.query[k]] /\ r.method = "POST"
        /\ UrlWritten(r.form.fields, Upload(r), FieldEnds(r))
    BY <1>2, <1>3 DEF UrlUploaded
  <1>5. r.form.encoding = "urlencoded" /\ r.form # None /\ "urlencoded" # "multipart"
    BY <1>3 DEF UrlRequest
  <1>6. post' = NewPostProcessor(r.form, r.query)
    BY <1>1, <1>3, <1>4, <1>5 DEF CreatedPostProcessor, IsForm
  <1>7. ReadsUrl(post') /\ UrlAt(post', r.form.fields, r.query, Upload(r), FieldEnds(r), 0)
    BY <1>4, <1>5, <1>6, NewUrlAt
  <1> QED BY <1>1, <1>3, <1>7 DEF ReadTo

LEMMA FirstPostStep ==
  ASSUME FormsAreReadable, Inv, FirstCall
  PROVE  PostInv'
  <1>1. request' = request
    BY DEF FirstCall
  <1>2. CASE ~UrlRequest(request)
    BY <1>1, <1>2 DEF PostInv
  <1>3. CASE UrlRequest(request)
    <2>1. ReadsUrl(post') /\ ReadTo(post', request', given') /\ pc' # "post"
      BY <1>1, <1>3, FirstPost
    <2> QED BY <2>1 DEF PostInv
  <1> QED BY <1>2, <1>3

(* A part of the form is given to it.                                      *)
LEMMA RemainingIs ==
  ASSUME Inv, KeptInv, PartIsAhead, state = "CONTINUE_SENT"
  PROVE  request.limit = 0 \/ remaining \in Int
  <1>1. PICK gv \in Nat, n \in Nat : gv = given /\ n = Available
    BY DEF PartIsAhead
  <1>2. request \in Requests /\ request.limit \in Nat /\ Len(Upload(request)) \in Nat
    BY UploadFacts, SizesAssumption DEF Inv, ControlInv
  <1>3. gv <= Len(Upload(request))
    BY <1>1, <1>2 DEF PartIsAhead
  <1>4. Kept(request, body, remaining, gv)
    BY <1>1, <1>3 DEF KeptInv, Reading
  <1> QED BY <1>1, <1>2, <1>4 DEF Kept

LEMMA PostCallStep ==
  ASSUME NoneOverruns, Inv, KeptInv, PostInv, PostCall
  PROVE  PostInv'
  <1>1. /\ pc = "body" /\ AtPart /\ Posting
        /\ post' = Begin(post, SubSeq(buffer, 1, Available)) /\ pc' = "post"
        /\ UNCHANGED <<request, buffer, state, upload, chunk, remaining, given>>
    BY DEF PostCall, InChunk, AtPart, readVars, uploadVars
  <1>2. state = "CONTINUE_SENT"
    BY <1>1 DEF Inv, ControlInv
  <1>3. PartIsAhead
    BY <1>1, PartAhead
  <1>4. Available' = Available /\ Posting'
    BY <1>1 DEF Available, Chunked, Posting, IsForm, Fits, MaxBody
  <1> SUFFICES ASSUME UrlRequest(request) PROVE ReadsUrl(post') /\ PartIsRead'
    BY <1>1 DEF PostInv
  <1>5. WithinLimit
    <2>1. Available \in Nat /\ Available >= 1
      BY <1>3 DEF PartIsAhead
    <2>2. request.limit = 0 \/ remaining \in Int
      BY <1>2, <1>3, RemainingIs
    <2>3. request.limit = 0 \/ remaining > Available
      BY <1>1 DEF Posting, Fits, MaxBody
    <2> QED BY <2>1, <2>2, <2>3 DEF WithinLimit, MaxBody
  <1>6. ReadsUrl(post) /\ ReadTo(post, request, given)
    BY <1>1, <1>2, <1>5 DEF PostInv, Reading
  <1>7. PICK piece : piece = SubSeq(buffer, 1, Available)
    OBVIOUS
  <1>8. /\ ReadsUrl(post') /\ post'.left = piece /\ ReadTo(post', request, given)
    <2>1. PICK fields, query, U, ends, c :
            /\ fields = request.form.fields /\ query = request.query
            /\ U = Upload(request) /\ ends = FieldEnds(request) /\ c = given
      OBVIOUS
    <2>2. UrlAt(post, fields, query, U, ends, c)
      BY <1>6, <2>1 DEF ReadTo
    <2>3. /\ ReadsUrl(Begin(post, piece)) /\ Begin(post, piece).left = piece
          /\ UrlAt(Begin(post, piece), fields, query, U, ends, c)
      BY <1>6, <2>2, BeginUrlAt
    <2>4. post' = Begin(post, piece)
      BY <1>1, <1>7
    <2> QED BY <2>1, <2>3, <2>4 DEF ReadTo
  <1>9. /\ given \in Nat /\ given <= given /\ given <= given + Available
        /\ piece = SubSeq(Upload(request), given + 1, given + Available)
    BY <1>3, <1>7 DEF PartIsAhead
  <1>10. PartIsRead'
    <2>1. PICK c \in Nat, n \in Nat : c = given /\ n = Available
      BY <1>3 DEF PartIsAhead
    <2>2. /\ given' = c /\ Available' = n /\ request' = request
          /\ c <= c /\ c <= c + n /\ post'.left = SubSeq(Upload(request), c + 1, c + n)
          /\ ReadTo(post', request, c)
      BY <1>1, <1>4, <1>8, <1>9, <2>1
    <2> QED BY <1>4, <2>2 DEF PartIsRead
  <1> QED BY <1>8, <1>10

(* It reads on in the part.                                                *)
LEMMA PostTurnStep ==
  ASSUME FormsAreReadable, NoneOverruns, Inv, PostInv, PostTurn
  PROVE  PostInv'
  <1>1. /\ pc = "post" /\ ~Finished(post) /\ post' = Turn(post) /\ pc' = "post"
        /\ UNCHANGED <<request, buffer, state, upload, chunk, remaining, given>>
    BY DEF PostTurn, readVars, uploadVars
  <1>2. state = "CONTINUE_SENT" /\ AtPart /\ request \in Requests
    BY <1>1 DEF Inv, ControlInv, LoopInv
  <1>3. PartIsAhead
    BY <1>1, <1>2, PartAhead
  <1>4. Available' = Available /\ Posting' = Posting
    BY <1>1 DEF Available, Chunked, Posting, IsForm, Fits, MaxBody
  <1> SUFFICES ASSUME UrlRequest(request) PROVE ReadsUrl(post') /\ PartIsRead'
    BY <1>1 DEF PostInv
  <1>5. ReadsUrl(post) /\ PartIsRead
    BY <1>1, <1>2 DEF PostInv, Reading
  <1>6. PICK e \in Nat : e = given + Available /\ e <= Len(Upload(request))
    BY <1>3 DEF PartIsAhead
  <1>7. PICK c \in Nat :
          /\ given <= c /\ c <= e /\ post.left = SubSeq(Upload(request), c + 1, e)
          /\ ReadTo(post, request, c)
    BY <1>5, <1>6 DEF PartIsRead
  <1>8. post.left # <<>>
    BY <1>1, <1>5 DEF Finished, ReadsUrl
  <1>9. UrlUploaded(request)
    BY <1>2, UrlRequestFacts
  <1>10. PICK fields, query, U, ends :
           /\ fields = request.form.fields /\ query = request.query
           /\ U = Upload(request) /\ ends = FieldEnds(request)
    OBVIOUS
  <1>11. /\ UrlWritten(fields, U, ends) /\ UrlAt(post, fields, query, U, ends, c)
         /\ e <= Len(U) /\ post.left = SubSeq(U, c + 1, e)
    BY <1>6, <1>7, <1>9, <1>10 DEF UrlUploaded, ReadTo
  <1>12. TurnedTo(post', fields, query, U, ends, c, e)
    <2>1. TurnedTo(Turn(post), fields, query, U, ends, c, e)
      BY <1>5, <1>7, <1>8, <1>11, UrlTurnStep
    <2> QED BY <1>1, <2>1
  <1>13. PICK d \in Nat : /\ c <= d /\ d <= e /\ post'.left = SubSeq(U, d + 1, e)
                          /\ UrlAt(post', fields, query, U, ends, d)
    BY <1>12 DEF TurnedTo
  <1>14. ReadsUrl(post')
    BY <1>12 DEF TurnedTo
  <1>15. PartIsRead'
    <2>1. given \in Nat /\ given <= d
      <3>1. given \in Nat
        BY <1>3 DEF PartIsAhead
      <3> QED BY <1>7, <1>13, <3>1
    <2>2. /\ given' = given /\ given' + Available' = e /\ request' = request /\ Posting'
      BY <1>1, <1>4, <1>5, <1>6 DEF PartIsRead
    <2>3. post'.left = SubSeq(Upload(request), d + 1, e) /\ ReadTo(post', request, d)
      BY <1>10, <1>13 DEF ReadTo
    <2> QED BY <1>13, <2>1, <2>2, <2>3 DEF PartIsRead
  <1> QED BY <1>14, <1>15

(* The part is read to its end, or is not kept.                            *)
LEMMA BodyPostStep ==
  ASSUME FormsAreReadable, NoneOverruns, Inv, PostInv, BodyCall
  PROVE  PostInv'
  <1>1. /\ pc \in {"body", "post"} /\ AtPart /\ ProcessRequestBody(Available)
        /\ given' = given + Available /\ pc' \in {"body", "after body"}
        /\ UNCHANGED <<request, state, post>>
    BY DEF BodyCall, InChunk, AtPart, Inv, LoopInv, Again
  <1>2. state = "CONTINUE_SENT" /\ request \in Requests
    BY <1>1 DEF Inv, ControlInv
  <1>3. PartIsAhead
    BY <1>1, PartAhead
  <1> SUFFICES ASSUME UrlRequest(request)
               PROVE  /\ ReadsUrl(post)
                      /\ WithinLimit' => ReadTo(post, request, given')
    BY <1>1 DEF PostInv
  <1>4. ReadsUrl(post)
    BY <1>2 DEF PostInv, Reading
  <1>5. IsForm
    BY <1>2, UrlRequestFacts DEF UrlUploaded, IsForm, UrlRequest
  <1>6. CASE InChunk /\ ~Posting
    <2>1. ~Fits(Available)
      BY <1>5, <1>6 DEF Posting
    <2>2. remaining' = 0 /\ request.limit # 0
      BY <1>1, <2>1 DEF ProcessRequestBody, Fits, MaxBody
    <2>3. ~WithinLimit'
      <3>1. remaining' = 0 /\ request'.limit # 0
        BY <1>1, <2>2
      <3>2. ~(remaining' > 0)
        BY <3>1
      <3> QED BY <3>1, <3>2, Zenon DEF WithinLimit, MaxBody
    <2> QED BY <1>4, <2>3
  <1>7. CASE pc = "post" /\ Finished(post) /\ post.ok
    <2>1. PartIsRead
      BY <1>2, <1>7 DEF PostInv, Reading
    <2>2. PICK e \in Nat : e = given + Available /\ e <= Len(Upload(request))
      BY <1>3 DEF PartIsAhead
    <2>3. PICK c \in Nat :
            /\ given <= c /\ c <= e /\ post.left = SubSeq(Upload(request), c + 1, e)
            /\ ReadTo(post, request, c)
      BY <2>1, <2>2 DEF PartIsRead
    <2>4. post.left = <<>>
      BY <1>4, <1>7 DEF Finished, ReadsUrl
    <2>5. c = e
      <3>1. PICK U : U = Upload(request)
        OBVIOUS
      <3>2. U \in Seq(Units(request))
        BY <1>2, <3>1, UploadFacts
      <3>3. SubSeq(U, c + 1, e) = <<>> /\ e <= Len(U)
        BY <2>2, <2>3, <2>4, <3>1
      <3>4. Len(SubSeq(U, c + 1, e)) = e - c
        BY <2>3, <3>2, <3>3, CutFacts
      <3>5. Len(<<>>) = 0
        OBVIOUS
      <3>6. e - c = 0
        BY <3>3, <3>4, <3>5
      <3> QED BY <3>6
    <2>6. ReadTo(post, request, given')
      BY <1>1, <2>2, <2>3, <2>5
    <2> QED BY <1>4, <2>6
  <1> QED BY <1>6, <1>7 DEF BodyCall

LEMMA PostStep ==
  ASSUME FormsAreReadable, NoneOverruns, Inv, KeptInv, PostInv, [Next]_vars
  PROVE  PostInv'
  <1>1. CASE Ends
    BY <1>1 DEF Ends, PostInv, Answering, Reading
  <1>2. CASE UNCHANGED vars
    <2>1. UNCHANGED <<request, buffer, state, pc, upload, chunk, remaining, given, post>>
      BY <1>2 DEF vars, readVars, uploadVars, requestVars
    <2>2. PartIsRead' = PartIsRead /\ WithinLimit' = WithinLimit
      BY <2>1 DEF PartIsRead, WithinLimit, MaxBody, Posting, IsForm, Fits, Available, Chunked
    <2> QED BY <2>1, <2>2 DEF PostInv
  <1> QED BY <1>1, <1>2, PostSteps, SitsStep, FirstPostStep, PostCallStep, PostTurnStep,
             BodyPostStep

-----------------------------------------------------------------------------
(* The end: the parameters are those of the form.                          *)
LEMMA FinalParamsAre ==
  ASSUME FormsAreReadable, Inv, KeptInv, PostInv, UrlRequest(request),
         Idle("FOOTERS_RECEIVED"), ~TooLarge
  PROVE  FinalParams = Parameters(request.form, request.query)
  <1>1. /\ state = "FOOTERS_RECEIVED" /\ pc = "idle" /\ request \in Requests
        /\ given = Len(Upload(request))
    BY DEF Idle, Inv, ControlInv, CountInv
  <1>2. PICK r, U, ends : r = request /\ U = Upload(r) /\ ends = FieldEnds(r)
    OBVIOUS
  <1>3. r \in Requests /\ r.limit \in Nat /\ Len(U) \in Nat
    BY <1>1, <1>2, UploadFacts, SizesAssumption
  <1>4. WithinLimit
    <2>1. Kept(request, body, remaining, given)
      BY <1>1, <1>2, <1>3 DEF KeptInv
    <2> QED BY <1>2, <1>3, <2>1 DEF Kept, WithinLimit, TooLarge, MaxBody
  <1>5. ReadsUrl(post) /\ ReadTo(post, request, given)
    BY <1>1, <1>4 DEF PostInv
  <1>6. /\ UrlWritten(r.form.fields, U, ends)
        /\ r.query = [k \in DOMAIN r.query |-> r.query[k]]
    BY <1>1, <1>2, UrlRequestFacts DEF UrlUploaded
  <1>7. UrlAt(post, r.form.fields, r.query, U, ends, Len(U))
    BY <1>1, <1>2, <1>5 DEF ReadTo
  <1>8. Destroyed(post).params = Parameters(r.form, r.query)
    <2>1. PICK form, query, p : form = r.form /\ query = r.query /\ p = post
      OBVIOUS
    <2>2. /\ query = [k \in DOMAIN query |-> query[k]]
          /\ UrlWritten(form.fields, U, ends) /\ ReadsUrl(p)
          /\ UrlAt(p, form.fields, query, U, ends, Len(U))
      BY <1>5, <1>6, <1>7, <2>1
    <2>3. Destroyed(p).params = Parameters(form, query)
      BY <2>2, UrlDestroyed
    <2> QED BY <2>1, <2>3
  <1>9. post # NoPostProcessor
    <2>1. DOMAIN NoPostProcessor = {"state"}
      BY DEF NoPostProcessor
    <2>2. DOMAIN post = PostFields
      BY <1>5 DEF ReadsUrl
    <2>3. "left" \in PostFields /\ "left" # "state"
      BY DEF PostFields
    <2> QED BY <2>1, <2>2, <2>3
  <1> QED BY <1>2, <1>8, <1>9 DEF FinalParams

(* What is said of the end of a form.                                      *)
FormAnswered ==
  UrlRequest(request) =>
    /\ seen # None => seen.params = Parameters(request.form, request.query)
    /\ response # None /\ response.code = 415 =>
         ~ValidUtf8(Parameters(request.form, request.query))

SameAnswer ==
  /\ UNCHANGED <<request, seen>>
  /\ response' # None /\ response'.code = 415 => response # None /\ response.code = 415

LEMMA AnswerSteps ==
  ASSUME Inv, [Next]_vars
  PROVE  SameAnswer \/ FinalCall \/ FinalCallFails
  <1> USE DEF SameAnswer
  <1>1. CASE Read
    BY <1>1 DEF Read, requestVars, responseVars
  <1>2. CASE ReadEnd
    BY <1>2 DEF ReadEnd, requestVars, responseVars
  <1>3. CASE SeeShutdown
    BY <1>3 DEF SeeShutdown, requestVars, responseVars
  <1>4. CASE WriteHeaders
    BY <1>4 DEF WriteHeaders, requestVars, responseVars
  <1>5. CASE RefillBody
    <2>1. state \in Answering /\ UNCHANGED <<request, seen>> /\ CallReader
      BY <1>5 DEF RefillBody, Idle, Answering
    <2> QED BY <2>1, ReaderKeepsCode
  <1>6. CASE SendBody
    BY <1>6 DEF SendBody, requestVars, responseVars
  <1>7. CASE HeaderLine
    BY <1>7 DEF HeaderLine, requestVars, responseVars
  <1>8. CASE NoHeaderLine
    BY <1>8 DEF NoHeaderLine, requestVars, responseVars
  <1>9. CASE MalformedFirstLine
    BY <1>9 DEF MalformedFirstLine, requestVars, responseVars
  <1>10. CASE MalformedHeader
    <2>1. response'.code # 415 /\ UNCHANGED <<request, seen>>
      BY <1>10, MalformedIsAnswered, ErrorFacts DEF MalformedHeader, ErrorCodes
    <2> QED BY <2>1
  <1>11. CASE HeaderTooLarge \/ NoMemoryForBody
    <2>1. response'.code # 415 /\ UNCHANGED <<request, seen>>
      BY <1>11, LackIsAnswered, ErrorFacts DEF requestVars, ErrorCodes
    <2> QED BY <2>1
  <1>12. CASE ParseHeaders
    BY <1>12 DEF ParseHeaders, requestVars, responseVars
  <1>13. CASE FirstCall
    BY <1>13 DEF FirstCall, requestVars, responseVars
  <1>14. CASE NothingToDo
    BY <1>14 DEF NothingToDo, requestVars, responseVars
  <1>15. CASE EnterBody
    BY <1>15 DEF EnterBody, requestVars, responseVars
  <1>16. CASE AfterBody
    BY <1>16 DEF AfterBody, requestVars, responseVars
  <1>17. CASE ChunkLine
    BY <1>17 DEF ChunkLine, requestVars, responseVars
  <1>18. CASE BodyCall
    BY <1>18 DEF BodyCall, requestVars, responseVars
  <1>19. CASE PostCall
    BY <1>19 DEF PostCall, requestVars, responseVars
  <1>20. CASE PostTurn
    BY <1>20 DEF PostTurn, requestVars, responseVars
  <1>21. CASE ClosesUnanswered
    BY <1>21, ClosingFacts DEF responseVars
  <1>22. CASE FinalCall
    BY <1>22
  <1>23. CASE FinalCallFails
    BY <1>23
  <1>24. CASE HeadersSent
    BY <1>24 DEF HeadersSent, requestVars, responseVars
  <1>25. CASE UnreadyBody
    BY <1>25 DEF UnreadyBody, requestVars, responseVars
  <1>26. CASE ReadBody
    <2>1. state \in Answering /\ UNCHANGED <<request, seen>> /\ CallReader
      BY <1>26 DEF ReadBody, Idle, Answering
    <2> QED BY <2>1, ReaderKeepsCode
  <1>27. CASE BodySent
    BY <1>27 DEF BodySent, requestVars, responseVars
  <1>28. CASE FootersSent
    BY <1>28 DEF FootersSent, requestVars
  <1>29. CASE Closed
    BY <1>29 DEF Closed, requestVars
  <1>30. CASE PollTimesOut
    BY <1>30 DEF PollTimesOut, requestVars, responseVars
  <1>31. CASE Leave
    BY <1>31 DEF Leave, requestVars, responseVars
  <1>32. CASE Timeout
    BY <1>32 DEF Timeout, requestVars, responseVars
  <1>33. CASE UNCHANGED vars
    BY <1>33 DEF vars, requestVars, responseVars
  <1> QED BY <1>1, <1>2, <1>3, <1>4, <1>5, <1>6, <1>7, <1>8, <1>9, <1>10,
         <1>11, <1>12, <1>13, <1>14, <1>15, <1>16, <1>17, <1>18, <1>19, <1>20,
         <1>21, <1>22, <1>23, <1>24, <1>25, <1>26, <1>27, <1>28, <1>29, <1>30,
         <1>31, <1>32, <1>33
          DEF Next, Client, Write, ReceiveHeaders, ReceiveBody, Answer,
              ClosesUnanswered

LEMMA FormAnsweredStep ==
  ASSUME FormsAreReadable, Inv, KeptInv, PostInv, FormAnswered, [Next]_vars
  PROVE  FormAnswered'
  <1>1. CASE SameAnswer
    BY <1>1 DEF SameAnswer, FormAnswered
  <1>2. PICK params : params = Parameters(request.form, request.query)
    OBVIOUS
  <1>3. UrlRequest(request) /\ Idle("FOOTERS_RECEIVED") /\ ~TooLarge => FinalParams = params
    BY <1>2, FinalParamsAre
  <1>4. Verdict = 200 => ~TooLarge
    BY DEF Verdict
  <1>5. CASE FinalCall
    <2>1. Idle("FOOTERS_RECEIVED") /\ request' = request
      BY <1>5 DEF FinalCall
    <2> SUFFICES ASSUME UrlRequest(request)
                 PROVE  /\ seen' # None => seen'.params = params
                        /\ response' # None /\ response'.code = 415 => ~ValidUtf8(params)
      BY <1>2, <2>1 DEF FormAnswered
    <2>3. CASE Refuse
      <3>1. response'.code = Verdict /\ UNCHANGED seen
        BY <2>3 DEF Refuse, QueueResponse
      <3>2. Verdict = 415 => ~TooLarge /\ ~ValidUtf8(FinalParams)
        <4>1. post.unsupported = FALSE
          BY <2>1 DEF PostInv, ReadsUrl, Idle
        <4> QED BY <4>1 DEF Verdict
      <3> QED BY <1>2, <1>3, <2>1, <3>1, <3>2 DEF FormAnswered
    <2>4. CASE ServiceHandle
      <3>1. response'.code = 200 /\ seen'.params = FinalParams /\ Verdict = 200
        BY <2>4 DEF ServiceHandle, QueueResponse
      <3> QED BY <1>3, <1>4, <2>1, <3>1
    <2> QED BY <1>5, <2>3, <2>4 DEF FinalCall
  <1>6. CASE FinalCallFails
    <2>1. Idle("FOOTERS_RECEIVED") /\ UNCHANGED <<request, response>>
      BY <1>6 DEF FinalCallFails, responseVars
    <2>2. CASE UNCHANGED seen
      BY <2>1, <2>2 DEF FormAnswered
    <2>3. CASE Verdict = 200 /\ seen' = [body |-> body, params |-> FinalParams]
      <3>1. seen'.params = FinalParams
        BY <2>3
      <3> QED BY <1>2, <1>3, <1>4, <2>1, <2>3, <3>1 DEF FormAnswered
    <2> QED BY <1>6, <2>2, <2>3 DEF FinalCallFails
  <1> QED BY <1>1, <1>5, <1>6, AnswerSteps

LEMMA PostInit == Init => PostInv /\ FormAnswered
  BY DEF Init, PostInv, FormAnswered, Reading

UrlForm == request.form # None /\ request.form.encoding = "urlencoded"

LEMMA FormIsRead ==
  ASSUME Inv, PostInv, FormAnswered, UrlForm
  PROVE  FormIsUnderstood
  <1> SUFFICES ASSUME WellFormedForm PROVE FormIsUnderstood
    BY DEF FormIsUnderstood
  <1>1. UrlRequest(request)
    BY DEF WellFormedForm, UrlForm, UrlRequest
  <1>2. pc = "post" => post.ok
    <2>1. pc = "post" => state \in Reading
      BY DEF Inv, ControlInv, Reading
    <2> QED BY <1>1, <2>1 DEF PostInv, ReadsUrl
  <1> QED BY <1>1, <1>2 DEF FormIsUnderstood, FormAnswered

(* However the network, the chunks and the buffers cut a url-encoded form, *)
(* and however long its names and values are, the post processor refuses   *)
(* no piece of it, the parameters are its fields and the arguments of the  *)
(* query, and the request is refused as unsupported only for what it says  *)
(* (postprocessor.cpp:461-586, rest_server.cpp:156-173).                   *)
THEOREM UrlFormIsUnderstood ==
  ASSUME NoneOverruns, FormsAreReadable
  PROVE  Spec => [](UrlForm => FormIsUnderstood)
  <1>1. KeptInv /\ Inv /\ PostInv /\ FormAnswered /\ [Next]_vars
        => KeptInv' /\ PostInv' /\ FormAnswered'
    BY KeptStep, PostStep, FormAnsweredStep
  <1>2. Inv /\ PostInv /\ FormAnswered => (UrlForm => FormIsUnderstood)
    BY FormIsRead
  <1> QED BY <1>1, <1>2, InvHolds, KeptInit, PostInit, PTL DEF Spec
=============================================================================
