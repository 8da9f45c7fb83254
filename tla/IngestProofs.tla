------------------------------ MODULE IngestProofs ------------------------------
(***************************************************************************)
(* TLAPS proofs about Ingest, for any number of sockets, every capacity of *)
(* the channel, every size of batches and any number of connections.       *)
(***************************************************************************)
EXTENDS Ingest, TLAPS

\* A batch is told from no batch.
LEMMA BatchFacts ==
    ASSUME NEW b \in Batch
    PROVE  /\ b # NoBatch
           /\ b.source \in Source /\ b.number \in 1..MaxSent /\ b.size \in 1..MaxBatch
  <1>1. b.source \in Source /\ b.number \in 1..MaxSent /\ b.size \in 1..MaxBatch
    BY DEF Batch
  <1>2. DOMAIN b = {"source", "number", "size"}
    BY DEF Batch
  <1>3. DOMAIN NoBatch = {}
    BY DEF NoBatch
  <1> QED
    BY <1>1, <1>2, <1>3

\* A batch that its socket accepts comes after all that is on the way.
LEMMA InPlaceReceive ==
    ASSUME NEW s, NEW acc \in Seq(Batch), NEW ack \in Seq(Batch), NEW way \in Seq(Batch),
           InPlace(s, acc, ack, way),
           NEW b \in Batch, b.number = Len(acc) + 1
    PROVE  InPlace(s, Append(acc, b), ack, Append(way, b))
  <1> DEFINE acc2 == Append(acc, b)
             way2 == Append(way, b)
  <1>1. /\ acc2 \in Seq(Batch) /\ Len(acc2) = Len(acc) + 1 /\ acc2[Len(acc) + 1] = b
        /\ \A n \in 1..Len(acc) : acc2[n] = acc[n]
    OBVIOUS
  <1>2. /\ way2 \in Seq(Batch) /\ Len(way2) = Len(way) + 1 /\ way2[Len(way) + 1] = b
        /\ \A i \in 1..Len(way) : way2[i] = way[i]
    OBVIOUS
  <1>3. Len(acc) \in Nat /\ Len(ack) \in Nat /\ Len(way) \in Nat
    OBVIOUS
  <1> HIDE DEF acc2, way2
  <1>4. Len(ack) <= Len(acc2) /\ \A n \in 1..Len(ack) : ack[n] = acc2[n]
    BY <1>1, <1>3 DEF InPlace
  <1>5. \A n \in Len(ack) + 1 .. Len(acc2) : \E i \in 1..Len(way2) : way2[i] = acc2[n]
    <2> TAKE n \in Len(ack) + 1 .. Len(acc2)
    <2>1. CASE n = Len(acc) + 1
      BY <1>1, <1>2, <1>3, <2>1
    <2>2. CASE n # Len(acc) + 1
      <3>1. n \in Len(ack) + 1 .. Len(acc) /\ n \in 1..Len(acc)
        BY <1>1, <1>3, <2>2
      <3>2. PICK i \in 1..Len(way) : way[i] = acc[n]
        BY <3>1 DEF InPlace
      <3> QED
        BY <1>1, <1>2, <1>3, <3>1, <3>2
    <2> QED
      BY <2>1, <2>2
  <1>6. \A i \in 1..Len(way2) : way2[i].source = s =>
          /\ way2[i].number \in Len(ack) + 1 .. Len(acc2)
          /\ way2[i] = acc2[way2[i].number]
    <2> SUFFICES ASSUME NEW i \in 1..Len(way2), way2[i].source = s
                 PROVE  /\ way2[i].number \in Len(ack) + 1 .. Len(acc2)
                        /\ way2[i] = acc2[way2[i].number]
      OBVIOUS
    <2>1. CASE i = Len(way) + 1
      BY <1>1, <1>2, <1>3, <2>1 DEF InPlace
    <2>2. CASE i # Len(way) + 1
      <3>1. i \in 1..Len(way) /\ way2[i] = way[i]
        BY <1>2, <1>3, <2>2
      <3>2. way[i].number \in Len(ack) + 1 .. Len(acc) /\ way[i] = acc[way[i].number]
        BY <3>1 DEF InPlace
      <3> QED
        BY <1>1, <1>3, <3>1, <3>2
    <2> QED
      BY <2>1, <2>2
  <1>7. \A i, j \in 1..Len(way2) :
          i < j /\ way2[i].source = s /\ way2[j].source = s => way2[i].number < way2[j].number
    <2> SUFFICES ASSUME NEW i \in 1..Len(way2), NEW j \in 1..Len(way2),
                        i < j, way2[i].source = s, way2[j].source = s
                 PROVE  way2[i].number < way2[j].number
      OBVIOUS
    <2>1. i \in 1..Len(way) /\ way2[i] = way[i]
      BY <1>2, <1>3
    <2>2. CASE j = Len(way) + 1
      BY <1>2, <1>3, <2>1, <2>2 DEF InPlace
    <2>3. CASE j # Len(way) + 1
      <3>1. j \in 1..Len(way) /\ way2[j] = way[j]
        BY <1>2, <1>3, <2>3
      <3> QED
        BY <2>1, <3>1 DEF InPlace
    <2> QED
      BY <2>2, <2>3
  <1> QED
    BY <1>4, <1>5, <1>6, <1>7 DEF InPlace, acc2, way2

\* The first batch of a socket that is on the way is the next to acknowledge.
LEMMA FirstIsNext ==
    ASSUME NEW s, NEW acc \in Seq(Batch), NEW ack \in Seq(Batch), NEW way \in Seq(Batch),
           InPlace(s, acc, ack, way),
           \A n \in 1..Len(acc) : acc[n].source = s /\ acc[n].number = n,
           way # <<>>, way[1].source = s
    PROVE  /\ Len(ack) < Len(acc) /\ way[1].number = Len(ack) + 1
           /\ way[1] = acc[Len(ack) + 1]
  <1>1. Len(acc) \in Nat /\ Len(ack) \in Nat /\ Len(way) \in Nat \ {0} /\ 1 \in 1..Len(way)
    OBVIOUS
  <1>2. way[1].number \in Len(ack) + 1 .. Len(acc) /\ way[1] = acc[way[1].number]
    BY <1>1 DEF InPlace
  <1>3. Len(ack) + 1 \in Len(ack) + 1 .. Len(acc) /\ Len(ack) + 1 \in 1..Len(acc)
    BY <1>1, <1>2
  <1>4. PICK i \in 1..Len(way) : way[i] = acc[Len(ack) + 1]
    BY <1>3 DEF InPlace
  <1>5. way[i].source = s /\ way[i].number = Len(ack) + 1
    BY <1>3, <1>4
  <1>6. ~(1 < i)
    <2> SUFFICES ASSUME 1 < i PROVE FALSE
      OBVIOUS
    <2>1. way[1].number < way[i].number
      BY <1>1, <1>5 DEF InPlace
    <2> QED
      BY <1>1, <1>2, <1>5, <2>1
  <1>7. i = 1
    BY <1>1, <1>6
  <1> QED
    BY <1>1, <1>2, <1>3, <1>4, <1>5, <1>7

\* Once the first batch on the way is acknowledged the others are in place.
LEMMA InPlaceAcknowledge ==
    ASSUME NEW s, NEW acc \in Seq(Batch), NEW ack \in Seq(Batch), NEW way \in Seq(Batch),
           InPlace(s, acc, ack, way),
           \A n \in 1..Len(acc) : acc[n].source = s /\ acc[n].number = n,
           way # <<>>, way[1].source = s
    PROVE  InPlace(s, acc, Append(ack, way[1]), Tail(way))
  <1> DEFINE ack2 == Append(ack, way[1])
             way2 == Tail(way)
  <1>1. way[1] \in Batch
    OBVIOUS
  <1>2. /\ ack2 \in Seq(Batch) /\ Len(ack2) = Len(ack) + 1 /\ ack2[Len(ack) + 1] = way[1]
        /\ \A n \in 1..Len(ack) : ack2[n] = ack[n]
    BY <1>1
  <1>3. /\ way2 \in Seq(Batch) /\ Len(way2) = Len(way) - 1
        /\ \A i \in 1..Len(way2) : way2[i] = way[i + 1]
    OBVIOUS
  <1>4. Len(acc) \in Nat /\ Len(ack) \in Nat /\ Len(way) \in Nat \ {0} /\ 1 \in 1..Len(way)
    OBVIOUS
  <1>5. /\ Len(ack) < Len(acc) /\ way[1].number = Len(ack) + 1
        /\ way[1] = acc[Len(ack) + 1]
    BY FirstIsNext
  <1> HIDE DEF ack2, way2
  <1>6. Len(ack2) <= Len(acc) /\ \A n \in 1..Len(ack2) : ack2[n] = acc[n]
    <2>1. \A n \in 1..Len(ack) : ack[n] = acc[n]
      BY DEF InPlace
    <2>2. Len(ack2) <= Len(acc)
      BY <1>2, <1>4, <1>5
    <2>3. \A n \in 1..Len(ack2) : n \in 1..Len(ack) \/ n = Len(ack) + 1
      BY <1>2, <1>4
    <2>4. ASSUME NEW n \in 1..Len(ack2) PROVE ack2[n] = acc[n]
      <3>1. CASE n \in 1..Len(ack)
        BY <1>2, <2>1, <3>1
      <3>2. CASE n = Len(ack) + 1
        BY <1>2, <1>5, <3>2
      <3> QED
        BY <2>3, <3>1, <3>2
    <2> QED
      BY <2>2, <2>4
  <1>7. \A n \in Len(ack2) + 1 .. Len(acc) : \E i \in 1..Len(way2) : way2[i] = acc[n]
    <2> TAKE n \in Len(ack2) + 1 .. Len(acc)
    <2>1. n \in Len(ack) + 1 .. Len(acc) /\ n \in 1..Len(acc) /\ n # Len(ack) + 1
      BY <1>2, <1>4
    <2>2. PICK i \in 1..Len(way) : way[i] = acc[n]
      BY <2>1 DEF InPlace
    <2>3. i # 1
      BY <1>5, <2>1, <2>2
    <2>4. i - 1 \in 1..Len(way2) /\ way2[i - 1] = way[(i - 1) + 1] /\ (i - 1) + 1 = i
      BY <1>3, <1>4, <2>3
    <2> QED
      BY <2>2, <2>4
  <1>8. \A i \in 1..Len(way2) : way2[i].source = s =>
          /\ way2[i].number \in Len(ack2) + 1 .. Len(acc)
          /\ way2[i] = acc[way2[i].number]
    <2> SUFFICES ASSUME NEW i \in 1..Len(way2), way2[i].source = s
                 PROVE  /\ way2[i].number \in Len(ack2) + 1 .. Len(acc)
                        /\ way2[i] = acc[way2[i].number]
      OBVIOUS
    <2>1. i + 1 \in 1..Len(way) /\ 1 < i + 1 /\ way2[i] = way[i + 1]
      BY <1>3, <1>4
    <2>2. /\ way[i + 1].number \in Len(ack) + 1 .. Len(acc)
          /\ way[i + 1] = acc[way[i + 1].number]
      BY <2>1 DEF InPlace
    <2>3. way[1].number < way[i + 1].number
      BY <1>4, <2>1 DEF InPlace
    <2> QED
      BY <1>2, <1>4, <1>5, <2>1, <2>2, <2>3
  <1>9. \A i, j \in 1..Len(way2) :
          i < j /\ way2[i].source = s /\ way2[j].source = s => way2[i].number < way2[j].number
    <2> SUFFICES ASSUME NEW i \in 1..Len(way2), NEW j \in 1..Len(way2),
                        i < j, way2[i].source = s, way2[j].source = s
                 PROVE  way2[i].number < way2[j].number
      OBVIOUS
    <2>1. i + 1 \in 1..Len(way) /\ j + 1 \in 1..Len(way) /\ i + 1 < j + 1
      BY <1>3, <1>4
    <2>2. way2[i] = way[i + 1] /\ way2[j] = way[j + 1]
      BY <1>3
    <2>3. way[i + 1].number < way[j + 1].number
      BY <2>1, <2>2 DEF InPlace
    <2> QED
      BY <2>2, <2>3
  <1> QED
    BY <1>6, <1>7, <1>8, <1>9 DEF InPlace, ack2, way2

\* Whether a batch of another socket is on the way makes no difference.
LEMMA InPlaceOther ==
    ASSUME NEW s, NEW acc \in Seq(Batch), NEW ack \in Seq(Batch),
           \A n \in 1..Len(acc) : acc[n].source = s,
           NEW p \in Seq(Batch), NEW h \in Seq(Batch), NEW b \in Batch, b.source # s
    PROVE  InPlace(s, acc, ack, p \o h) <=> InPlace(s, acc, ack, p \o <<b>> \o h)
  <1> DEFINE way1 == p \o h
             way2 == p \o <<b>> \o h
  <1>1. Len(p) \in Nat /\ Len(h) \in Nat
    OBVIOUS
  <1>2. Len(way1) = Len(p) + Len(h) /\ Len(way2) = Len(p) + Len(h) + 1
    OBVIOUS
  <1>3. \A i \in 1..Len(p) : way1[i] = p[i] /\ way2[i] = p[i]
    OBVIOUS
  <1>4. way2[Len(p) + 1] = b
    OBVIOUS
  <1>5. \A i \in 1..Len(h) : way1[Len(p) + i] = h[i] /\ way2[Len(p) + 1 + i] = h[i]
    OBVIOUS
  <1> HIDE DEF way1, way2
  <1> DEFINE Later(i) == IF i <= Len(p) THEN i ELSE i + 1
             Earlier(i) == IF i <= Len(p) THEN i ELSE i - 1
  <1>6. \A i \in 1..Len(way1) : Later(i) \in 1..Len(way2) /\ way2[Later(i)] = way1[i]
    <2> TAKE i \in 1..Len(way1)
    <2>1. CASE i <= Len(p)
      BY <1>1, <1>2, <1>3, <2>1
    <2>2. CASE ~(i <= Len(p))
      <3>1. i - Len(p) \in 1..Len(h) /\ Len(p) + (i - Len(p)) = i
            /\ Len(p) + 1 + (i - Len(p)) = i + 1
        BY <1>1, <1>2, <2>2
      <3>2. way1[i] = h[i - Len(p)] /\ way2[i + 1] = h[i - Len(p)]
        BY <1>5, <3>1
      <3> QED
        BY <1>1, <1>2, <2>2, <3>2
    <2> QED
      BY <2>1, <2>2
  <1>7. \A i \in 1..Len(way2) : way2[i].source = s =>
          Earlier(i) \in 1..Len(way1) /\ way1[Earlier(i)] = way2[i]
    <2> SUFFICES ASSUME NEW i \in 1..Len(way2), way2[i].source = s
                 PROVE  Earlier(i) \in 1..Len(way1) /\ way1[Earlier(i)] = way2[i]
      OBVIOUS
    <2>1. CASE i <= Len(p)
      BY <1>1, <1>2, <1>3, <2>1
    <2>2. CASE ~(i <= Len(p))
      <3>0. i # Len(p) + 1
        BY <1>4
      <3> DEFINE k == i - 1 - Len(p)
      <3>1. k \in 1..Len(h) /\ Len(p) + k = i - 1 /\ Len(p) + 1 + k = i
        BY <1>1, <1>2, <2>2, <3>0
      <3> HIDE DEF k
      <3>2. way1[i - 1] = h[k] /\ way2[i] = h[k]
        BY <1>5, <3>1
      <3>3. i - 1 \in 1..Len(way1)
        BY <1>1, <1>2, <2>2, <3>0
      <3> QED
        BY <2>2, <3>2, <3>3
    <2> QED
      BY <2>1, <2>2
  <1>8. ASSUME InPlace(s, acc, ack, way1) PROVE InPlace(s, acc, ack, way2)
    <2>1. \A n \in Len(ack) + 1 .. Len(acc) : \E i \in 1..Len(way2) : way2[i] = acc[n]
      BY <1>6, <1>8 DEF InPlace
    <2>2. ASSUME NEW i \in 1..Len(way2), way2[i].source = s
          PROVE  /\ way2[i].number \in Len(ack) + 1 .. Len(acc)
                 /\ way2[i] = acc[way2[i].number]
      <3>1. PICK k \in 1..Len(way1) : way1[k] = way2[i]
        BY <1>7, <2>2
      <3> QED
        BY <1>8, <2>2, <3>1 DEF InPlace
    <2>3. ASSUME NEW i \in 1..Len(way2), NEW j \in 1..Len(way2),
                 i < j, way2[i].source = s, way2[j].source = s
          PROVE  way2[i].number < way2[j].number
      <3>1. i # Len(p) + 1 /\ j # Len(p) + 1
        BY <1>4, <2>3
      <3>2. Earlier(i) < Earlier(j)
        BY <1>1, <1>2, <2>3, <3>1
      <3>3. PICK k \in 1..Len(way1), l \in 1..Len(way1) :
              k < l /\ way1[k] = way2[i] /\ way1[l] = way2[j]
        BY <1>7, <2>3, <3>2
      <3> QED
        BY <1>8, <2>3, <3>3 DEF InPlace
    <2> QED
      BY <1>8, <2>1, <2>2, <2>3 DEF InPlace
  <1>9. ASSUME InPlace(s, acc, ack, way2) PROVE InPlace(s, acc, ack, way1)
    <2>1. ASSUME NEW n \in Len(ack) + 1 .. Len(acc)
          PROVE  \E i \in 1..Len(way1) : way1[i] = acc[n]
      <3>1. PICK i \in 1..Len(way2) : way2[i] = acc[n]
        BY <1>9 DEF InPlace
      <3>2. n \in 1..Len(acc)
        OBVIOUS
      <3> QED
        BY <1>7, <3>1, <3>2
    <2>2. ASSUME NEW i \in 1..Len(way1), way1[i].source = s
          PROVE  /\ way1[i].number \in Len(ack) + 1 .. Len(acc)
                 /\ way1[i] = acc[way1[i].number]
      <3>1. PICK k \in 1..Len(way2) : way2[k] = way1[i]
        BY <1>6
      <3> QED
        BY <1>9, <2>2, <3>1 DEF InPlace
    <2>3. ASSUME NEW i \in 1..Len(way1), NEW j \in 1..Len(way1),
                 i < j, way1[i].source = s, way1[j].source = s
          PROVE  way1[i].number < way1[j].number
      <3>1. Later(i) < Later(j)
        BY <1>1, <1>2, <2>3
      <3>2. PICK k \in 1..Len(way2), l \in 1..Len(way2) :
              k < l /\ way2[k] = way1[i] /\ way2[l] = way1[j]
        BY <1>6, <3>1
      <3> QED
        BY <1>9, <2>3, <3>2 DEF InPlace
    <2> QED
      BY <1>9, <2>1, <2>2, <2>3 DEF InPlace
  <1> QED
    BY <1>8, <1>9, Zenon DEF way1, way2

--------------------------------------------------------------------------------
(* The steps. *)

\* What is on the way of each socket is a sequence of batches.
LEMMA WayFacts ==
    ASSUME TypeOK, NEW s \in Source
    PROVE  /\ InPost \in Seq(Batch) /\ queue \in Seq(Batch) /\ hand[s] \in Seq(Batch)
           /\ accepted[s] \in Seq(Batch) /\ acked[s] \in Seq(Batch)
           /\ handled[s] \in Seq((1..MaxSent) \X (1..MaxBatch))
           /\ OnTheWay(s) \in Seq(Batch)
  <1>1. InPost \in Seq(Batch)
    BY DEF TypeOK, InPost
  <1>2. /\ queue \in Seq(Batch) /\ hand[s] \in Seq(Batch)
        /\ accepted[s] \in Seq(Batch) /\ acked[s] \in Seq(Batch)
        /\ handled[s] \in Seq((1..MaxSent) \X (1..MaxBatch))
    BY DEF TypeOK
  <1> HIDE DEF InPost
  <1> QED
    BY <1>1, <1>2 DEF OnTheWay

\* The batch in post comes first, and without it the others keep their places.
LEMMA FirstOnTheWay ==
    ASSUME NEW b \in Batch, NEW q \in Seq(Batch), NEW h \in Seq(Batch)
    PROVE  /\ <<b>> \o q \o h \in Seq(Batch)
           /\ <<b>> \o q \o h # <<>> /\ (<<b>> \o q \o h)[1] = b
           /\ Tail(<<b>> \o q \o h) = <<>> \o q \o h
  <1>1. <<b>> \o q \in Seq(Batch) /\ Len(<<b>> \o q) = 1 + Len(q) /\ (<<b>> \o q)[1] = b
    OBVIOUS
  <1>2. <<>> \o q = q
    OBVIOUS
  <1>3. /\ <<b>> \o q \o h \in Seq(Batch)
        /\ Len(<<b>> \o q \o h) = 1 + Len(q) + Len(h) /\ (<<b>> \o q \o h)[1] = b
    BY <1>1
  <1>4. Tail(<<b>> \o q \o h) = q \o h
    OBVIOUS
  <1> QED
    BY <1>2, <1>3, <1>4

\* The batch in post is the next that its socket waits to have acknowledged.
LEMMA BatchIsNext ==
    ASSUME TypeOK, Numbered, PosterState, NothingLostOrReordered,
           poster \notin {"idle", "stopped"}
    PROVE  /\ batch \in Batch /\ batch.source \in Source
           /\ OnTheWay(batch.source) # <<>> /\ OnTheWay(batch.source)[1] = batch
           /\ batch.number = Len(acked[batch.source]) + 1
  <1>1. batch \in Batch /\ batch.source \in Source /\ batch # NoBatch
    BY BatchFacts DEF PosterState
  <1> DEFINE s == batch.source
             way == OnTheWay(s)
  <1>2. InPost = <<batch>>
    BY <1>1 DEF InPost
  <1>3. queue \in Seq(Batch) /\ hand[s] \in Seq(Batch)
        /\ accepted[s] \in Seq(Batch) /\ acked[s] \in Seq(Batch) /\ way \in Seq(Batch)
    BY <1>1, WayFacts
  <1>4. way # <<>> /\ way[1] = batch
    <2>1. way = <<batch>> \o queue \o hand[s]
      BY <1>2 DEF OnTheWay
    <2> HIDE DEF s, way
    <2>2. /\ <<batch>> \o queue \o hand[s] # <<>>
          /\ (<<batch>> \o queue \o hand[s])[1] = batch
      <3>1. \A b \in Batch, q, h \in Seq(Batch) :
              <<b>> \o q \o h # <<>> /\ (<<b>> \o q \o h)[1] = b
        BY FirstOnTheWay
      <3> QED
        BY <1>1, <1>3, <3>1, Zenon
    <2> QED
      BY <2>1, <2>2, Zenon
  <1>5. /\ InPlace(s, accepted[s], acked[s], way)
        /\ \A n \in 1..Len(accepted[s]) :
              accepted[s][n].source = s /\ accepted[s][n].number = n
    BY <1>1 DEF NothingLostOrReordered, Numbered
  <1>6. way[1].source = s
    BY <1>4
  <1> HIDE DEF s, way
  <1>7. way[1].number = Len(acked[s]) + 1
    BY <1>3, <1>4, <1>5, <1>6, FirstIsNext
  <1> QED
    BY <1>1, <1>4, <1>7 DEF s, way

\* At the beginning nothing has been accepted, posted or attached.
LEMMA InitInd == Init => IndInv
  <1> SUFFICES ASSUME Init PROVE IndInv
    OBVIOUS
  <1> USE DEF Init
  <1>1. TypeOK
    <2>1. /\ client \in 0..MaxConn /\ outgoing \in 0..MaxConn /\ callCtx \in 0..MaxConn
          /\ event \in 0..MaxBatch /\ Len(queue) <= QueueCap
      BY IngestAssumption
    <2>2. /\ hand \in [Source -> Seq(Batch)] /\ queue \in Seq(Batch)
          /\ accepted \in [Source -> Seq(Batch)] /\ acked \in [Source -> Seq(Batch)]
          /\ handled \in [Source -> Seq((1..MaxSent) \X (1..MaxBatch))]
      OBVIOUS
    <2>3. attached \in BOOLEAN /\ appDone \in BOOLEAN
      BY Zenon
    <2> QED
      BY <2>1, <2>2, <2>3, Zenon DEF TypeOK
  <1>2. Numbered /\ PosterState /\ HandledSoFar /\ AckedAreHandled
    BY DEF Numbered, PosterState, HandledSoFar, AckedAreHandled
  <1>3. NothingLostOrReordered
    <2> SUFFICES ASSUME NEW s \in Source
                 PROVE  InPlace(s, accepted[s], acked[s], OnTheWay(s))
      BY DEF NothingLostOrReordered
    <2>1. OnTheWay(s) = <<>> \o <<>> \o <<>>
      BY DEF OnTheWay, InPost
    <2>2. Len(<<>> \o <<>> \o <<>>) = 0
      OBVIOUS
    <2>3. Len(OnTheWay(s)) = 0 /\ Len(acked[s]) = 0 /\ Len(accepted[s]) = 0
      BY <2>1, <2>2
    <2> HIDE DEF Init
    <2> QED
      BY <2>3 DEF InPlace
  <1>4. ContextsInOrder
    BY DEF ContextsInOrder
  <1> QED
    BY <1>1, <1>2, <1>3, <1>4 DEF IndInv

\* Steps that leave sockets, channel and poster alone keep what is said of them.
LEMMA FlowKept ==
    ASSUME IndInv, UNCHANGED <<hand, accepted, queue, poster, batch, event, handled, acked>>
    PROVE  /\ Numbered' /\ PosterState' /\ NothingLostOrReordered'
           /\ AckedAreHandled' /\ HandledSoFar'
  <1> USE DEF IndInv
  <1>1. Numbered' /\ PosterState'
    BY DEF Numbered, PosterState
  <1>2. NothingLostOrReordered'
    BY DEF NothingLostOrReordered, OnTheWay, InPost
  <1>3. AckedAreHandled'
    BY DEF AckedAreHandled
  <1>4. HandledSoFar'
    <2>1. Done' = Done
      BY DEF Done
    <2> QED
      BY <2>1 DEF HandledSoFar
  <1> QED
    BY <1>1, <1>2, <1>3, <1>4

\* Steps of the connection keep the invariant.
LEMMA LinkInd ==
    ASSUME IndInv, LinkStep \/ Shutdown
    PROVE  IndInv'
  <1> USE DEF socketVars, posterVars, historyVars
  <1>1. UNCHANGED <<hand, accepted, queue, poster, batch, event, handled, acked, callCtx, posted>>
    BY DEF LinkStep, Dial, SetContext, AttachFails, Attach, Ready, ConnectionFails,
           CancelConnection, Shutdown
  <1>2. TypeOK'
    <2>1. /\ main' \in {"dial", "dialled", "attach", "serve", "cancel"}
          /\ client' \in 0..MaxConn /\ outgoing' \in 0..MaxConn
      BY IngestAssumption
         DEF IndInv, TypeOK, LinkStep, Dial, SetContext, AttachFails, Attach, Ready,
             ConnectionFails, CancelConnection, Shutdown
    <2>2. attached' \in BOOLEAN /\ appDone' \in BOOLEAN
      BY DEF IndInv, TypeOK, LinkStep, Dial, SetContext, AttachFails, Attach, Ready,
             ConnectionFails, CancelConnection, Shutdown
    <2>3. cancelled' \subseteq 0..MaxConn
      BY DEF IndInv, TypeOK, LinkStep, Dial, SetContext, AttachFails, Attach, Ready,
             ConnectionFails, CancelConnection, Shutdown
    <2>4. served' \subseteq 1..MaxConn
      <3>1. main = "attach" => client \in 1..MaxConn
        BY IngestAssumption DEF IndInv, TypeOK, ContextsInOrder
      <3>2. served' \subseteq served \cup {client} /\ (main # "attach" => served' = served)
        BY DEF LinkStep, Dial, SetContext, AttachFails, Attach, Ready,
               ConnectionFails, CancelConnection, Shutdown
      <3> QED
        BY <3>1, <3>2 DEF IndInv, TypeOK
    <2> QED
      BY <1>1, <2>1, <2>2, <2>3, <2>4 DEF IndInv, TypeOK
  <1>3. ContextsInOrder'
    <2> USE <1>1 DEF IndInv, TypeOK, ContextsInOrder
    <2>1. CASE Dial
      BY <2>1, IngestAssumption DEF Dial
    <2>2. CASE SetContext
      BY <2>2 DEF SetContext
    <2>3. CASE AttachFails \/ Ready \/ ConnectionFails
      BY <2>3 DEF AttachFails, Ready, ConnectionFails
    <2>4. CASE Attach
      BY <2>4 DEF Attach
    <2>5. CASE CancelConnection
      BY <2>5 DEF CancelConnection
    <2>6. CASE Shutdown
      BY <2>6, IngestAssumption DEF Shutdown
    <2> QED
      BY <2>1, <2>2, <2>3, <2>4, <2>5, <2>6 DEF LinkStep
  <1> QED
    BY <1>1, <1>2, <1>3, FlowKept DEF IndInv

\* Steps that leave the connection alone keep what is said of it.
LEMMA ContextsKept ==
    ASSUME IndInv, UNCHANGED linkVars, posted' = posted, callCtx' \in {0, callCtx, outgoing}
    PROVE  ContextsInOrder'
  BY DEF IndInv, TypeOK, ContextsInOrder, linkVars

\* A socket's goroutine accepts a batch behind those that it accepted before.
LEMMA ReceiveInd ==
    ASSUME IndInv, NEW s \in Source, Receive(s)
    PROVE  IndInv'
  <1> USE DEF IndInv
  <1>1. PICK b \in Batch :
          /\ b.source = s /\ b.number = Len(accepted[s]) + 1
          /\ hand' = [hand EXCEPT ![s] = <<b>>]
          /\ accepted' = [accepted EXCEPT ![s] = Append(@, b)]
    BY DEF Receive
  <1>2. /\ UNCHANGED <<linkVars, queue, posterVars, historyVars, appDone>>
        /\ hand[s] = <<>>
    BY DEF Receive
  <1> USE DEF posterVars, historyVars
  <1>3. /\ hand'[s] = <<b>> /\ accepted'[s] = Append(accepted[s], b)
        /\ \A t \in Source \ {s} : hand'[t] = hand[t] /\ accepted'[t] = accepted[t]
    BY <1>1 DEF TypeOK
  <1>4. TypeOK'
    <2>1. hand' \in [Source -> Seq(Batch)] /\ accepted' \in [Source -> Seq(Batch)]
      BY <1>1 DEF TypeOK
    <2> QED
      BY <1>2, <2>1 DEF TypeOK, linkVars
  <1>5. Numbered'
    <2> SUFFICES ASSUME NEW t \in Source
                 PROVE  /\ \A n \in 1..Len(accepted'[t]) :
                              accepted'[t][n].source = t /\ accepted'[t][n].number = n
                        /\ hand'[t] = <<>> \/ \E c \in Batch : c.source = t /\ hand'[t] = <<c>>
      BY DEF Numbered
    <2>1. CASE t = s
      <3>1. accepted[s] \in Seq(Batch)
        BY WayFacts
      <3>2. \A n \in 1..Len(accepted[s]) :
              accepted[s][n].source = s /\ accepted[s][n].number = n
        BY DEF Numbered
      <3>3. \A n \in 1..Len(Append(accepted[s], b)) :
              /\ Append(accepted[s], b)[n].source = s
              /\ Append(accepted[s], b)[n].number = n
        BY <1>1, <3>1, <3>2
      <3> QED
        BY <1>1, <1>3, <2>1, <3>3
    <2>2. CASE t # s
      BY <1>3, <2>2 DEF Numbered
    <2> QED
      BY <2>1, <2>2
  <1>6. PosterState' /\ AckedAreHandled'
    BY <1>2 DEF PosterState, AckedAreHandled
  <1>7. HandledSoFar'
    <2>1. Done' = Done
      BY <1>2 DEF Done
    <2> QED
      BY <1>2, <2>1 DEF HandledSoFar
  <1>8. NothingLostOrReordered'
    <2> SUFFICES ASSUME NEW t \in Source
                 PROVE  InPlace(t, accepted'[t], acked'[t], OnTheWay(t)')
      BY DEF NothingLostOrReordered
    <2>1. InPost' = InPost /\ acked' = acked /\ queue' = queue
      BY <1>2 DEF InPost
    <2>2. InPlace(t, accepted[t], acked[t], OnTheWay(t))
      BY DEF NothingLostOrReordered
    <2>3. CASE t = s
      <3>1. OnTheWay(s)' = InPost \o queue \o <<b>> /\ OnTheWay(s) = InPost \o queue \o <<>>
        BY <1>2, <1>3, <2>1 DEF OnTheWay
      <3>2. InPost \in Seq(Batch) /\ queue \in Seq(Batch)
            /\ accepted[s] \in Seq(Batch) /\ acked[s] \in Seq(Batch)
            /\ OnTheWay(s) \in Seq(Batch)
        BY WayFacts
      <3>3. InPost \o queue \o <<b>> = Append(InPost \o queue \o <<>>, b)
        <4> HIDE DEF InPost
        <4>1. \A p \in Seq(Batch) : p \o <<b>> = Append(p \o <<>>, b)
          OBVIOUS
        <4> QED
          BY <3>2, <4>1
      <3>4. InPlace(s, Append(accepted[s], b), acked[s], Append(OnTheWay(s), b))
        BY <1>1, <2>2, <2>3, <3>2, InPlaceReceive, Zenon
      <3> QED
        BY <1>3, <2>1, <2>3, <3>1, <3>3, <3>4, Zenon
    <2>4. CASE t # s
      BY <1>3, <2>1, <2>2, <2>4 DEF OnTheWay
    <2> QED
      BY <2>3, <2>4
  <1>9. ContextsInOrder'
    BY <1>2, ContextsKept
  <1> QED
    BY <1>4, <1>5, <1>6, <1>7, <1>8, <1>9

\* A batch that goes from its goroutine into the channel overtakes none of its
\* own socket, and those of others keep their order.
LEMMA EnqueueInd ==
    ASSUME IndInv, NEW s \in Source, Enqueue(s)
    PROVE  IndInv'
  <1> USE DEF IndInv
  <1>1. /\ UNCHANGED <<linkVars, accepted, posterVars, historyVars, appDone>>
        /\ queue' = queue \o hand[s] /\ Len(queue) < QueueCap /\ hand[s] # <<>>
        /\ hand' = [hand EXCEPT ![s] = <<>>]
    BY DEF Enqueue
  <1> USE DEF posterVars, historyVars
  <1>2. PICK b \in Batch : b.source = s /\ hand[s] = <<b>>
    BY <1>1 DEF Numbered
  <1>3. hand'[s] = <<>> /\ \A t \in Source \ {s} : hand'[t] = hand[t]
    BY <1>1 DEF TypeOK
  <1>4. TypeOK'
    <2>1. hand' \in [Source -> Seq(Batch)]
      BY <1>1 DEF TypeOK
    <2>2. queue' \in Seq(Batch) /\ Len(queue') <= QueueCap
      BY <1>1, <1>2, IngestAssumption DEF TypeOK
    <2> QED
      BY <1>1, <2>1, <2>2 DEF TypeOK, linkVars
  <1>5. Numbered'
    BY <1>1, <1>3 DEF Numbered
  <1>6. PosterState' /\ AckedAreHandled'
    <2>1. UNCHANGED <<poster, batch, event, acked, handled>>
      BY <1>1
    <2> HIDE DEF IndInv
    <2>2. PosterState'
      BY <2>1 DEF PosterState, IndInv
    <2>3. AckedAreHandled'
      BY <2>1 DEF AckedAreHandled, IndInv
    <2> QED
      BY <2>2, <2>3
  <1>7. HandledSoFar'
    <2>1. Done' = Done
      BY <1>1 DEF Done
    <2> QED
      BY <1>1, <2>1 DEF HandledSoFar
  <1>8. NothingLostOrReordered'
    <2> SUFFICES ASSUME NEW t \in Source
                 PROVE  InPlace(t, accepted[t], acked[t], OnTheWay(t)')
      BY <1>1 DEF NothingLostOrReordered
    <2>1. InPost' = InPost
      BY <1>1 DEF InPost
    <2>2. InPlace(t, accepted[t], acked[t], OnTheWay(t))
      BY DEF NothingLostOrReordered
    <2>3. /\ InPost \in Seq(Batch) /\ queue \in Seq(Batch) /\ hand[t] \in Seq(Batch)
          /\ accepted[t] \in Seq(Batch) /\ acked[t] \in Seq(Batch)
      BY WayFacts
    <2>4. OnTheWay(t)' = InPost \o (queue \o <<b>>) \o hand'[t]
      BY <1>1, <1>2, <2>1 DEF OnTheWay
    <2>5. InPost \o (queue \o <<b>>) = (InPost \o queue) \o <<b>>
      <3> HIDE DEF InPost
      <3> QED
        BY <2>3
    <2>6. InPost \o queue \in Seq(Batch)
      BY <2>3
    <2>7. CASE t = s
      <3>1. \A p \in Seq(Batch) : p \o <<b>> \o <<>> = p \o <<b>>
        OBVIOUS
      <3> QED
        BY <1>2, <1>3, <2>2, <2>4, <2>5, <2>6, <2>7, <3>1 DEF OnTheWay
    <2>8. CASE t # s
      <3>1. \A n \in 1..Len(accepted[t]) : accepted[t][n].source = t
        BY DEF Numbered
      <3>2. hand'[t] = hand[t] /\ b.source # t
        BY <1>2, <1>3, <2>8
      <3>3. OnTheWay(t) = (InPost \o queue) \o hand[t]
        BY DEF OnTheWay
      <3>4. OnTheWay(t)' = (InPost \o queue) \o <<b>> \o hand[t]
        BY <2>4, <2>5, <3>2
      <3>5. InPlace(t, accepted[t], acked[t], (InPost \o queue) \o <<b>> \o hand[t])
        <4> DEFINE p == InPost \o queue
        <4>1. p \in Seq(Batch) /\ InPlace(t, accepted[t], acked[t], p \o hand[t])
          BY <2>2, <2>6, <3>3
        <4> HIDE DEF p
        <4>2. InPlace(t, accepted[t], acked[t], p \o <<b>> \o hand[t])
          BY <2>3, <3>1, <3>2, <4>1, InPlaceOther
        <4> QED
          BY <4>2 DEF p
      <3> QED
        BY <3>4, <3>5
    <2> QED
      BY <2>7, <2>8
  <1>9. ContextsInOrder'
    BY <1>1, ContextsKept
  <1> QED
    BY <1>4, <1>5, <1>6, <1>7, <1>8, <1>9

\* The poster takes the batch that is first in the channel.
LEMMA TakeInd ==
    ASSUME IndInv, Take
    PROVE  IndInv'
  <1>1. /\ poster = "idle" /\ poster' = "check" /\ queue # <<>> /\ event' = 1
        /\ batch' = Head(queue) /\ queue' = Tail(queue)
        /\ UNCHANGED <<linkVars, hand, accepted, callCtx, handled, acked, posted, appDone>>
    BY DEF Take, socketVars, historyVars
  <1>2. /\ TypeOK /\ Numbered /\ PosterState /\ NothingLostOrReordered
        /\ AckedAreHandled /\ HandledSoFar
    BY DEF IndInv
  <1>3. batch' \in Batch /\ queue' \in Seq(Batch) /\ Len(queue') <= QueueCap
    BY <1>1, <1>2, IngestAssumption DEF TypeOK
  <1>4. batch = NoBatch /\ batch' # NoBatch /\ batch'.size \in 1..MaxBatch
    BY <1>1, <1>2, <1>3, BatchFacts DEF PosterState
  <1>5. TypeOK'
    <2>1. event' \in 0..MaxBatch
      BY <1>1, IngestAssumption
    <2> QED
      BY <1>1, <1>2, <1>3, <2>1 DEF TypeOK, linkVars
  <1>6. Numbered'
    BY <1>1, <1>2 DEF Numbered
  <1>7. PosterState'
    <2>1. event' \in 1..batch'.size
      BY <1>1, <1>4
    <2> QED
      BY <1>1, <1>3, <2>1 DEF PosterState
  <1>8. NothingLostOrReordered'
    <2> SUFFICES ASSUME NEW t \in Source
                 PROVE  InPlace(t, accepted[t], acked[t], OnTheWay(t)')
      BY <1>1 DEF NothingLostOrReordered
    <2>1. OnTheWay(t)' = <<Head(queue)>> \o Tail(queue) \o hand[t]
      BY <1>1, <1>4 DEF OnTheWay, InPost
    <2>2. OnTheWay(t) = <<>> \o queue \o hand[t]
      BY <1>4 DEF OnTheWay, InPost
    <2>3. <<Head(queue)>> \o Tail(queue) = <<>> \o queue
      BY <1>1, <1>2 DEF TypeOK
    <2> QED
      BY <1>2, <2>1, <2>2, <2>3 DEF NothingLostOrReordered
  <1>9. AckedAreHandled'
    BY <1>1, <1>2 DEF AckedAreHandled
  <1>10. HandledSoFar'
    <2>1. Done' = {}
      BY <1>1 DEF Done
    <2>2. \A s \in Source : \A j \in 1..Len(handled[s]) : handled[s][j][1] <= Len(acked[s])
      BY <1>1, <1>2 DEF HandledSoFar
    <2> QED
      BY <1>1, <2>1, <2>2 DEF HandledSoFar
  <1>11. ContextsInOrder'
    BY <1>1, ContextsKept
  <1> QED
    BY <1>5, <1>6, <1>7, <1>8, <1>9, <1>10, <1>11 DEF IndInv

\* The post of an event returns: it is the next that is handled of its socket.
LEMMA HandledInd ==
    ASSUME IndInv, Handled, poster \in {"check", "call"},
           UNCHANGED <<hand, accepted, queue, batch, acked>>
    PROVE  /\ handled' \in [Source -> Seq((1..MaxSent) \X (1..MaxBatch))]
           /\ poster' \in {"check", "ack"} /\ event' \in 0..MaxBatch
           /\ Numbered' /\ PosterState' /\ NothingLostOrReordered'
           /\ AckedAreHandled' /\ HandledSoFar'
  <1>1. /\ TypeOK /\ Numbered /\ PosterState /\ NothingLostOrReordered
        /\ AckedAreHandled /\ HandledSoFar
    BY DEF IndInv
  <1> DEFINE s == batch.source
             e == <<batch.number, event>>
             E == (1..MaxSent) \X (1..MaxBatch)
  <1>2. /\ batch \in Batch /\ s \in Source /\ batch.number = Len(acked[s]) + 1
        /\ batch.number \in 1..MaxSent /\ batch.size \in 1..MaxBatch
    BY <1>1, BatchIsNext, BatchFacts
  <1>3. event \in 1..batch.size
    BY <1>1 DEF PosterState
  <1>4. e \in E
    BY <1>2, <1>3, IngestAssumption
  <1>5. handled \in [Source -> Seq(E)] /\ handled' = [handled EXCEPT ![s] = Append(@, e)]
    BY <1>1 DEF TypeOK, Handled
  <1>6. /\ poster' \in {"check", "ack"} /\ event' \in 1..batch.size
        /\ poster' = "ack" => event' = batch.size
        /\ Done = 1..(event - 1) /\ Done' = 1..event
    BY <1>2, <1>3, IngestAssumption DEF Handled, Done
  <1>7. /\ Len(acked[s]) \in Nat /\ handled[s] \in Seq(E)
    BY <1>1, <1>2, WayFacts
  <1> DEFINE h == handled[s]
  <1>8. /\ handled'[s] = Append(h, e)
        /\ \A t \in Source \ {s} : handled'[t] = handled[t]
    BY <1>2, <1>5
  <1> HIDE DEF e, E
  <1>9. /\ Len(handled'[s]) = Len(h) + 1 /\ Len(h) \in Nat /\ handled'[s][Len(h) + 1] = e
        /\ \A j \in 1..Len(h) : handled'[s][j] = h[j]
    BY <1>4, <1>7, <1>8
  <1>10. handled' \in [Source -> Seq(E)]
    BY <1>2, <1>4, <1>5, <1>7
  <1>11. \A j \in 1..Len(h) : Before(h[j], e)
    <2> TAKE j \in 1..Len(h)
    <2>1. \/ h[j][1] <= Len(acked[s])
          \/ h[j][1] = batch.number /\ h[j][2] \in Done
      BY <1>1, <1>2 DEF HandledSoFar
    <2>2. h[j] \in (1..MaxSent) \X (1..MaxBatch)
      BY <1>7 DEF E
    <2> QED
      BY <1>2, <1>3, <1>6, <1>7, <2>1, <2>2 DEF Before, e
  <1>12. AckedAreHandled'
    <2> SUFFICES ASSUME NEW t \in Source
                 PROVE  /\ \A i \in 1..Len(acked[t]) : \A f \in 1..acked[t][i].size :
                              \E j \in 1..Len(handled'[t]) :
                                  handled'[t][j] = <<acked[t][i].number, f>>
                        /\ \A j \in 1..Len(handled'[t]) : \A i \in 1..(j - 1) :
                              Before(handled'[t][i], handled'[t][j])
      BY DEF AckedAreHandled
    <2>1. /\ \A i \in 1..Len(acked[t]) : \A f \in 1..acked[t][i].size :
               \E j \in 1..Len(handled[t]) : handled[t][j] = <<acked[t][i].number, f>>
          /\ \A j \in 1..Len(handled[t]) : \A i \in 1..(j - 1) :
               Before(handled[t][i], handled[t][j])
      BY <1>1 DEF AckedAreHandled
    <2>2. CASE t # s
      BY <1>8, <2>1, <2>2
    <2>3. CASE t = s
      <3>1. ASSUME NEW i \in 1..Len(acked[t]), NEW f \in 1..acked[t][i].size
            PROVE  \E j \in 1..Len(handled'[t]) : handled'[t][j] = <<acked[t][i].number, f>>
        <4>1. PICK j \in 1..Len(h) : h[j] = <<acked[t][i].number, f>>
          BY <2>1, <2>3
        <4>2. j \in 1..Len(handled'[t]) /\ handled'[t][j] = h[j]
          BY <1>9, <2>3
        <4> QED
          BY <4>1, <4>2
      <3>2. ASSUME NEW j \in 1..Len(handled'[t]), NEW i \in 1..(j - 1)
            PROVE  Before(handled'[t][i], handled'[t][j])
        <4>1. i \in 1..Len(h) /\ handled'[t][i] = h[i]
          BY <1>9, <2>3
        <4>2. CASE j = Len(h) + 1
          BY <1>9, <1>11, <2>3, <4>1, <4>2
        <4>3. CASE j # Len(h) + 1
          <5>1. j \in 1..Len(h) /\ handled'[t][j] = h[j]
            BY <1>9, <2>3, <4>3
          <5> QED
            BY <2>1, <2>3, <4>1, <5>1
        <4> QED
          BY <4>2, <4>3
      <3> QED
        BY <3>1, <3>2
    <2> QED
      BY <2>2, <2>3
  <1>13. HandledSoFar'
    <2>1. ASSUME NEW f \in Done'
          PROVE  \E j \in 1..Len(handled'[s]) : handled'[s][j] = <<batch.number, f>>
      <3>1. CASE f = event
        <4>1. Len(h) + 1 \in 1..Len(handled'[s])
          BY <1>9
        <4>2. handled'[s][Len(h) + 1] = <<batch.number, f>>
          BY <1>9, <3>1 DEF e
        <4> QED
          BY <4>1, <4>2
      <3>2. CASE f # event
        <4>1. f \in Done
          BY <1>3, <1>6, <3>2
        <4>2. PICK j \in 1..Len(h) : h[j] = <<batch.number, f>>
          BY <1>1, <4>1 DEF HandledSoFar
        <4>3. j \in 1..Len(handled'[s]) /\ handled'[s][j] = h[j]
          BY <1>9
        <4> QED
          BY <4>2, <4>3, Zenon
      <3> QED
        BY <3>1, <3>2
    <2>2. ASSUME NEW t \in Source, NEW j \in 1..Len(handled'[t])
          PROVE  \/ handled'[t][j][1] <= Len(acked[t])
                 \/ /\ batch.source = t
                    /\ handled'[t][j][1] = batch.number /\ handled'[t][j][2] \in Done'
      <3>1. CASE t # s
        BY <1>1, <1>8, <3>1 DEF HandledSoFar
      <3>2. CASE t = s /\ j = Len(h) + 1
        <4>1. e[1] = batch.number /\ e[2] = event /\ event \in Done'
          BY <1>3, <1>6 DEF e
        <4> QED
          BY <1>9, <3>2, <4>1
      <3>3. CASE t = s /\ j # Len(h) + 1
        <4>1. j \in 1..Len(h) /\ handled'[t][j] = h[j]
          BY <1>9, <3>3
        <4>2. Done \subseteq Done'
          BY <1>3, <1>6
        <4> QED
          BY <1>1, <1>2, <3>3, <4>1, <4>2 DEF HandledSoFar
      <3> QED
        BY <3>1, <3>2, <3>3
    <2> QED
      BY <1>6, <2>1, <2>2 DEF HandledSoFar
  <1>14. Numbered' /\ PosterState' /\ NothingLostOrReordered'
    <2>1. Numbered'
      BY <1>1 DEF Numbered
    <2>2. PosterState'
      BY <1>2, <1>6 DEF PosterState
    <2>3. NothingLostOrReordered'
      BY <1>1 DEF NothingLostOrReordered, OnTheWay, InPost
    <2> QED
      BY <2>1, <2>2, <2>3
  <1>15. event' \in 0..MaxBatch
    BY <1>2, <1>6, IngestAssumption
  <1> QED
    BY <1>6, <1>10, <1>12, <1>13, <1>14, <1>15 DEF E

\* The steps of a post keep the invariant. A call that reaches an Ambassador over
\* a connection that was attached has the context of that connection.
LEMMA PostInd ==
    ASSUME IndInv, CheckAttached \/ TakeContext \/ CallSucceeds \/ CallFails
    PROVE  IndInv'
  <1>1. CASE /\ Handled /\ poster \in {"check", "call"}
             /\ UNCHANGED <<linkVars, hand, accepted, queue, batch, callCtx, acked, appDone>>
             /\ posted' \subseteq posted \cup {[as |-> callCtx, over |-> client]}
             /\ (posted' = posted \/ callCtx \notin cancelled)
    <2>1. /\ handled' \in [Source -> Seq((1..MaxSent) \X (1..MaxBatch))]
          /\ poster' \in {"check", "ack"} /\ event' \in 0..MaxBatch
          /\ Numbered' /\ PosterState' /\ NothingLostOrReordered'
          /\ AckedAreHandled' /\ HandledSoFar'
      BY <1>1, HandledInd
    <2>2. TypeOK'
      <3>1. posted' \subseteq [as : 0..MaxConn, over : 0..MaxConn]
        BY <1>1 DEF IndInv, TypeOK
      <3> QED
        BY <1>1, <2>1, <3>1 DEF IndInv, TypeOK, linkVars
    <2>3. ContextsInOrder'
      <3> USE DEF IndInv, TypeOK, ContextsInOrder, linkVars
      <3>1. CASE posted' = posted
        BY <1>1, <3>1
      <3>2. CASE callCtx \notin cancelled
        <4>1. callCtx < client => callCtx \notin served
          BY <3>2
        <4>2. callCtx <= client
          OBVIOUS
        <4>3. \A p \in posted' : /\ p.as <= p.over /\ p.over <= client
                                 /\ p.as < p.over => p.as \notin served
          BY <1>1, <4>1, <4>2
        <4> QED
          BY <1>1, <4>3
      <3> QED
        BY <1>1, <3>1, <3>2
    <2> QED
      BY <2>1, <2>2, <2>3 DEF IndInv
  <1>2. CASE CheckAttached /\ attached
    <2>1. /\ poster = "check" /\ poster' = "context"
          /\ UNCHANGED <<linkVars, hand, accepted, queue, batch, event, callCtx,
                         handled, acked, posted, appDone>>
      BY <1>2 DEF CheckAttached, socketVars
    <2>2. TypeOK'
      BY <2>1 DEF IndInv, TypeOK, linkVars
    <2>3. Numbered' /\ PosterState'
      BY <2>1 DEF IndInv, Numbered, PosterState
    <2>4. NothingLostOrReordered' /\ AckedAreHandled'
      BY <2>1 DEF IndInv, NothingLostOrReordered, OnTheWay, InPost, AckedAreHandled
    <2>5. HandledSoFar'
      <3>1. Done' = Done
        BY <2>1 DEF Done
      <3> QED
        BY <2>1, <3>1 DEF IndInv, HandledSoFar
    <2>6. ContextsInOrder'
      BY <2>1, ContextsKept
    <2> QED
      BY <2>2, <2>3, <2>4, <2>5, <2>6 DEF IndInv
  <1>3. CASE TakeContext
    <2>1. /\ poster = "context" /\ poster' = "call" /\ callCtx' = outgoing
          /\ UNCHANGED <<linkVars, hand, accepted, queue, batch, event,
                         handled, acked, posted, appDone>>
      BY <1>3 DEF TakeContext, socketVars, historyVars
    <2>2. TypeOK'
      BY <2>1 DEF IndInv, TypeOK, linkVars
    <2>3. Numbered' /\ PosterState'
      BY <2>1 DEF IndInv, Numbered, PosterState
    <2>4. NothingLostOrReordered' /\ AckedAreHandled'
      BY <2>1 DEF IndInv, NothingLostOrReordered, OnTheWay, InPost, AckedAreHandled
    <2>5. HandledSoFar'
      <3>1. Done' = Done
        BY <2>1 DEF Done
      <3> QED
        BY <2>1, <3>1 DEF IndInv, HandledSoFar
    <2>6. ContextsInOrder'
      BY <2>1, ContextsKept
    <2> QED
      BY <2>2, <2>3, <2>4, <2>5, <2>6 DEF IndInv
  <1>4. CASE CheckAttached /\ ~attached
    BY <1>1, <1>4 DEF CheckAttached, socketVars
  <1>5. CASE CallSucceeds
    BY <1>1, <1>5 DEF CallSucceeds, socketVars
  <1>6. CASE CallFails
    BY <1>1, <1>6 DEF CallFails, socketVars
  <1> QED
    BY <1>2, <1>3, <1>4, <1>5, <1>6

\* A batch is acknowledged after the earlier ones of its socket.
LEMMA AcknowledgeInd ==
    ASSUME IndInv, Acknowledge
    PROVE  IndInv'
  <1>1. /\ TypeOK /\ Numbered /\ PosterState /\ NothingLostOrReordered
        /\ AckedAreHandled /\ HandledSoFar
    BY DEF IndInv
  <1> DEFINE s == batch.source
  <1>2. /\ poster = "ack" /\ poster' = "idle" /\ event' = 0 /\ callCtx' = 0
        /\ batch' = NoBatch
        /\ acked' = [acked EXCEPT ![s] = Append(@, batch)]
        /\ UNCHANGED <<linkVars, hand, accepted, queue, handled, posted, appDone>>
    BY DEF Acknowledge, socketVars
  <1>3. /\ batch \in Batch /\ s \in Source /\ batch.number = Len(acked[s]) + 1
        /\ batch # NoBatch /\ batch.size \in 1..MaxBatch
        /\ OnTheWay(s) # <<>> /\ OnTheWay(s)[1] = batch
    BY <1>1, <1>2, BatchIsNext, BatchFacts
  <1>4. Done = 1..batch.size
    BY <1>1, <1>2 DEF PosterState, Done
  <1>5. /\ acked[s] \in Seq(Batch) /\ acked'[s] = Append(acked[s], batch)
        /\ \A t \in Source \ {s} : acked'[t] = acked[t]
    BY <1>1, <1>2, <1>3 DEF TypeOK
  <1>6. /\ Len(acked[s]) \in Nat /\ Len(acked'[s]) = Len(acked[s]) + 1
        /\ acked'[s][Len(acked[s]) + 1] = batch
        /\ \A n \in 1..Len(acked[s]) : acked'[s][n] = acked[s][n]
    BY <1>3, <1>5
  <1>7. TypeOK'
    <2>1. acked' \in [Source -> Seq(Batch)]
      BY <1>1, <1>2, <1>3, <1>5 DEF TypeOK
    <2>2. event' \in 0..MaxBatch /\ callCtx' \in 0..MaxConn
      BY <1>2, IngestAssumption
    <2> QED
      BY <1>1, <1>2, <2>1, <2>2 DEF TypeOK, linkVars
  <1>8. Numbered' /\ PosterState'
    BY <1>1, <1>2 DEF Numbered, PosterState
  <1>9. NothingLostOrReordered'
    <2> SUFFICES ASSUME NEW t \in Source
                 PROVE  InPlace(t, accepted[t], acked'[t], OnTheWay(t)')
      BY <1>2 DEF NothingLostOrReordered
    <2>1. /\ queue \in Seq(Batch) /\ hand[t] \in Seq(Batch) /\ OnTheWay(t) \in Seq(Batch)
          /\ accepted[t] \in Seq(Batch) /\ acked[t] \in Seq(Batch)
      BY <1>1, WayFacts
    <2>2. /\ InPlace(t, accepted[t], acked[t], OnTheWay(t))
          /\ \A n \in 1..Len(accepted[t]) :
                accepted[t][n].source = t /\ accepted[t][n].number = n
      BY <1>1 DEF NothingLostOrReordered, Numbered
    <2>3. OnTheWay(t) = <<batch>> \o queue \o hand[t]
      BY <1>3 DEF OnTheWay, InPost
    <2>4. OnTheWay(t)' = <<>> \o queue \o hand[t]
      BY <1>2 DEF OnTheWay, InPost
    <2>5. CASE t = s
      <3>1. Tail(OnTheWay(t)) = OnTheWay(t)'
        <4>1. \A b \in Batch, q, h \in Seq(Batch) :
                Tail(<<b>> \o q \o h) = <<>> \o q \o h
          BY FirstOnTheWay
        <4>2. Tail(<<batch>> \o queue \o hand[t]) = <<>> \o queue \o hand[t]
          BY <1>3, <2>1, <4>1, Zenon
        <4> QED
          BY <2>3, <2>4, <4>2, Zenon
      <3>2. InPlace(t, accepted[t], Append(acked[t], OnTheWay(t)[1]), Tail(OnTheWay(t)))
        BY <1>3, <2>1, <2>2, <2>5, InPlaceAcknowledge
      <3> QED
        BY <1>3, <1>5, <2>5, <3>1, <3>2
    <2>6. CASE t # s
      <3> DEFINE p == <<>>
                 r == queue \o hand[t]
      <3>1. /\ OnTheWay(t) = p \o <<batch>> \o r /\ OnTheWay(t)' = p \o r
            /\ p \in Seq(Batch) /\ r \in Seq(Batch)
        <4>1. \A b \in Batch, q, h \in Seq(Batch) :
                /\ <<b>> \o q \o h = <<>> \o <<b>> \o (q \o h)
                /\ <<>> \o q \o h = <<>> \o (q \o h)
          OBVIOUS
        <4>2. /\ <<batch>> \o queue \o hand[t] = <<>> \o <<batch>> \o (queue \o hand[t])
              /\ <<>> \o queue \o hand[t] = <<>> \o (queue \o hand[t])
          BY <1>3, <2>1, <4>1, Zenon
        <4>3. <<>> \in Seq(Batch) /\ queue \o hand[t] \in Seq(Batch)
          BY <2>1
        <4> QED
          BY <2>3, <2>4, <4>2, <4>3, Zenon
      <3> HIDE DEF p, r
      <3>2. InPlace(t, accepted[t], acked[t], p \o <<batch>> \o r)
        BY <2>2, <3>1
      <3>3. InPlace(t, accepted[t], acked[t], p \o r)
        BY <1>3, <2>1, <2>2, <2>6, <3>1, <3>2, InPlaceOther
      <3> QED
        BY <1>5, <2>6, <3>1, <3>3
    <2> QED
      BY <2>5, <2>6
  <1>10. AckedAreHandled'
    <2> SUFFICES ASSUME NEW t \in Source,
                        NEW i \in 1..Len(acked'[t]), NEW f \in 1..acked'[t][i].size
                 PROVE  \E j \in 1..Len(handled[t]) :
                            handled[t][j] = <<acked'[t][i].number, f>>
      <3>1. handled' = handled
        BY <1>2
      <3>2. \A t \in Source : \A j \in 1..Len(handled[t]) : \A i \in 1..(j - 1) :
               Before(handled[t][i], handled[t][j])
        BY <1>1 DEF AckedAreHandled
      <3> QED
        BY <3>1, <3>2, Zenon DEF AckedAreHandled
    <2>1. CASE t # s
      <3>1. acked'[t] = acked[t]
        BY <1>5, <2>1
      <3> QED
        BY <1>1, <3>1, Zenon DEF AckedAreHandled
    <2>2. CASE t = s /\ i = Len(acked[s]) + 1
      <3>1. acked'[t][i] = batch /\ f \in Done
        BY <1>4, <1>6, <2>2
      <3> QED
        BY <1>1, <1>2, <2>2, <3>1 DEF HandledSoFar
    <2>3. CASE t = s /\ i # Len(acked[s]) + 1
      <3>1. i \in 1..Len(acked[t]) /\ acked'[t][i] = acked[t][i]
        BY <1>6, <2>3
      <3> QED
        BY <1>1, <3>1 DEF AckedAreHandled
    <2> QED
      BY <2>1, <2>2, <2>3
  <1>11. HandledSoFar'
    <2> SUFFICES ASSUME NEW t \in Source, NEW j \in 1..Len(handled[t])
                 PROVE  handled[t][j][1] <= Len(acked'[t])
      BY <1>2 DEF HandledSoFar
    <2>1. \/ handled[t][j][1] <= Len(acked[t])
          \/ s = t /\ handled[t][j][1] = batch.number
      BY <1>1 DEF HandledSoFar
    <2>2. handled[t][j][1] \in Nat
      <3>1. handled[t] \in Seq((1..MaxSent) \X (1..MaxBatch))
        BY <1>1, WayFacts
      <3>2. handled[t][j] \in (1..MaxSent) \X (1..MaxBatch)
        BY <3>1
      <3> QED
        BY <3>2
    <2> QED
      BY <1>3, <1>5, <1>6, <2>1, <2>2
  <1>12. ContextsInOrder'
    BY <1>2, ContextsKept
  <1> QED
    BY <1>7, <1>8, <1>9, <1>10, <1>11, <1>12 DEF IndInv

\* The end of the poster, and a step that changes nothing, keep the invariant.
LEMMA EndInd ==
    ASSUME IndInv, Stop \/ UNCHANGED vars
    PROVE  IndInv'
  <1>1. /\ UNCHANGED <<linkVars, hand, accepted, queue, batch, event, callCtx,
                       handled, acked, posted, appDone>>
        /\ poster' = poster \/ (poster = "idle" /\ poster' = "stopped")
    BY DEF Stop, vars, socketVars, posterVars, historyVars
  <1>2. TypeOK'
    BY <1>1 DEF IndInv, TypeOK, linkVars
  <1>3. Numbered' /\ PosterState'
    BY <1>1 DEF IndInv, Numbered, PosterState
  <1>4. NothingLostOrReordered' /\ AckedAreHandled'
    BY <1>1 DEF IndInv, NothingLostOrReordered, OnTheWay, InPost, AckedAreHandled
  <1>5. HandledSoFar'
    <2>1. Done' = Done
      BY <1>1 DEF Done
    <2> QED
      BY <1>1, <2>1 DEF IndInv, HandledSoFar
  <1>6. ContextsInOrder'
    BY <1>1, ContextsKept
  <1> QED
    BY <1>2, <1>3, <1>4, <1>5, <1>6 DEF IndInv

\* Every step of sockets, ingestor and connection keeps the inductive invariant.
LEMMA NextInd == IndInv /\ [Next]_vars => IndInv'
  <1> SUFFICES ASSUME IndInv, [Next]_vars PROVE IndInv'
    OBVIOUS
  <1>1. CASE LinkStep \/ Shutdown
    BY <1>1, LinkInd
  <1>2. ASSUME NEW s \in Source, Receive(s) \/ Enqueue(s) PROVE IndInv'
    BY <1>2, ReceiveInd, EnqueueInd
  <1>3. CASE PosterStep
    BY <1>3, TakeInd, PostInd, AcknowledgeInd, EndInd DEF PosterStep
  <1>4. CASE Ended \/ UNCHANGED vars
    BY <1>4, EndInd DEF Ended
  <1> QED
    BY <1>1, <1>2, <1>3, <1>4 DEF Next

--------------------------------------------------------------------------------
\* The inductive invariant holds for any number of sockets, batches and
\* connections and every capacity of the channel.
THEOREM IndInvCorrect == Spec => []IndInv
  BY InitInd, NextInd, PTL DEF Spec

\* All variables keep their types; the channel stays within its capacity.
THEOREM TypeCorrect == Spec => []TypeOK
  <1>1. IndInv => TypeOK
    BY DEF IndInv
  <1> QED
    BY IndInvCorrect, <1>1, PTL

\* Between a socket and the acknowledgement no batch is lost, duplicated or
\* overtaken by another of its socket.
THEOREM NothingLostOrReorderedCorrect == Spec => []NothingLostOrReordered
  <1>1. IndInv => NothingLostOrReordered
    BY DEF IndInv
  <1> QED
    BY IndInvCorrect, <1>1, PTL

\* A batch is acknowledged only when each of its events was posted or dropped,
\* and the events of a socket are posted or dropped in the order they were sent.
THEOREM AckedAreHandledCorrect == Spec => []AckedAreHandled
  <1>1. IndInv => AckedAreHandled
    BY DEF IndInv
  <1> QED
    BY IndInvCorrect, <1>1, PTL

\* A call never reaches one connection under the id of another that was
\* attached.
THEOREM PostedAsItselfCorrect == Spec => []PostedAsItself
  <1>1. IndInv => PostedAsItself
    BY DEF IndInv, TypeOK, ContextsInOrder, PostedAsItself
  <1> QED
    BY IndInvCorrect, <1>1, PTL

================================================================================
