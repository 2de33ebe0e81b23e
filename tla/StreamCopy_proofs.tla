--------------------------- MODULE StreamCopy_proofs ---------------------------
(***************************************************************************)
(* A copy keeps every byte, for any source, any sizes of the buffers and   *)
(* any number of signals and failed writes.                                *)
(*                                                                         *)
(* Between its steps the target, the rest of the chunk, the copy buffer    *)
(* and the stream's buffer, in this order, hold what the source has given. *)
(* A step moves a piece from the front of one of them to the end of the    *)
(* one before it, so the proof rests on how sequences are cut and joined.  *)
(***************************************************************************)
EXTENDS StreamCopy, SequenceTheorems, TLAPS

----------------------------------------------------------------------------
(* Cutting and joining sequences *)

\* What First and Rest return.
LEMMA CutProperties ==
    ASSUME NEW S, NEW s \in Seq(S), NEW n \in 0 .. Len(s)
    PROVE  /\ First(s, n) \in Seq(S) /\ Len(First(s, n)) = n
           /\ Rest(s, n) \in Seq(S) /\ Len(Rest(s, n)) = Len(s) - n
           /\ \A i \in 1 .. Len(s) - n : Rest(s, n)[i] = s[n + i]
  <1>1. Len(s) \in Nat /\ n \in Nat /\ n <= Len(s)
    BY LenProperties
  <1>2. \A i \in 1 .. n : s[i] \in S
    BY <1>1, ElementOfSeq
  <1>3. First(s, n) \in Seq(S) /\ Len(First(s, n)) = n
    BY <1>1, <1>2, SubSeqProperties DEF First
  <1>4. \A i \in n + 1 .. Len(s) : s[i] \in S
    BY <1>1, ElementOfSeq
  <1>5. /\ Rest(s, n) \in Seq(S)
        /\ Len(Rest(s, n)) = IF n + 1 <= Len(s) THEN Len(s) - (n + 1) + 1 ELSE 0
        /\ \A i \in 1 .. Len(s) - (n + 1) + 1 : Rest(s, n)[i] = s[(n + 1) + i - 1]
    <2> DEFINE m == n + 1
    <2>1. m \in Int /\ Len(s) \in Int /\ \A i \in m .. Len(s) : s[i] \in S
      BY <1>1, <1>4
    <2> HIDE DEF m
    <2>2. /\ SubSeq(s, m, Len(s)) \in Seq(S)
          /\ Len(SubSeq(s, m, Len(s))) = IF m <= Len(s) THEN Len(s) - m + 1 ELSE 0
          /\ \A i \in 1 .. Len(s) - m + 1 : SubSeq(s, m, Len(s))[i] = s[m + i - 1]
      BY <2>1, SubSeqProperties
    <2>3. QED
      BY <2>2 DEF m, Rest
  <1>6. QED
    BY <1>1, <1>3, <1>5

\* The two parts make the whole.
LEMMA CutAndJoin ==
    ASSUME NEW S, NEW s \in Seq(S), NEW n \in 0 .. Len(s)
    PROVE  First(s, n) \o Rest(s, n) = s
  <1>1. Len(s) \in Nat
    BY LenProperties
  <1>2. 1 \in 1 .. Len(s) + 1 /\ n \in 1 - 1 .. Len(s) /\ Len(s) \in n .. Len(s)
    BY <1>1
  <1>3. SubSeq(s, 1, n) \o SubSeq(s, n + 1, Len(s)) = SubSeq(s, 1, Len(s))
    BY <1>2, ConcatAdjacentSubSeq
  <1>4. QED
    BY <1>3, SubSeqFull DEF First, Rest

\* Nothing behind the end, everything before the begin.
LEMMA CutAtTheEnds ==
    ASSUME NEW S, NEW s \in Seq(S)
    PROVE  /\ Rest(s, Len(s)) = <<>> /\ First(s, Len(s)) = s
           /\ Rest(s, 0) = s /\ First(s, 0) = <<>>
  <1>1. Len(s) \in Nat
    BY LenProperties
  <1>2. Rest(s, Len(s)) = <<>>
    BY <1>1, SubSeqEmpty DEF Rest
  <1>3. First(s, 0) = <<>>
    BY SubSeqEmpty DEF First
  <1>4. First(s, Len(s)) = s /\ Rest(s, 0) = s
    BY SubSeqFull DEF First, Rest
  <1>5. QED
    BY <1>2, <1>3, <1>4, Zenon

LEMMA JoinsOfThree == \A a, b, c \in Seq(Octets) : (a \o b) \o c = a \o (b \o c)
  BY ConcatAssociative

\* Joining is associative; of four:
LEMMA Regrouping ==
    \A a, b, c, d \in Seq(Octets) : (a \o (b \o c)) \o d = (a \o b) \o (c \o d)
  <1> TAKE a, b, c, d \in Seq(Octets)
  <1> DEFINE ab == a \o b
             bc == b \o c
  <1>1. ab \o c = a \o bc
    BY ONLY JoinsOfThree, a \in Seq(Octets), b \in Seq(Octets), c \in Seq(Octets), Zenon
  <1>2. ab \in Seq(Octets)
    BY ConcatProperties
  <1> HIDE DEF ab, bc
  <1>3. (ab \o c) \o d = ab \o (c \o d)
    BY <1>2, JoinsOfThree
  <1>4. QED
    BY <1>1, <1>3, Zenon DEF ab, bc

\* A sequence of length 0 is the empty one.
LEMMA NothingIsEmpty ==
    ASSUME NEW S, NEW s \in Seq(S)
    PROVE  s = <<>> <=> Len(s) = 0
  BY EmptySeq

LEMMA LeastProperties ==
    ASSUME NEW a \in Nat, NEW b \in Nat
    PROVE  Least(a, b) \in Nat /\ Least(a, b) <= a /\ Least(a, b) <= b
           /\ (Least(a, b) = a \/ Least(a, b) = b)
  BY DEF Least

\* A write of n bytes from the place index takes them from the front of the rest.
LEMMA WrittenIsCut ==
    ASSUME chunk \in Seq(Octets), NEW n \in Nat, index \in Nat, index + n <= Len(chunk)
    PROVE  LET piece == [i \in 1 .. n |-> Byte(index + i)]
           IN  piece \in Seq(Octets) /\ piece \o Rest(chunk, index + n) = Rest(chunk, index)
  <1> DEFINE piece == [i \in 1 .. n |-> Byte(index + i)]
  <1>1. Len(chunk) \in Nat
    BY LenProperties
  <1>2. \A i \in 1 .. n : Byte(index + i) = chunk[index + i] /\ chunk[index + i] \in Octets
    <2> TAKE i \in 1 .. n
    <2>1. index + i \in 1 .. Len(chunk)
      BY <1>1
    <2>2. QED
      BY <2>1, ElementOfSeq DEF Byte
  <1>3. piece \in [1 .. n -> Octets]
    BY <1>2
  <1> HIDE DEF piece
  <1>4. piece \in Seq(Octets) /\ Len(piece) = n
    BY <1>3
  <1> DEFINE m == index + n
  <1>5. index \in 0 .. Len(chunk) /\ m \in 0 .. Len(chunk)
    BY <1>1
  <1>6. /\ Rest(chunk, index) \in Seq(Octets) /\ Len(Rest(chunk, index)) = Len(chunk) - index
        /\ \A i \in 1 .. Len(chunk) - index : Rest(chunk, index)[i] = chunk[index + i]
    BY <1>5, CutProperties
  <1> HIDE DEF m
  <1>7. /\ Rest(chunk, m) \in Seq(Octets) /\ Len(Rest(chunk, m)) = Len(chunk) - m
        /\ \A i \in 1 .. Len(chunk) - m : Rest(chunk, m)[i] = chunk[m + i]
    BY <1>5, CutProperties
  <1> DEFINE whole == piece \o Rest(chunk, m)
  <1>8. /\ whole \in Seq(Octets)
        /\ Len(whole) = n + (Len(chunk) - m)
        /\ \A i \in 1 .. n + (Len(chunk) - m) :
               whole[i] = IF i <= n THEN piece[i] ELSE Rest(chunk, m)[i - n]
    <2>0. piece \in Seq(Octets) /\ Rest(chunk, m) \in Seq(Octets)
      BY <1>4, <1>7
    <2>1. /\ whole \in Seq(Octets)
          /\ Len(whole) = Len(piece) + Len(Rest(chunk, m))
          /\ \A i \in 1 .. Len(piece) + Len(Rest(chunk, m)) :
                 whole[i] = IF i <= Len(piece) THEN piece[i] ELSE Rest(chunk, m)[i - Len(piece)]
      BY <2>0, ConcatProperties
    <2> HIDE DEF whole
    <2>2. QED
      BY <1>4, <1>7, <2>1
  <1> HIDE DEF whole
  <1>9. Len(whole) = Len(Rest(chunk, index))
    BY <1>1, <1>5, <1>6, <1>8 DEF m
  <1>10. \A i \in 1 .. Len(whole) : whole[i] = Rest(chunk, index)[i]
    <2> TAKE i \in 1 .. Len(whole)
    <2>1. i \in 1 .. Len(chunk) - index /\ i \in 1 .. n + (Len(chunk) - m) /\ m = index + n
      BY <1>1, <1>5, <1>6, <1>8, <1>9 DEF m
    <2>2. CASE i <= n
      <3>1. i \in 1 .. n
        BY <2>1, <2>2
      <3>2. piece[i] = chunk[index + i]
        BY <1>2, <3>1 DEF piece
      <3>3. QED
        BY <1>6, <1>8, <2>1, <2>2, <3>2
    <2>3. CASE ~ (i <= n)
      <3>1. i - n \in 1 .. Len(chunk) - m /\ m + (i - n) = index + i
        BY <1>1, <2>1, <2>3
      <3>2. QED
        BY <1>6, <1>7, <1>8, <2>1, <2>3, <3>1
    <2>4. QED
      BY <2>2, <2>3
  <1>11. whole = Rest(chunk, index)
    BY <1>6, <1>8, <1>9, <1>10, SeqEqual
  <1>12. QED
    BY <1>4, <1>11 DEF m, whole, piece

----------------------------------------------------------------------------
(* The steps of a copy *)

\* What the rest of the proof uses of the sizes.
LEMMA SizesAreCounts ==
    ASSUME CopyInv
    PROVE  /\ setup.bufferSize \in Nat /\ setup.copySize \in Nat /\ setup.copySize > 0
           /\ given \in Seq(Octets) /\ buf \in Seq(Octets) /\ dest \in Seq(Octets) /\ chunk \in Seq(Octets)
           /\ Len(buf) \in Nat /\ Len(dest) \in Nat /\ Len(chunk) \in Nat
  <1>1. setup.bufferSize \in BufferSizes /\ setup.copySize \in CopySizes
    BY DEF CopyInv
  <1>2. setup.bufferSize \in Nat /\ setup.copySize \in Nat \ {0}
    BY <1>1, StreamAssumption
  <1>3. given \in Seq(Octets) /\ buf \in Seq(Octets) /\ dest \in Seq(Octets) /\ chunk \in Seq(Octets)
    BY DEF CopyInv
  <1>4. QED
    BY <1>2, <1>3, LenProperties

\* Before a copy nothing has been given and nothing taken.
LEMMA InitCopy == Init => CopyInv
  <1> SUFFICES ASSUME Init PROVE CopyInv
    OBVIOUS
  <1>1. <<>> \in Seq(Octets) /\ Len(<<>>) = 0
    BY EmptySeq
  <1>2. Rest(<<>>, 0) = <<>>
    BY <1>1, CutAtTheEnds
  <1>3. setup.bufferSize \in Nat /\ setup.copySize \in Nat \ {0}
    BY StreamAssumption DEF Init
  <1>4. ReadingInv
    <2>1. eofs \in {0, 1} /\ eof_readed = (eofs = 1)
      <3>1. eofs = 0 /\ eof_readed = FALSE
        BY DEF Init
      <3>2. (eofs = 1) = FALSE
        BY <3>1
      <3>3. QED
        BY <3>1, <3>2
    <2>2. QED
      BY <2>1 DEF Init, ReadingInv
  <1>5. TypeOK
    <2>1. signals \in 0 .. MaxSignals /\ errors \in 0 .. MaxErrors
      BY StreamAssumption DEF Init
    <2>2. {eof_readed, eintr, interrupted} \subseteq BOOLEAN
      BY DEF Init
    <2>3. Len(buf) <= setup.bufferSize /\ Len(dest) < setup.copySize /\ Len(chunk) <= setup.copySize
      BY <1>1, <1>3 DEF Init
    <2>4. index \in 0 .. Len(chunk) /\ to_write = Len(chunk) - index
      BY <1>1 DEF Init
    <2>5. QED
      BY <2>1, <2>2, <2>3, <2>4 DEF Init, TypeOK
  <1>6. out \o Rest(chunk, index) \o dest \o buf = given
    BY <1>1, <1>2, ConcatEmptySeq DEF Init
  <1>7. StreamWhole
    BY <1>5, <1>6 DEF Init, StreamWhole
  <1>8. QED
    BY <1>1, <1>3, <1>4, <1>7, StreamAssumption DEF Init, CopyInv

\* While nothing is being written, the chunk has been taken to its last byte.
LEMMA NothingToWrite ==
    ASSUME CopyInv, PlaceIsKnown, pc \in {"read", "direct", "fill", "done"}
    PROVE  out \in Seq(Octets) /\ Rest(chunk, index) = <<>> /\ (out \o dest) \o buf = given
  <1>1. index = Len(chunk)
    BY SizesAreCounts DEF CopyInv, ReadingInv, StreamWhole, TypeOK
  <1>2. Rest(chunk, index) = <<>>
    BY <1>1, SizesAreCounts, CutAtTheEnds
  <1>3. out \in Seq(Octets) /\ out \o Rest(chunk, index) \o dest \o buf = given
    BY DEF CopyInv, StreamWhole
  <1>4. QED
    BY <1>2, <1>3, ConcatEmptySeq

\* A read that gives data to the loop, when the target, the data and the buffer
\* hold what the source has given, and it gives none only at the end.
LEMMA Returning ==
    ASSUME CopyInv, pc \in {"read", "direct", "fill"},
           NEW data \in Seq(Octets), Len(data) <= setup.copySize, ReadReturns(data),
           setup' = setup, out' = out, errors' = errors, signalVars' = signalVars,
           parcels' \in Seq(Seq(Octets)), given' \in Seq(Octets),
           buf' \in Seq(Octets), Len(buf') <= setup.bufferSize,
           eofs' \in {0, 1}, eof_readed' = (eofs' = 1),
           data = <<>> => eofs' = 1 /\ buf' = <<>>,
           PlaceIsKnown => (out \o data) \o buf' = given'
    PROVE  CopyInv'
  <1>1. /\ dest' = <<>> /\ <<>> \in Seq(Octets) /\ Len(<<>>) = 0
        /\ Len(data) \in Nat /\ (data = <<>> <=> Len(data) = 0)
    BY EmptySeq, LenProperties, NothingIsEmpty DEF ReadReturns
  <1>2. PlaceIsKnown' = PlaceIsKnown
    BY DEF PlaceIsKnown
  <1>3. CASE data = <<>>
    <2>1. pc' = "done" /\ chunk' = chunk /\ index' = index /\ to_write' = to_write
      BY <1>3 DEF ReadReturns, writeVars
    <2>2. ReadingInv'
      BY <1>1, <1>3, <2>1 DEF CopyInv, ReadingInv
    <2>3. ASSUME PlaceIsKnown PROVE StreamWhole' /\ out' \in Seq(Octets)
      <3>1. out \in Seq(Octets) /\ Rest(chunk, index) = <<>>
        BY <2>3, NothingToWrite
      <3>2. out = given' /\ eofs' = 1 /\ buf' = <<>>
        BY <1>3, <2>3, <3>1, ConcatEmptySeq
      <3>3. (out \o Rest(chunk, index) \o dest \o buf = given)'
        BY <1>1, <2>1, <3>1, <3>2, ConcatEmptySeq
      <3>4. TypeOK'
        <4>1. TypeOK
          BY <2>3 DEF CopyInv, StreamWhole
        <4>2. QED
          BY <1>1, <2>1, <4>1, SizesAreCounts DEF TypeOK, signalVars
      <3>5. QED
        BY <2>1, <3>1, <3>2, <3>3, <3>4 DEF StreamWhole
    <2>4. QED
      BY <1>1, <1>2, <2>1, <2>2, <2>3, SizesAreCounts DEF CopyInv
  <1>4. CASE data # <<>>
    <2>1. pc' = "write" /\ chunk' = data /\ index' = 0 /\ to_write' = Len(data)
      BY <1>4 DEF ReadReturns
    <2>2. ReadingInv'
      BY <1>1, <2>1 DEF CopyInv, ReadingInv
    <2>3. ASSUME PlaceIsKnown PROVE StreamWhole' /\ out' \in Seq(Octets)
      <3>1. out \in Seq(Octets) /\ Rest(data, 0) = data /\ (out \o data) \o <<>> = out \o data
        BY <2>3, NothingToWrite, CutAtTheEnds, ConcatEmptySeq, ConcatProperties
      <3>2. (out \o Rest(chunk, index) \o dest \o buf = given)'
        BY <1>1, <2>1, <2>3, <3>1
      <3>3. TypeOK'
        <4>1. TypeOK
          BY <2>3 DEF CopyInv, StreamWhole
        <4>2. QED
          BY <1>1, <2>1, <4>1, SizesAreCounts DEF TypeOK, signalVars
      <3>4. QED
        BY <2>1, <3>1, <3>2, <3>3 DEF StreamWhole
    <2>4. QED
      BY <1>1, <1>2, <2>1, <2>2, <2>3, SizesAreCounts DEF CopyInv
  <1>5. QED
    BY <1>3, <1>4

\* consume_buffer takes from the front of the buffer, all of it if more is asked for.
LEMMA BeginKeeps == ASSUME CopyInv, BeginRead PROVE CopyInv'
  <1> DEFINE consumed == Least(Len(buf), setup.copySize)
             data == First(buf, consumed)
  <1>1. /\ consumed \in 0 .. Len(buf) /\ consumed <= setup.copySize
        /\ (consumed = Len(buf) \/ consumed = setup.copySize)
    <2>1. Len(buf) \in Nat /\ setup.copySize \in Nat
      BY SizesAreCounts
    <2>2. QED
      BY <2>1 DEF Least
  <1>2. /\ buf' = Rest(buf, consumed) /\ dest = <<>> /\ pc = "read"
        /\ setup' = setup /\ out' = out /\ errors' = errors /\ signalVars' = signalVars
        /\ parcels' = parcels /\ given' = given /\ eofs' = eofs /\ eof_readed' = eof_readed
    BY DEF BeginRead, sourceVars, CopyInv, ReadingInv
  <1>3. /\ data \in Seq(Octets) /\ Len(data) = consumed
        /\ Rest(buf, consumed) \in Seq(Octets) /\ Len(Rest(buf, consumed)) = Len(buf) - consumed
        /\ data \o Rest(buf, consumed) = buf
    <2>1. buf \in Seq(Octets)
      BY SizesAreCounts
    <2>2. First(buf, consumed) \in Seq(Octets) /\ Len(First(buf, consumed)) = consumed
      BY <1>1, <2>1, CutProperties
    <2>3. Rest(buf, consumed) \in Seq(Octets) /\ Len(Rest(buf, consumed)) = Len(buf) - consumed
      BY <1>1, <2>1, CutProperties
    <2>4. First(buf, consumed) \o Rest(buf, consumed) = buf
      BY <1>1, <2>1, CutAndJoin
    <2>5. QED
      BY <2>2, <2>3, <2>4, Zenon
  <1>4. PlaceIsKnown => Len(buf) <= setup.bufferSize
    BY DEF CopyInv, StreamWhole, TypeOK
  <1>5. PlaceIsKnown => /\ out \in Seq(Octets) /\ Rest(chunk, index) = <<>>
                        /\ (out \o data) \o Rest(buf, consumed) = given
    <2> SUFFICES ASSUME PlaceIsKnown PROVE /\ out \in Seq(Octets) /\ Rest(chunk, index) = <<>>
                                           /\ (out \o data) \o Rest(buf, consumed) = given
      OBVIOUS
    <2>1. out \in Seq(Octets) /\ Rest(chunk, index) = <<>> /\ (out \o dest) \o buf = given
      BY <1>2, NothingToWrite
    <2>2. out \o buf = given
      BY <1>2, <2>1, ConcatEmptySeq
    <2>3. (out \o data) \o Rest(buf, consumed) = out \o (data \o Rest(buf, consumed))
      <3>1. data \in Seq(Octets) /\ Rest(buf, consumed) \in Seq(Octets)
        BY <1>3
      <3> HIDE DEF data, consumed
      <3>2. QED
        BY <2>1, <3>1, ConcatAssociative
    <2>4. QED
      BY <1>3, <2>1, <2>2, <2>3
  <1>6. CASE consumed = setup.copySize \/ eof_readed
    <2>1. ReadReturns(data)
      BY <1>6 DEF BeginRead
    <2>2. data = <<>> => eofs' = 1 /\ buf' = <<>>
      <3>1. SUFFICES ASSUME data = <<>> PROVE eofs' = 1 /\ buf' = <<>>
        OBVIOUS
      <3>2. consumed = 0
        BY <1>3, <3>1, EmptySeq
      <3>3. eof_readed /\ Len(buf) = 0
        BY <1>1, <1>6, <3>2, SizesAreCounts
      <3>4. Len(buf') = 0
        BY <1>1, <1>2, <1>3, <3>2, <3>3, SizesAreCounts
      <3>5. QED
        BY <1>2, <1>3, <3>3, <3>4, NothingIsEmpty DEF CopyInv, ReadingInv
    <2>3. Len(buf') <= setup.bufferSize
      BY <1>1, <1>2, <1>3, SizesAreCounts DEF CopyInv
    <2>4. eofs' \in {0, 1} /\ eof_readed' = (eofs' = 1)
      BY <1>2 DEF CopyInv, ReadingInv
    <2>5. parcels' \in Seq(Seq(Octets)) /\ given' \in Seq(Octets) /\ buf' \in Seq(Octets)
      BY <1>2, <1>3 DEF CopyInv
    <2> HIDE DEF data, consumed
    <2>6. QED
      BY <1>1, <1>2, <1>3, <1>5, <2>1, <2>2, <2>3, <2>4, <2>5, Returning
  <1>7. CASE ~ (consumed = setup.copySize \/ eof_readed)
    <2>1. /\ dest' = data /\ pc' \in {"direct", "fill"}
          /\ chunk' = chunk /\ index' = index /\ to_write' = to_write
      BY <1>7 DEF BeginRead, writeVars
    <2>2. consumed = Len(buf) /\ Len(data) = Len(buf) /\ Len(buf) < setup.copySize
      BY <1>1, <1>3, <1>7, SizesAreCounts
    <2>3. buf' = <<>> /\ data = buf /\ <<>> \in Seq(Octets) /\ Len(<<>>) = 0
      BY <1>2, <2>2, SizesAreCounts, CutAtTheEnds, EmptySeq
    <2>4. ReadingInv'
      BY <1>2, <1>7, <2>1, <2>3 DEF CopyInv, ReadingInv
    <2>5. ASSUME PlaceIsKnown PROVE StreamWhole' /\ out' \in Seq(Octets)
      <3>1. out \in Seq(Octets) /\ Rest(chunk, index) = <<>> /\ out \o <<>> = out
        BY <1>5, <2>5, ConcatEmptySeq
      <3>2. (out \o Rest(chunk, index) \o dest \o buf = given)'
        BY <1>2, <1>5, <2>1, <2>5, <3>1
      <3>3. TypeOK'
        BY <1>2, <2>1, <2>2, <2>3, <2>5, SizesAreCounts DEF CopyInv, StreamWhole, TypeOK, signalVars
      <3>4. QED
        BY <1>2, <2>1, <3>1, <3>2, <3>3 DEF StreamWhole
    <2>6. PlaceIsKnown' = PlaceIsKnown
      BY <1>2 DEF PlaceIsKnown
    <2>7. dest' \in Seq(Octets) /\ Len(dest') < setup.copySize /\ Len(buf') <= setup.bufferSize
      BY <1>3, <2>1, <2>2, <2>3, SizesAreCounts
    <2> HIDE DEF data, consumed
    <2>8. QED
      BY <1>2, <2>1, <2>3, <2>4, <2>5, <2>6, <2>7 DEF CopyInv
  <1>8. QED
    BY <1>6, <1>7

\* What the target's read delivers goes behind the data of the copy buffer, and
\* what is too much for that into the buffer.
LEMMA Delivering ==
    ASSUME CopyInv, pc \in {"direct", "fill"},
           NEW data \in Seq(Octets), Len(data) <= Room, Received(data),
           setup' = setup, out' = out, errors' = errors, signalVars' = signalVars,
           parcels' \in Seq(Seq(Octets)), given' = given \o data,
           eofs' \in {0, 1}, eof_readed' = (eofs' = 1),
           data = <<>> => eofs' = 1
    PROVE  CopyInv'
  <1>1. /\ buf = <<>> /\ Len(buf) = 0
        /\ dest \in Seq(Octets) /\ Len(dest) \in Nat /\ Missing \in Nat \ {0}
        /\ Len(data) \in Nat
    <2>1. buf = <<>> /\ dest \in Seq(Octets) /\ Len(dest) < setup.copySize
      BY DEF CopyInv, ReadingInv
    <2>2. Len(dest) \in Nat /\ setup.copySize \in Nat
      BY SizesAreCounts
    <2>3. Missing \in Nat \ {0}
      BY <2>1, <2>2 DEF Missing
    <2>4. Len(data) \in Nat
      BY LenProperties
    <2>5. QED
      BY <2>1, <2>2, <2>3, <2>4
  <1> DEFINE second == IF pc = "direct" THEN Len(data) ELSE Least(Missing, Len(data))
  <1>2. /\ second \in 0 .. Len(data) /\ second <= Missing
        /\ (Len(data) > 0 => second > 0)
    BY <1>1 DEF Least, Room
  <1> HIDE DEF second
  <1>3. /\ First(data, second) \in Seq(Octets) /\ Len(First(data, second)) = second
        /\ Rest(data, second) \in Seq(Octets) /\ Len(Rest(data, second)) = Len(data) - second
        /\ First(data, second) \o Rest(data, second) = data
    BY <1>2, CutProperties, CutAndJoin
  <1> DEFINE returned == dest \o First(data, second)
  <1>4. returned \in Seq(Octets) /\ Len(returned) = Len(dest) + second
    <2>1. dest \in Seq(Octets) /\ First(data, second) \in Seq(Octets)
      BY <1>1, <1>3
    <2>2. QED
      BY <1>3, <2>1, ConcatProperties
  <1>5. ReadReturns(returned) /\ buf' = Rest(data, second)
    <2>1. CASE pc = "direct"
      BY <1>1, <2>1, CutAtTheEnds DEF Received, second
    <2>2. CASE pc = "fill"
      BY <1>1, <2>2, ConcatEmptySeq DEF Received, second
    <2>3. QED
      BY <2>1, <2>2
  <1>6. Len(returned) <= setup.copySize
    BY <1>1, <1>2, <1>4, SizesAreCounts DEF Missing
  <1>7. Len(buf') <= setup.bufferSize
    <2>1. Len(data) - second \in Nat /\ Len(buf') = Len(data) - second
      BY <1>1, <1>2, <1>3, <1>5
    <2>2. CASE pc = "direct"
      BY <1>1, <2>1, <2>2, SizesAreCounts DEF second
    <2>3. CASE pc = "fill"
      BY <1>1, <1>2, <2>1, <2>3, SizesAreCounts DEF Room
    <2>4. QED
      BY <2>2, <2>3
  <1>8. returned = <<>> => eofs' = 1 /\ buf' = <<>>
    <2>1. SUFFICES ASSUME returned = <<>> PROVE eofs' = 1 /\ buf' = <<>>
      OBVIOUS
    <2>2. Len(data) = 0 /\ second = 0
      BY <1>1, <1>2, <1>4, <2>1, EmptySeq
    <2>3. QED
      BY <1>3, <1>5, <2>2, NothingIsEmpty
  <1>9. PlaceIsKnown => (out \o returned) \o buf' = given'
    <2>1. SUFFICES ASSUME PlaceIsKnown PROVE (out \o returned) \o buf' = given'
      OBVIOUS
    <2> DEFINE f == First(data, second)
               r == Rest(data, second)
    <2>2. f \in Seq(Octets) /\ r \in Seq(Octets) /\ f \o r = data
      BY <1>3
    <2>3. out \in Seq(Octets) /\ out \o dest = given
      <3>1. out \in Seq(Octets) /\ (out \o dest) \o buf = given
        BY <2>1, NothingToWrite
      <3>2. QED
        BY <1>1, <3>1, ConcatProperties, ConcatEmptySeq
    <2> HIDE DEF f, r
    <2>4. (out \o (dest \o f)) \o r = (out \o dest) \o (f \o r)
      <3>1. dest \in Seq(Octets) /\ out \in Seq(Octets) /\ f \in Seq(Octets) /\ r \in Seq(Octets)
        BY <1>1, <2>2, <2>3
      <3>2. QED
        <4>1. \A a, b, c, d \in Seq(Octets) : (a \o (b \o c)) \o d = (a \o b) \o (c \o d)
          BY Regrouping
        <4>2. \A c, d \in Seq(Octets) : (out \o (dest \o c)) \o d = (out \o dest) \o (c \o d)
          BY ONLY <3>1, <4>1, ZenonT(60)
        <4>3. QED
          BY <3>1, <4>2, Zenon
    <2>5. QED
      BY <1>5, <2>2, <2>3, <2>4 DEF f, r
  <1>10. given' \in Seq(Octets) /\ buf' \in Seq(Octets)
    BY <1>3, <1>5, SizesAreCounts, ConcatProperties
  <1> HIDE DEF returned
  <1>11. QED
    BY <1>4, <1>5, <1>6, <1>7, <1>8, <1>9, <1>10, Returning

\* A read takes bytes from the front of the first parcel.
LEMMA TargetReadsKeeps == ASSUME CopyInv, TargetReads PROVE CopyInv'
  <1> DEFINE head == Head(parcels)
  <1>1. PICK n \in 1 .. Least(Room, Len(head)) :
            /\ parcels' = IF n = Len(head) THEN Tail(parcels) ELSE <<Rest(head, n)>> \o Tail(parcels)
            /\ given' = given \o First(head, n)
            /\ Received(First(head, n))
    BY DEF TargetReads
  <1>2. /\ pc \in {"direct", "fill"} /\ parcels # <<>>
        /\ setup' = setup /\ out' = out /\ errors' = errors /\ signalVars' = signalVars
        /\ eofs' = eofs /\ eof_readed' = eof_readed
    BY DEF TargetReads
  <1>3. parcels \in Seq(Seq(Octets)) /\ head \in Seq(Octets) /\ Tail(parcels) \in Seq(Seq(Octets))
    <2>1. parcels \in Seq(Seq(Octets))
      BY DEF CopyInv
    <2>2. QED
      BY <1>2, <2>1, HeadTailProperties
  <1>4. Room \in Nat /\ Len(head) \in Nat
    <2>1. Len(head) \in Nat
      BY <1>3, LenProperties
    <2>2. QED
      BY <2>1, SizesAreCounts DEF Room, Missing, CopyInv
  <1>5. n \in 0 .. Len(head) /\ n > 0 /\ n <= Room
    BY <1>1, <1>4 DEF Least
  <1> HIDE DEF head
  <1>6. /\ First(head, n) \in Seq(Octets) /\ Len(First(head, n)) = n
        /\ Rest(head, n) \in Seq(Octets)
    BY <1>3, <1>5, CutProperties
  <1>7. parcels' \in Seq(Seq(Octets))
    <2>1. <<Rest(head, n)>> \in Seq(Seq(Octets))
      BY <1>6
    <2>2. <<Rest(head, n)>> \o Tail(parcels) \in Seq(Seq(Octets))
      BY <1>3, <2>1, ConcatProperties
    <2>3. QED
      BY <1>1, <1>3, <2>2 DEF head
  <1>8. First(head, n) # <<>>
    BY <1>5, <1>6, EmptySeq
  <1>9. eofs' \in {0, 1} /\ eof_readed' = (eofs' = 1)
    BY <1>2 DEF CopyInv, ReadingInv
  <1> DEFINE data == First(head, n)
  <1>10. /\ data \in Seq(Octets) /\ Len(data) <= Room /\ Received(data)
         /\ given' = given \o data /\ data # <<>>
    BY <1>1, <1>5, <1>6, <1>8 DEF head
  <1> HIDE DEF data
  <1>11. QED
    BY <1>2, <1>7, <1>9, <1>10, Delivering

\* The end of file is met once: while the target is read it has not been.
LEMMA TargetEndsKeeps == ASSUME CopyInv, TargetEnds PROVE CopyInv'
  <1>1. /\ pc \in {"direct", "fill"} /\ Received(<<>>)
        /\ parcels' = IF parcels = <<>> THEN <<>> ELSE Tail(parcels)
        /\ eofs' = eofs + 1 /\ eof_readed' = TRUE
        /\ setup' = setup /\ out' = out /\ errors' = errors /\ signalVars' = signalVars
        /\ given' = given
    BY DEF TargetEnds
  <1>2. eofs' = 1
    <2>1. eofs \in {0, 1} /\ eof_readed = (eofs = 1) /\ ~eof_readed
      BY <1>1 DEF CopyInv, ReadingInv
    <2>2. eofs = 0
      BY <2>1, Zenon
    <2>3. QED
      BY <1>1, <2>2
  <1>3. eof_readed' = (eofs' = 1)
    <2>1. (eofs' = 1) = TRUE
      BY <1>2
    <2>2. QED
      BY <1>1, <2>1
  <1>4. parcels' \in Seq(Seq(Octets))
    <2>1. parcels \in Seq(Seq(Octets))
      BY DEF CopyInv
    <2>2. QED
      BY <1>1, <2>1, HeadTailProperties, EmptySeq
  <1>5. <<>> \in Seq(Octets) /\ Len(<<>>) = 0 /\ given' = given \o <<>>
    BY <1>1, SizesAreCounts, ConcatEmptySeq, EmptySeq
  <1>6. Len(<<>>) <= Room
    BY <1>5, SizesAreCounts DEF Room, Missing, CopyInv
  <1> DEFINE data == <<>>
  <1>7. /\ data \in Seq(Octets) /\ Len(data) <= Room /\ Received(data)
        /\ given' = given \o data
    BY <1>1, <1>5, <1>6
  <1> HIDE DEF data
  <1>8. QED
    BY <1>1, <1>2, <1>3, <1>4, <1>7, Delivering

\* A write takes bytes from the front of what is left of the chunk.
LEMMA WriteKeeps == ASSUME CopyInv, WriteSome PROVE CopyInv'
  <1>1. PICK n \in IF setup.output = "memory" THEN {to_write} ELSE 1 .. to_write :
            /\ out' = out \o [i \in 1 .. n |-> Byte(index + i)]
            /\ index' = index + n
            /\ to_write' = to_write - n
            /\ pc' = IF n = to_write THEN "read" ELSE "write"
    BY DEF WriteSome
  <1>2. /\ pc = "write" /\ setup' = setup /\ parcels' = parcels /\ given' = given /\ eofs' = eofs
        /\ buf' = buf /\ eof_readed' = eof_readed /\ dest' = dest /\ chunk' = chunk
        /\ signalVars' = signalVars /\ errors' = errors
    BY DEF WriteSome, sourceVars, bufferVars
  <1>3. to_write \in Int /\ n \in Int /\ to_write' \in Int /\ (pc' = "read" => to_write' = 0)
        /\ pc' \in {"read", "write"}
    BY <1>1 DEF CopyInv
  <1>4. ReadingInv'
    BY <1>2, <1>3 DEF CopyInv, ReadingInv
  <1>5. ASSUME PlaceIsKnown PROVE StreamWhole' /\ out' \in Seq(Octets)
    <2>1. /\ TypeOK /\ out \in Seq(Octets) /\ chunk \in Seq(Octets) /\ dest = <<>>
          /\ out \o Rest(chunk, index) \o dest \o buf = given
      BY <1>2, <1>5 DEF CopyInv, ReadingInv, StreamWhole
    <2>2. index \in Nat /\ n \in Nat /\ index + n \in 0 .. Len(chunk) /\ Len(chunk) \in Nat
      BY <1>1, <2>1, SizesAreCounts DEF TypeOK
    <2> DEFINE piece == [i \in 1 .. n |-> Byte(index + i)]
    <2>3. piece \in Seq(Octets) /\ piece \o Rest(chunk, index + n) = Rest(chunk, index)
      <3>1. chunk \in Seq(Octets) /\ n \in Nat /\ index \in Nat /\ index + n <= Len(chunk)
        BY <2>1, <2>2
      <3>2. QED
        BY <3>1, WrittenIsCut
    <2>4. out' = out \o piece
      BY <1>1
    <2> HIDE DEF piece
    <2> DEFINE rest == Rest(chunk, index + n)
    <2>5. rest \in Seq(Octets)
      <3> DEFINE m == index + n
      <3>1. m \in 0 .. Len(chunk)
        BY <2>2
      <3> HIDE DEF m
      <3>2. Rest(chunk, m) \in Seq(Octets)
        BY <2>1, <3>1, CutProperties
      <3>3. QED
        BY <3>2 DEF m
    <2> HIDE DEF rest
    <2>6. (out \o piece) \o rest = out \o (piece \o rest) /\ out \o piece \in Seq(Octets)
      <3>1. out \in Seq(Octets) /\ piece \in Seq(Octets)
        BY <2>1, <2>3
      <3>2. (out \o piece) \o rest = out \o (piece \o rest)
        BY ONLY <2>5, <3>1, ConcatAssociative
      <3>3. out \o piece \in Seq(Octets)
        BY ONLY <3>1, ConcatProperties
      <3>4. QED
        BY <3>2, <3>3
    <2>7. (out \o Rest(chunk, index) \o dest \o buf = given)'
      BY <1>1, <1>2, <2>1, <2>3, <2>4, <2>6 DEF rest
    <2>8. TypeOK'
      BY <1>1, <1>2, <1>3, <2>1, <2>2 DEF TypeOK, signalVars
    <2>9. QED
      BY <1>3, <2>4, <2>6, <2>7, <2>8 DEF StreamWhole
  <1>6. PlaceIsKnown' = PlaceIsKnown
    BY <1>2 DEF PlaceIsKnown
  <1>7. QED
    BY <1>2, <1>3, <1>4, <1>5, <1>6 DEF CopyInv

\* A step that leaves bytes where they are: an exception, a signal, a call begun
\* again.
LEMMA Staying ==
    ASSUME CopyInv, setup' = setup, sourceVars' = sourceVars, buf' = buf, eof_readed' = eof_readed,
           writeVars' = writeVars, out' = out, errors' \in Nat, errors' >= errors,
           PlaceIsKnown' => errors' \in 0 .. MaxErrors,
           dest' \in {<<>>, dest}, pc' \in {pc, "threw"}, pc' # "threw" => dest' = dest,
           PlaceIsKnown => eintr' \in BOOLEAN /\ interrupted' \in BOOLEAN /\ signals' \in 0 .. MaxSignals
    PROVE  CopyInv'
  <1>1. /\ setup' = setup /\ parcels' = parcels /\ given' = given /\ eofs' = eofs
        /\ chunk' = chunk /\ index' = index /\ to_write' = to_write
    BY DEF sourceVars, writeVars
  <1>2. <<>> \in Seq(Octets) /\ Len(<<>>) = 0
    BY EmptySeq
  <1>3. ReadingInv'
    BY <1>1 DEF CopyInv, ReadingInv
  <1>4. PlaceIsKnown' => PlaceIsKnown
    BY <1>1 DEF PlaceIsKnown, CopyInv
  <1>5. dest' \in Seq(Octets) /\ Len(dest') < setup.copySize
    BY <1>2, SizesAreCounts DEF CopyInv
  <1>6. ASSUME PlaceIsKnown' PROVE StreamWhole' /\ out' \in Seq(Octets)
    <2>1. StreamWhole /\ out \in Seq(Octets) /\ PlaceIsKnown
      BY <1>4, <1>6 DEF CopyInv
    <2>2. {eof_readed', eintr', interrupted'} \subseteq BOOLEAN
      BY <2>1 DEF StreamWhole, TypeOK
    <2>3. TypeOK'
      BY <1>1, <1>5, <1>6, <2>1, <2>2 DEF StreamWhole, TypeOK
    <2>4. QED
      BY <1>1, <2>1, <2>3 DEF StreamWhole
  <1>7. QED
    BY <1>1, <1>3, <1>5, <1>6, SizesAreCounts DEF CopyInv

LEMMA ReadFailsKeeps == ASSUME CopyInv, ReadFails PROVE CopyInv'
  <1>1. /\ setup' = setup /\ sourceVars' = sourceVars /\ buf' = buf /\ eof_readed' = eof_readed
        /\ writeVars' = writeVars /\ out' = out /\ errors' = errors /\ signalVars' = signalVars
        /\ pc' = "threw" /\ dest' = <<>>
    BY DEF ReadFails
  <1>2. PlaceIsKnown => /\ eintr' \in BOOLEAN /\ interrupted' \in BOOLEAN
                        /\ signals' \in 0 .. MaxSignals /\ errors' \in 0 .. MaxErrors
    BY <1>1 DEF CopyInv, StreamWhole, TypeOK, signalVars
  <1>3. errors' \in Nat /\ errors' >= errors /\ PlaceIsKnown' = PlaceIsKnown
    BY <1>1 DEF CopyInv, PlaceIsKnown
  <1>4. QED
    BY <1>1, <1>2, <1>3, Staying

LEMMA WriteNothingKeeps == ASSUME CopyInv, WriteNothing PROVE CopyInv'
  <1>1. /\ setup' = setup /\ sourceVars' = sourceVars /\ buf' = buf /\ eof_readed' = eof_readed
        /\ dest' = dest
        /\ writeVars' = writeVars /\ out' = out /\ errors' = errors /\ signalVars' = signalVars
        /\ pc' = "threw"
    BY DEF WriteNothing, bufferVars
  <1>2. PlaceIsKnown => /\ eintr' \in BOOLEAN /\ interrupted' \in BOOLEAN
                        /\ signals' \in 0 .. MaxSignals /\ errors' \in 0 .. MaxErrors
    BY <1>1 DEF CopyInv, StreamWhole, TypeOK, signalVars
  <1>3. errors' \in Nat /\ errors' >= errors /\ PlaceIsKnown' = PlaceIsKnown
    BY <1>1 DEF CopyInv, PlaceIsKnown
  <1>4. QED
    BY <1>1, <1>2, <1>3, Staying

\* An error of a write: an exception, or, for standard output, the loss of the place.
LEMMA WriteFailsKeeps == ASSUME CopyInv, WriteFails PROVE CopyInv'
  <1>1. /\ setup' = setup /\ sourceVars' = sourceVars /\ buf' = buf /\ eof_readed' = eof_readed
        /\ dest' = dest /\ out' = out /\ signalVars' = signalVars
        /\ pc = "write" /\ errors < MaxErrors /\ errors' = errors + 1
    BY DEF WriteFails, bufferVars
  <1>2. errors' \in Nat /\ errors' >= errors /\ errors' \in 0 .. MaxErrors
    BY <1>1, StreamAssumption DEF CopyInv
  <1>3. CASE setup.output = "stdout"
    <2>1. to_write' = to_write + 1 /\ chunk' = chunk /\ pc' = pc
      BY <1>3 DEF WriteFails
    <2>2. ~PlaceIsKnown'
      BY <1>1, <1>3 DEF PlaceIsKnown, CopyInv
    <2>3. ReadingInv'
      BY <1>1, <2>1 DEF CopyInv, ReadingInv, sourceVars
    <2>4. QED
      BY <1>1, <1>2, <2>1, <2>2, <2>3 DEF CopyInv, sourceVars
  <1>4. CASE setup.output # "stdout"
    <2>1. pc' = "threw" /\ writeVars' = writeVars
      BY <1>4 DEF WriteFails
    <2>2. PlaceIsKnown => /\ eintr' \in BOOLEAN /\ interrupted' \in BOOLEAN
                          /\ signals' \in 0 .. MaxSignals
      BY <1>1 DEF CopyInv, StreamWhole, TypeOK, signalVars
    <2>3. QED
      BY <1>1, <1>2, <2>1, <2>2, Staying
  <1>5. QED
    BY <1>3, <1>4

LEMMA InterruptKeeps == ASSUME CopyInv, Interrupt PROVE CopyInv'
  <1>1. /\ setup' = setup /\ sourceVars' = sourceVars /\ buf' = buf /\ eof_readed' = eof_readed
        /\ dest' = dest /\ pc' = pc
        /\ writeVars' = writeVars /\ out' = out /\ errors' = errors
    BY DEF Interrupt, bufferVars
  <1>2. /\ signals < MaxSignals /\ signals' = signals + 1
        /\ interrupted' = TRUE /\ eintr' \in {eintr, TRUE}
    BY DEF Interrupt
  <1>3. PlaceIsKnown => /\ eintr' \in BOOLEAN /\ interrupted' \in BOOLEAN
                        /\ signals' \in 0 .. MaxSignals /\ errors' \in 0 .. MaxErrors
    <2>1. SUFFICES ASSUME PlaceIsKnown
                   PROVE  /\ eintr' \in BOOLEAN /\ interrupted' \in BOOLEAN
                          /\ signals' \in 0 .. MaxSignals /\ errors' \in 0 .. MaxErrors
      OBVIOUS
    <2>2. TypeOK
      BY <2>1 DEF CopyInv, StreamWhole
    <2>3. signals' \in 0 .. MaxSignals /\ errors' \in 0 .. MaxErrors
      BY <1>1, <1>2, <2>2, StreamAssumption DEF TypeOK
    <2>4. eintr' \in BOOLEAN /\ interrupted' \in BOOLEAN
      BY <1>2, <2>2 DEF TypeOK
    <2>5. QED
      BY <2>3, <2>4
  <1>4. errors' \in Nat /\ errors' >= errors /\ PlaceIsKnown' = PlaceIsKnown
    BY <1>1 DEF CopyInv, PlaceIsKnown
  <1>5. /\ PlaceIsKnown => eintr' \in BOOLEAN /\ interrupted' \in BOOLEAN /\ signals' \in 0 .. MaxSignals
        /\ PlaceIsKnown' => errors' \in 0 .. MaxErrors
    BY <1>3, <1>4
  <1>6. QED
    BY <1>1, <1>4, <1>5, Staying

LEMMA RetryKeeps == ASSUME CopyInv, Retry PROVE CopyInv'
  <1>1. /\ setup' = setup /\ sourceVars' = sourceVars /\ buf' = buf /\ eof_readed' = eof_readed
        /\ writeVars' = writeVars /\ out' = out /\ errors' = errors
        /\ dest' = dest /\ pc' \in {pc, "threw"}
    BY DEF Retry, bufferVars
  <1>2. /\ signals' = signals /\ eintr' = FALSE /\ interrupted' \in {interrupted, FALSE}
    BY DEF Retry
  <1>3. PlaceIsKnown => /\ eintr' \in BOOLEAN /\ interrupted' \in BOOLEAN
                        /\ signals' \in 0 .. MaxSignals /\ errors' \in 0 .. MaxErrors
    BY <1>1, <1>2 DEF CopyInv, StreamWhole, TypeOK
  <1>4. errors' \in Nat /\ errors' >= errors /\ PlaceIsKnown' = PlaceIsKnown
    BY <1>1 DEF CopyInv, PlaceIsKnown
  <1>5. QED
    BY <1>1, <1>3, <1>4, Staying

\* A step that changes nothing.
LEMMA StutterKeeps == ASSUME CopyInv, UNCHANGED vars PROVE CopyInv'
  BY DEF vars, sourceVars, bufferVars, writeVars, signalVars, CopyInv, ReadingInv, PlaceIsKnown,
         StreamWhole, TypeOK

LEMMA NextKeeps == ASSUME CopyInv, [Next]_vars PROVE CopyInv'
  BY BeginKeeps, TargetReadsKeeps, TargetEndsKeeps, WriteKeeps, ReadFailsKeeps,
     WriteNothingKeeps, WriteFailsKeeps, InterruptKeeps, RetryKeeps, StutterKeeps DEF Next, Work

LEMMA CopyInvariant == Spec => []CopyInv
  <1>1. CopyInv /\ [Next]_vars => CopyInv'
    BY NextKeeps
  <1>2. QED
    BY InitCopy, <1>1, PTL DEF Spec

----------------------------------------------------------------------------
(* What holds of every copy *)

\* A copy to anything but standard output loses, doubles and moves no byte, and
\* ends at the end of file (stream_copy, write_all, buffered_input_stream::read).
THEOREM NoByteIsLost ==
    ASSUME "stdout" \notin Outputs
    PROVE  Spec => []StreamWhole
  <1>1. CopyInv => StreamWhole
    BY DEF CopyInv, PlaceIsKnown
  <1>2. QED
    BY <1>1, CopyInvariant, PTL

\* Nor does a copy to standard output while no write to it has failed: that is
\* the only case in which write_all loses its place.
THEOREM OnlyFailedWritesLoseThePlace == Spec => [](PlaceIsKnown => StreamWhole)
  <1>1. CopyInv => (PlaceIsKnown => StreamWhole)
    BY DEF CopyInv
  <1>2. QED
    BY <1>1, CopyInvariant, PTL

\* The source is not read after it has returned 0 (buffered_input_stream::read
\* keeps the end of file in eof_readed), wherever the copy goes.
THEOREM EofIsMetOnce == Spec => EofEndsReading
  <1>1. CopyInv /\ [Next]_vars => [eofs > 0 => UNCHANGED <<given, eofs>>]_vars
    <2> SUFFICES ASSUME CopyInv, Next, eofs > 0
                 PROVE  UNCHANGED <<given, eofs>>
      BY DEF vars, sourceVars
    <2>1. pc \notin {"direct", "fill"}
      <3>1. eofs \in {0, 1} /\ eof_readed = (eofs = 1) /\ (eof_readed => pc \notin {"direct", "fill"})
        BY DEF CopyInv, ReadingInv
      <3>2. eofs = 1
        BY <3>1
      <3>3. QED
        BY <3>1, <3>2, Zenon
    <2>2. ~TargetReads /\ ~TargetEnds
      BY <2>1 DEF TargetReads, TargetEnds
    <2>3. QED
      BY <2>2 DEF Next, Work, BeginRead, WriteSome, Retry, ReadFails, WriteNothing, WriteFails,
                  Interrupt, sourceVars
  <1>2. QED
    BY <1>1, CopyInvariant, PTL DEF Spec, EofEndsReading

==============================================================================
