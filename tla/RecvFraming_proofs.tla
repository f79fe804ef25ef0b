------------------------- MODULE RecvFraming_proofs -------------------------
(***************************************************************************)
(* Proofs about RecvFraming for any sizes and any byte stream: types; that *)
(* recv() always fills exactly what is left of the header array or of the  *)
(* package its pointer is in; and that what is handed over is what a       *)
(* parser of the whole stream finds, however the stream was cut.           *)
(***************************************************************************)
EXTENDS RecvFraming, ListLemmas

Cell == Byte \cup {Unset}

Framing == TypeOK /\ RecvFitsBuffer

-----------------------------------------------------------------------------
(* Buffers and lengths *)

\* What recv() returns.
LEMMA Segment ==
    ASSUME NEW n \in Nat, NEW bytes \in BoundedSeq(Byte, n), bytes # <<>>
    PROVE  bytes \in Seq(Byte) /\ Len(bytes) \in 1 .. n
<1>1. PICK m \in 0 .. n : bytes \in [1 .. m -> Byte]
  BY DEF BoundedSeq, SeqOf
<1>2. m # 0
  BY <1>1
<1>3. bytes \in Seq(Byte) /\ Len(bytes) = m
  BY <1>1
<1> QED BY <1>2, <1>3

\* Writing into a buffer changes cells, never the size.
LEMMA WriteType ==
    ASSUME NEW n \in Nat, NEW buffer \in [1 .. n -> Cell], NEW offset,
           NEW bytes \in Seq(Byte)
    PROVE  Write(buffer, offset, bytes) \in [1 .. n -> Cell]
<1>1. \A i \in DOMAIN bytes : bytes[i] \in Cell
  BY DEF Cell
<1> QED BY <1>1 DEF Write

LEMMA WritePackageType ==
    ASSUME NEW buffer \in Seq(Cell), NEW offset, NEW bytes \in Seq(Byte)
    PROVE  /\ Write(buffer, offset, bytes) \in Seq(Cell)
           /\ Len(Write(buffer, offset, bytes)) = Len(buffer)
<1> DEFINE n == Len(buffer)
           w == Write(buffer, offset, bytes)
<1>1. n \in Nat /\ buffer \in [1 .. n -> Cell]
  OBVIOUS
<1> HIDE DEF n, w
<1>2. w \in [1 .. n -> Cell]
  BY <1>1, WriteType DEF w
<1>3. w \in Seq(Cell) /\ Len(w) = n
  BY <1>1, <1>2
<1> QED BY <1>3 DEF n, w

\* A package with a legal length and nothing but its header.
LEMMA PackageType ==
    ASSUME NEW n \in Nat, n >= HeaderLength,
           NEW header \in [1 .. HeaderLength -> Cell]
    PROVE  LET p == [i \in 1 .. n |-> IF i <= HeaderLength THEN header[i] ELSE Unset]
           IN  p \in Seq(Cell) /\ Len(p) = n
<1> DEFINE p == [i \in 1 .. n |-> IF i <= HeaderLength THEN header[i] ELSE Unset]
<1>1. p \in [1 .. n -> Cell]
  BY FramingAssumption DEF Cell
<1> HIDE DEF p
<1>2. p \in Seq(Cell) /\ Len(p) = n
  BY <1>1
<1> QED BY <1>2 DEF p

LEMMA LegalLength ==
    ASSUME NEW n, Legal(n)
    PROVE  n \in Nat /\ n >= HeaderLength
  BY FramingAssumption DEF Legal

-----------------------------------------------------------------------------
(* The steps of the handler *)

LEMMA InitFraming == Init => Framing
<1> SUFFICES ASSUME Init PROVE Framing
  OBVIOUS
<1>1. pkgHeadInfo \in [1 .. HeaderLength -> Byte \cup {Unset}]
  BY DEF Init
<1>2. recvPkgData \in Seq(Cell) /\ msgQueue \in Seq(Seq(Cell)) /\ received \in Seq(Byte)
  BY EmptySeq DEF Init, Null
<1>3. recvOffset \in Nat /\ recvLength \in Nat /\ clients \in 1 .. MaxClients
  BY FramingAssumption DEF Init
<1>4. TypeOK
  BY <1>1, <1>2, <1>3 DEF Init, TypeOK, Cell, HeaderState
<1>5. RecvFitsBuffer
  BY FramingAssumption DEF Init, RecvFitsBuffer, HeaderState
<1> QED BY <1>4, <1>5 DEF Framing

\* The part of the invariant recv() works on, between its calls.
Stage(stat, offset, length, data) ==
    /\ stat \in HeaderState \cup BodyState
    /\ offset \in Nat /\ length \in Nat /\ length > 0
    /\ data \in Seq(Cell)
    /\ offset + length = IF stat \in HeaderState THEN HeaderLength ELSE Len(data)

LEMMA HeaderStage ==
    ASSUME BackToHeader, recvPkgData' \in Seq(Cell)
    PROVE  Stage(recvStat', recvOffset', recvLength', recvPkgData')
  BY FramingAssumption DEF BackToHeader, Stage, HeaderState

LEMMA Queued ==
    ASSUME msgQueue \in Seq(Seq(Cell)), NEW package \in Seq(Cell), InMsgQueue(package)
    PROVE  /\ Stage(recvStat', recvOffset', recvLength', recvPkgData')
           /\ msgQueue' \in Seq(Seq(Cell))
<1>1. recvPkgData' \in Seq(Cell)
  BY EmptySeq DEF InMsgQueue, Null
<1>2. msgQueue' \in Seq(Seq(Cell))
  BY AppendProperties DEF InMsgQueue
<1> QED BY <1>1, <1>2, HeaderStage DEF InMsgQueue

LEMMA Processed ==
    ASSUME msgQueue \in Seq(Seq(Cell)), recvPkgData \in Seq(Cell),
           NEW header \in [1 .. HeaderLength -> Cell], ProcessPkg(header)
    PROVE  /\ Stage(recvStat', recvOffset', recvLength', recvPkgData')
           /\ msgQueue' \in Seq(Seq(Cell))
<1> DEFINE n == PkgLength(header)
           p == [i \in 1 .. n |-> IF i <= HeaderLength THEN header[i] ELSE Unset]
<1>0. \/ ~Legal(n) /\ BackToHeader /\ UNCHANGED <<recvPkgData, msgQueue>>
      \/ Legal(n) /\ n = HeaderLength /\ InMsgQueue(p)
      \/ /\ Legal(n) /\ n # HeaderLength
         /\ recvPkgData' = p
         /\ recvStat' = "PKG_BD_INIT"
         /\ recvOffset' = HeaderLength /\ recvLength' = n - HeaderLength
         /\ UNCHANGED msgQueue
  BY Zenon DEF ProcessPkg
<1>1. ASSUME Legal(n) PROVE n \in Nat /\ n >= HeaderLength /\ p \in Seq(Cell) /\ Len(p) = n
  <2> HIDE DEF n
  <2>1. n \in Nat /\ n >= HeaderLength
    BY <1>1, LegalLength
  <2> QED BY <2>1, PackageType
<1> HIDE DEF n, p
<1>2. CASE ~Legal(n) /\ BackToHeader /\ UNCHANGED <<recvPkgData, msgQueue>>
  BY <1>2, HeaderStage
<1>3. CASE Legal(n) /\ n = HeaderLength /\ InMsgQueue(p)
  BY <1>1, <1>3, Queued
<1>4. CASE /\ Legal(n) /\ n # HeaderLength
           /\ recvPkgData' = p
           /\ recvStat' = "PKG_BD_INIT"
           /\ recvOffset' = HeaderLength /\ recvLength' = n - HeaderLength
           /\ UNCHANGED msgQueue
  BY <1>1, <1>4, FramingAssumption DEF Stage, HeaderState, BodyState
<1> QED BY <1>0, <1>2, <1>3, <1>4

LEMMA Advanced ==
    ASSUME Stage(recvStat, recvOffset, recvLength, recvPkgData),
           NEW k \in 1 .. recvLength, k # recvLength, NEW stat,
           Advance(k, stat),
           {recvStat, stat} \subseteq HeaderState \/ {recvStat, stat} \subseteq BodyState,
           recvPkgData' \in Seq(Cell), Len(recvPkgData') = Len(recvPkgData)
    PROVE  Stage(recvStat', recvOffset', recvLength', recvPkgData')
<1>1. recvStat' \in HeaderState <=> recvStat \in HeaderState
  BY DEF Advance, HeaderState, BodyState
<1> QED BY <1>1, FramingAssumption DEF Advance, Stage

LEMMA RecvKeepsFraming == Framing /\ Recv => Framing'
<1> SUFFICES ASSUME Framing, Recv PROVE Framing'
  OBVIOUS
<1>1. /\ Stage(recvStat, recvOffset, recvLength, recvPkgData)
      /\ pkgHeadInfo \in [1 .. HeaderLength -> Cell]
      /\ msgQueue \in Seq(Seq(Cell)) /\ received \in Seq(Byte)
  BY DEF Framing, TypeOK, RecvFitsBuffer, Stage, Recv, Cell
<1>2. PICK bytes \in BoundedSeq(Byte, recvLength) :
         /\ bytes # <<>>
         /\ received' = received \o bytes
         /\ RecvHeader(bytes) \/ RecvBody(bytes) \/ RecvRestOfBody(bytes)
  BY DEF Recv
<1>3. bytes \in Seq(Byte) /\ Len(bytes) \in 1 .. recvLength
  BY <1>1, <1>2, Segment DEF Stage
<1>4. received' \in Seq(Byte)
  BY <1>1, <1>2, <1>3, ConcatProperties
<1>5. /\ Stage(recvStat', recvOffset', recvLength', recvPkgData')
      /\ pkgHeadInfo' \in [1 .. HeaderLength -> Cell]
      /\ msgQueue' \in Seq(Seq(Cell))
  <2>1. CASE RecvHeader(bytes)
    <3> DEFINE header == Write(pkgHeadInfo, recvOffset, bytes)
    <3>1. header \in [1 .. HeaderLength -> Cell]
      BY <1>1, <1>3, FramingAssumption, WriteType
    <3>2. /\ recvStat \in HeaderState /\ pkgHeadInfo' = header
          /\ \/ ProcessPkg(header)
             \/ /\ Len(bytes) # recvLength /\ Advance(Len(bytes), "PKG_HD_RECVING")
                /\ UNCHANGED <<recvPkgData, msgQueue>>
      BY <2>1 DEF RecvHeader
    <3> HIDE DEF header
    <3>3. CASE ProcessPkg(header)
      BY <1>1, <3>1, <3>2, <3>3, Processed DEF Stage
    <3>4. CASE /\ Len(bytes) # recvLength /\ Advance(Len(bytes), "PKG_HD_RECVING")
               /\ UNCHANGED <<recvPkgData, msgQueue>>
      <4>1. {recvStat, "PKG_HD_RECVING"} \subseteq HeaderState
        BY <3>2 DEF HeaderState
      <4>2. recvPkgData' \in Seq(Cell) /\ Len(recvPkgData') = Len(recvPkgData)
        BY <1>1, <3>4 DEF Stage
      <4>3. Stage(recvStat', recvOffset', recvLength', recvPkgData')
        BY <1>1, <1>3, <3>4, <4>1, <4>2, Advanced
      <4> QED BY <1>1, <3>1, <3>2, <3>4, <4>3
    <3> QED BY <3>2, <3>3, <3>4
  <2>2. CASE RecvBody(bytes)
    <3> DEFINE data == Write(recvPkgData, recvOffset, bytes)
    <3>1. data \in Seq(Cell) /\ Len(data) = Len(recvPkgData)
      BY <1>1, <1>3, WritePackageType DEF Stage
    <3>2. /\ recvStat = "PKG_BD_INIT" /\ pkgHeadInfo' = pkgHeadInfo
          /\ \/ InMsgQueue(data)
             \/ /\ Len(bytes) # recvLength /\ Advance(Len(bytes), "PKG_BD_RECVING")
                /\ recvPkgData' = data /\ msgQueue' = msgQueue
      BY <2>2 DEF RecvBody
    <3> HIDE DEF data
    <3>3. CASE InMsgQueue(data)
      BY <1>1, <3>1, <3>2, <3>3, Queued
    <3>4. CASE /\ Len(bytes) # recvLength /\ Advance(Len(bytes), "PKG_BD_RECVING")
               /\ recvPkgData' = data /\ msgQueue' = msgQueue
      <4>1. {recvStat, "PKG_BD_RECVING"} \subseteq BodyState
        BY <3>2 DEF BodyState
      <4>2. Stage(recvStat', recvOffset', recvLength', recvPkgData')
        BY <1>1, <1>3, <3>1, <3>4, <4>1, Advanced
      <4> QED BY <1>1, <3>2, <3>4, <4>2
    <3> QED BY <3>2, <3>3, <3>4
  <2>3. CASE RecvRestOfBody(bytes)
    <3>1. recvPkgData' \in Seq(Cell) /\ Len(recvPkgData') = Len(recvPkgData)
      BY <1>1, <1>3, <2>3, WritePackageType DEF Stage, RecvRestOfBody
    <3> QED BY <1>1, <2>3, <3>1 DEF Stage, RecvRestOfBody
  <2> QED BY <1>2, <2>1, <2>2, <2>3
<1>6. connected' = connected /\ clients' = clients
  BY DEF Recv
<1>7. TypeOK'
  BY <1>4, <1>5, <1>6 DEF TypeOK, Framing, Stage, Cell
<1>8. RecvFitsBuffer'
  BY <1>5 DEF RecvFitsBuffer, Stage
<1> QED BY <1>7, <1>8 DEF Framing

LEMMA LeaveKeepsFraming == Framing /\ Leave => Framing'
<1> SUFFICES ASSUME Framing, Leave PROVE Framing'
  OBVIOUS
<1>1. recvPkgData' \in Seq(Cell)
  BY EmptySeq DEF Leave, Null
<1>2. TypeOK'
  BY <1>1 DEF Framing, TypeOK, Leave, Cell
<1>3. RecvFitsBuffer'
  BY DEF RecvFitsBuffer, Leave
<1> QED BY <1>2, <1>3 DEF Framing

LEMMA GetOneToUseKeepsFraming == Framing /\ GetOneToUse => Framing'
<1> SUFFICES ASSUME Framing, GetOneToUse PROVE Framing'
  OBVIOUS
<1>1. recvPkgData' \in Seq(Cell) /\ msgQueue' \in Seq(Seq(Cell)) /\ received' \in Seq(Byte)
  BY EmptySeq DEF GetOneToUse, Null
<1>2. Stage(recvStat', recvOffset', recvLength', recvPkgData')
  BY <1>1, HeaderStage DEF GetOneToUse
<1>3. clients' \in 1 .. MaxClients
  BY FramingAssumption DEF Framing, TypeOK, GetOneToUse
<1>4. TypeOK'
  BY <1>1, <1>2, <1>3 DEF Framing, TypeOK, GetOneToUse, Stage, Cell
<1>5. RecvFitsBuffer'
  BY <1>2 DEF RecvFitsBuffer, Stage
<1> QED BY <1>4, <1>5 DEF Framing

LEMMA StepFraming == Framing /\ [Next]_vars => Framing'
<1> SUFFICES ASSUME Framing, [Next]_vars PROVE Framing'
  OBVIOUS
<1>1. CASE Next
  BY <1>1, RecvKeepsFraming, LeaveKeepsFraming, GetOneToUseKeepsFraming DEF Next
<1>2. CASE UNCHANGED vars
  BY <1>2 DEF Framing, TypeOK, RecvFitsBuffer, vars, recvVars
<1> QED BY <1>1, <1>2

LEMMA FramingAlways == Spec => []Framing
<1> QED BY InitFraming, StepFraming, PTL DEF Spec

-----------------------------------------------------------------------------
(* The reference parser is defined by recursion over a stream.  A solution *)
(* of its equation exists for every stream, so the equation holds.         *)

LengthAt(stream, i) == PkgLength(SubSeq(stream, i, i + 1))

\* What the parser finds at byte i, if f is what it finds further on.
ParseAt(stream, f, i) ==
    IF i + HeaderLength - 1 > Len(stream) THEN <<>>
    ELSE LET n == LengthAt(stream, i) IN
         IF ~Legal(n) THEN f[i + HeaderLength]
         ELSE IF i + n - 1 > Len(stream) THEN <<>>
         ELSE <<SubSeq(stream, i, i + n - 1)>> \o f[i + n]

Parse(stream, f) == [i \in 1 .. Len(stream) + 1 |-> ParseAt(stream, f, i)]

Package == Seq(Byte)

\* The length field of a header.
LEMMA LengthField ==
    ASSUME NEW stream \in Seq(Byte), NEW i \in 1 .. Len(stream) - 1
    PROVE  LengthAt(stream, i) = stream[i] * Base + stream[i + 1]
<1> DEFINE h == SubSeq(stream, i, i + 1)
<1>1. \A j \in i .. i + 1 : stream[j] \in Byte
  BY LenProperties, ElementOfSeq
<1>2. \A j \in 1 .. (i + 1) - i + 1 : h[j] = stream[i + j - 1]
  BY <1>1, SubSeqProperties
<1> HIDE DEF h
<1>3. h[1] = stream[i + 1 - 1] /\ h[2] = stream[i + 2 - 1]
  BY <1>2
<1>4. i + 1 - 1 = i /\ i + 2 - 1 = i + 1
  OBVIOUS
<1> QED BY <1>3, <1>4 DEF LengthAt, PkgLength, h

\* The bytes of a package.
LEMMA PackageAt ==
    ASSUME NEW stream \in Seq(Byte), NEW i \in 1 .. Len(stream) + 1, NEW n \in Nat,
           i + n - 1 <= Len(stream)
    PROVE  LET p == SubSeq(stream, i, i + n - 1)
           IN  p \in Package /\ Len(p) = n /\ \A j \in 1 .. n : p[j] = stream[i + j - 1]
<1> DEFINE last == i + n - 1
<1>1. last \in Int /\ \A j \in i .. last : stream[j] \in Byte
  BY LenProperties, ElementOfSeq
<1>2. last - i + 1 = n /\ (IF i <= last THEN last - i + 1 ELSE 0) = n
  OBVIOUS
<1> HIDE DEF last
<1>3. /\ SubSeq(stream, i, last) \in Seq(Byte)
      /\ Len(SubSeq(stream, i, last)) = n
      /\ \A j \in 1 .. n : SubSeq(stream, i, last)[j] = stream[i + j - 1]
  BY <1>1, <1>2, SubSeqProperties
<1> QED BY <1>3 DEF last, Package

\* The parser looks only further on, ...
LEMMA ParseAtLocal ==
    ASSUME NEW stream \in Seq(Byte), NEW f, NEW g, NEW i \in 1 .. Len(stream) + 1,
           \A j \in 1 .. Len(stream) + 1 : j > i => f[j] = g[j]
    PROVE  ParseAt(stream, f, i) = ParseAt(stream, g, i)
<1> DEFINE n == LengthAt(stream, i)
<1>1. ASSUME ~(i + HeaderLength - 1 > Len(stream))
      PROVE  f[i + HeaderLength] = g[i + HeaderLength]
  BY <1>1, FramingAssumption
<1>2. ASSUME Legal(n), ~(i + n - 1 > Len(stream))
      PROVE  f[i + n] = g[i + n]
  <2> HIDE DEF n
  <2>1. n \in Nat /\ n >= HeaderLength
    BY <1>2, LegalLength
  <2>2. i + n \in 1 .. Len(stream) + 1 /\ i + n > i
    BY <1>2, <2>1, FramingAssumption
  <2> QED BY <2>2
<1> QED BY <1>1, <1>2, Zenon DEF ParseAt

\* ... and finds packages.
LEMMA ParseAtType ==
    ASSUME NEW stream \in Seq(Byte), NEW f, NEW i \in 1 .. Len(stream) + 1,
           \A j \in 1 .. Len(stream) + 1 : j > i => f[j] \in Seq(Package)
    PROVE  ParseAt(stream, f, i) \in Seq(Package)
<1> DEFINE n == LengthAt(stream, i)
           p == SubSeq(stream, i, i + n - 1)
<1>1. ASSUME ~(i + HeaderLength - 1 > Len(stream))
      PROVE  f[i + HeaderLength] \in Seq(Package)
  BY <1>1, FramingAssumption
<1>2. ASSUME Legal(n), ~(i + n - 1 > Len(stream))
      PROVE  <<p>> \o f[i + n] \in Seq(Package)
  <2> HIDE DEF n, p
  <2>1. n \in Nat /\ n >= HeaderLength
    BY <1>2, LegalLength
  <2>2. i + n \in 1 .. Len(stream) + 1 /\ i + n > i
    BY <1>2, <2>1, FramingAssumption
  <2>3. p \in Package
    <3>1. i + n - 1 <= Len(stream)
      BY <1>2, <2>1, LenProperties
    <3> QED BY <2>1, <3>1, PackageAt DEF p
  <2>4. <<p>> \in Seq(Package)
    BY <2>3
  <2> QED BY <2>2, <2>4, ConcatProperties
<1>3. <<>> \in Seq(Package)
  BY EmptySeq
<1> QED BY <1>1, <1>2, <1>3, Zenon DEF ParseAt

\* A solution is built from the end of the stream to its beginning.
LEMMA ParseExists ==
    ASSUME NEW stream \in Seq(Byte)
    PROVE  \E f \in [1 .. Len(stream) + 1 -> Seq(Package)] : f = Parse(stream, f)
<1> DEFINE L == Len(stream)
           F == [1 .. L + 1 -> Seq(Package)]
           Solves(f, k) == \A i \in 1 .. L + 1 : i > L + 1 - k => f[i] = ParseAt(stream, f, i)
           P == {k \in Nat : k <= L + 1 => \E f \in F : Solves(f, k)}
<1>0. L \in Nat
  BY LenProperties
<1> HIDE DEF L
<1>1. 0 \in P
  <2>1. [i \in 1 .. L + 1 |-> <<>>] \in F
    BY EmptySeq
  <2>2. \A i \in 1 .. L + 1 : ~(i > L + 1 - 0)
    BY <1>0
  <2> QED BY <2>1, <2>2
<1>2. ASSUME NEW k \in Nat, k \in P PROVE k + 1 \in P
  <2> SUFFICES ASSUME k + 1 <= L + 1 PROVE \E f \in F : Solves(f, k + 1)
    OBVIOUS
  <2>1. PICK f \in F : Solves(f, k)
    BY <1>0, <1>2
  <2> DEFINE i0 == L + 1 - k
             g == [f EXCEPT ![i0] = ParseAt(stream, f, i0)]
  <2>2. i0 \in 1 .. L + 1
    BY <1>0
  <2>3. \A j \in 1 .. L + 1 : j > i0 => f[j] \in Seq(Package)
    OBVIOUS
  <2>4. ParseAt(stream, f, i0) \in Seq(Package)
    <3> HIDE DEF i0
    <3> QED BY <2>2, <2>3, ParseAtType DEF L
  <2>5. g \in F
    BY <2>2, <2>4
  <2>6. \A j \in 1 .. L + 1 : g[j] = IF j = i0 THEN ParseAt(stream, f, i0) ELSE f[j]
    <3> HIDE DEF i0
    <3> QED BY <2>2
  <2>7. ASSUME NEW i \in 1 .. L + 1, i > L + 1 - (k + 1)
        PROVE  g[i] = ParseAt(stream, g, i)
    <3>1. i = i0 \/ i > i0
      BY <1>0, <2>7
    <3>2. g[i] = ParseAt(stream, f, i)
      BY <2>1, <2>6, <3>1
    <3>3. \A j \in 1 .. L + 1 : j > i => f[j] = g[j]
      BY <1>0, <2>2, <2>6, <3>1
    <3> HIDE DEF g, i0
    <3>4. ParseAt(stream, f, i) = ParseAt(stream, g, i)
      BY <3>3, ParseAtLocal DEF L
    <3> QED BY <3>2, <3>4
  <2> HIDE DEF g
  <2> QED BY <2>5, <2>7
<1>3. L + 1 \in P
  <2>1. \A k \in Nat : k \in P => k + 1 \in P
    BY <1>2
  <2> HIDE DEF P
  <2>2. \A k \in Nat : k \in P
    BY <1>1, <2>1, SetInduction, Zenon
  <2> QED BY <1>0, <2>2
<1>4. PICK f \in F : Solves(f, L + 1)
  BY <1>0, <1>3
<1>5. \A i \in 1 .. L + 1 : f[i] = ParseAt(stream, f, i)
  BY <1>0, <1>4
<1>6. f = Parse(stream, f)
  BY <1>5 DEF Parse, L
<1> QED BY <1>6 DEF L

LEMMA PackagesFromEquation ==
    ASSUME NEW stream \in Seq(Byte)
    PROVE  PackagesFrom(stream) = Parse(stream, PackagesFrom(stream))
<1>1. PackagesFrom(stream) = CHOOSE f : f = Parse(stream, f)
  BY Zenon DEF PackagesFrom, Parse, ParseAt, LengthAt
<1>2. \E f : f = Parse(stream, f)
  BY ParseExists
<1> QED BY <1>1, <1>2, Zenon

\* From any byte on the parser finds packages.
LEMMA PackagesFromType ==
    ASSUME NEW stream \in Seq(Byte)
    PROVE  \A i \in 1 .. Len(stream) + 1 : PackagesFrom(stream)[i] \in Seq(Package)
<1> DEFINE L == Len(stream)
           f == PackagesFrom(stream)
           P == {k \in Nat : \A i \in 1 .. L + 1 : i > L + 1 - k => f[i] \in Seq(Package)}
<1>0. L \in Nat
  BY LenProperties
<1>a. \A i \in 1 .. L + 1 : f[i] = ParseAt(stream, f, i)
  <2> HIDE DEF f
  <2> QED BY PackagesFromEquation DEF Parse, f
<1> HIDE DEF L, f
<1>1. 0 \in P
  BY <1>0
<1>2. ASSUME NEW k \in Nat, k \in P PROVE k + 1 \in P
  <2>1. ASSUME NEW i \in 1 .. L + 1, i > L + 1 - (k + 1) PROVE f[i] \in Seq(Package)
    <3>1. \A j \in 1 .. L + 1 : j > i => f[j] \in Seq(Package)
      BY <1>0, <1>2, <2>1
    <3>2. ParseAt(stream, f, i) \in Seq(Package)
      BY <3>1, ParseAtType DEF L
    <3> QED BY <1>a, <3>2
  <2> QED BY <2>1
<1>3. L + 1 \in P
  <2>1. \A k \in Nat : k \in P => k + 1 \in P
    BY <1>2
  <2> HIDE DEF P
  <2>2. \A k \in Nat : k \in P
    BY <1>1, <2>1, SetInduction, Zenon
  <2> QED BY <1>0, <2>2
<1>4. \A i \in 1 .. L + 1 : f[i] \in Seq(Package)
  BY <1>0, <1>3
<1> QED BY <1>4 DEF L, f

-----------------------------------------------------------------------------
(* Where the handler is in the stream: whatever comes next, the parser      *)
(* finds the queued packages and then what begins at byte i.  The bytes     *)
(* still to come are quantified over, so that a step needs to look only at  *)
(* the package it completes, never at those before it.                      *)

ParsedUpTo(stream, queue, i) ==
    /\ i \in 1 .. Len(stream) + 1
    /\ \A more \in Seq(Byte) :
          PackagesOf(stream \o more) = queue \o PackagesFrom(stream \o more)[i]

\* The parser's equation at one byte.
LEMMA PackagesFromAt ==
    ASSUME NEW stream \in Seq(Byte), NEW i \in 1 .. Len(stream) + 1
    PROVE  PackagesFrom(stream)[i] = ParseAt(stream, PackagesFrom(stream), i)
<1> DEFINE f == PackagesFrom(stream)
<1>1. f = Parse(stream, f)
  BY PackagesFromEquation
<1> HIDE DEF f
<1>2. f[i] = ParseAt(stream, f, i)
  BY <1>1 DEF Parse
<1> QED BY <1>2 DEF f

\* What has come does not change when more comes.
LEMMA MoreBytes ==
    ASSUME NEW stream \in Seq(Byte), NEW more \in Seq(Byte)
    PROVE  /\ stream \o more \in Seq(Byte)
           /\ Len(stream \o more) = Len(stream) + Len(more)
           /\ \A j \in 1 .. Len(stream) : (stream \o more)[j] = stream[j]
           /\ \A i \in 1 .. Len(stream) - 1 : LengthAt(stream \o more, i) = LengthAt(stream, i)
<1>1. /\ stream \o more \in Seq(Byte)
      /\ Len(stream \o more) = Len(stream) + Len(more)
      /\ \A j \in 1 .. Len(stream) : (stream \o more)[j] = stream[j]
      /\ Len(stream) \in Nat /\ Len(more) \in Nat
  BY ConcatProperties, LenProperties
<1>2. ASSUME NEW i \in 1 .. Len(stream) - 1
      PROVE  LengthAt(stream \o more, i) = LengthAt(stream, i)
  <2> DEFINE all == stream \o more
  <2>1. /\ all \in Seq(Byte) /\ i \in 1 .. Len(all) - 1
        /\ all[i] = stream[i] /\ all[i + 1] = stream[i + 1]
    BY <1>1
  <2> HIDE DEF all
  <2>2. LengthAt(all, i) = all[i] * Base + all[i + 1]
    BY <2>1, LengthField
  <2>3. LengthAt(stream, i) = stream[i] * Base + stream[i + 1]
    BY LengthField
  <2> QED BY <2>1, <2>2, <2>3 DEF all
<1> QED BY <1>1, <1>2

\* More bytes alone do not matter.
LEMMA ParsedMore ==
    ASSUME NEW stream \in Seq(Byte), NEW bytes \in Seq(Byte), NEW queue, NEW i,
           ParsedUpTo(stream, queue, i)
    PROVE  ParsedUpTo(stream \o bytes, queue, i)
<1>1. i \in 1 .. Len(stream \o bytes) + 1
  BY MoreBytes, LenProperties DEF ParsedUpTo
<1>2. ASSUME NEW more \in Seq(Byte)
      PROVE  LET all == (stream \o bytes) \o more
             IN  PackagesOf(all) = queue \o PackagesFrom(all)[i]
  <2>1. (stream \o bytes) \o more = stream \o (bytes \o more)
    BY ConcatAssociative
  <2>2. bytes \o more \in Seq(Byte)
    BY ConcatProperties
  <2> QED BY <2>1, <2>2 DEF ParsedUpTo
<1> QED BY <1>1, <1>2 DEF ParsedUpTo

\* A header with an illegal length is skipped.
LEMMA ParsedHeader ==
    ASSUME NEW stream \in Seq(Byte), NEW queue, NEW i,
           ParsedUpTo(stream, queue, i),
           i + HeaderLength - 1 <= Len(stream), ~Legal(LengthAt(stream, i))
    PROVE  ParsedUpTo(stream, queue, i + HeaderLength)
<1>1. i \in 1 .. Len(stream) - 1 /\ i + HeaderLength \in 1 .. Len(stream) + 1
  BY LenProperties, FramingAssumption DEF ParsedUpTo
<1>2. ASSUME NEW more \in Seq(Byte)
      PROVE  LET all == stream \o more
             IN  PackagesOf(all) = queue \o PackagesFrom(all)[i + HeaderLength]
  <2> DEFINE all == stream \o more
             f == PackagesFrom(all)
  <2>1. PackagesOf(all) = queue \o f[i]
    BY DEF ParsedUpTo
  <2>2. /\ all \in Seq(Byte) /\ i \in 1 .. Len(all) + 1
        /\ LengthAt(all, i) = LengthAt(stream, i)
        /\ ~(i + HeaderLength - 1 > Len(all))
    BY <1>1, MoreBytes, LenProperties, FramingAssumption
  <2> HIDE DEF all
  <2>3. f[i] = ParseAt(all, f, i)
    BY <2>2, PackagesFromAt
  <2> HIDE DEF f
  <2>4. f[i] = f[i + HeaderLength]
    BY <2>2, <2>3, Zenon DEF ParseAt
  <2> QED BY <2>1, <2>4 DEF all, f
<1> QED BY <1>1, <1>2 DEF ParsedUpTo

\* A complete package is the next of the queue.
LEMMA ParsedPackage ==
    ASSUME NEW stream \in Seq(Byte), NEW queue \in Seq(Seq(Cell)), NEW i,
           ParsedUpTo(stream, queue, i),
           i + HeaderLength - 1 <= Len(stream),
           NEW n, n = LengthAt(stream, i), Legal(n), i + n - 1 <= Len(stream),
           NEW package \in Seq(Cell), Len(package) = n,
           \A j \in 1 .. n : package[j] = stream[i + j - 1]
    PROVE  ParsedUpTo(stream, Append(queue, package), i + n)
<1>1. /\ n \in Nat /\ n >= HeaderLength
      /\ i \in 1 .. Len(stream) - 1 /\ i + n \in 1 .. Len(stream) + 1
  BY LegalLength, LenProperties, FramingAssumption DEF ParsedUpTo
<1>2. ASSUME NEW more \in Seq(Byte)
      PROVE  LET all == stream \o more
             IN  PackagesOf(all) = Append(queue, package) \o PackagesFrom(all)[i + n]
  <2> DEFINE all == stream \o more
             f == PackagesFrom(all)
             p == SubSeq(all, i, i + n - 1)
  <2>1. PackagesOf(all) = queue \o f[i]
    BY DEF ParsedUpTo
  <2>2. /\ all \in Seq(Byte) /\ i \in 1 .. Len(all) + 1
        /\ LengthAt(all, i) = n
        /\ ~(i + HeaderLength - 1 > Len(all)) /\ ~(i + n - 1 > Len(all))
        /\ i + n \in 1 .. Len(all) + 1
    BY <1>1, MoreBytes, LenProperties, FramingAssumption
  <2>3. \A j \in 1 .. n : all[i + j - 1] = stream[i + j - 1]
    BY <1>1, MoreBytes, LenProperties
  <2> HIDE DEF all
  <2>4. f[i] = ParseAt(all, f, i)
    BY <2>2, PackagesFromAt
  <2>5. f[i + n] \in Seq(Package)
    BY <2>2, PackagesFromType
  <2>6. p \in Package /\ Len(p) = n /\ \A j \in 1 .. n : p[j] = all[i + j - 1]
    <3>1. i + n - 1 <= Len(all)
      BY <1>1, <2>2, LenProperties
    <3> QED BY <1>1, <2>2, <3>1, PackageAt
  <2> HIDE DEF f, p
  <2>7. f[i] = <<p>> \o f[i + n]
    BY <2>2, <2>4, Zenon DEF ParseAt, p
  <2>8. p \in Seq(Cell)
    BY <2>6, SeqMonotonic DEF Package, Cell
  <2>9. p = package
    BY <2>3, <2>6, <2>8, SeqEqual
  <2>10. f[i + n] \in Seq(Seq(Cell))
    <3>1. Package \subseteq Seq(Cell)
      BY SeqMonotonic DEF Package, Cell
    <3> QED BY <2>5, <3>1, SeqMonotonic
  <2>11. queue \o (<<package>> \o f[i + n]) = Append(queue, package) \o f[i + n]
    <3> DEFINE rest == f[i + n]
    <3>1. rest \in Seq(Seq(Cell))
      BY <2>10
    <3> HIDE DEF rest
    <3>2. queue \o (<<package>> \o rest) = Append(queue, package) \o rest
      BY <3>1, AppendToConcat
    <3> QED BY <3>2 DEF rest
  <2> QED BY <2>1, <2>7, <2>9, <2>11 DEF all, f
<1> QED BY <1>1, <1>2 DEF ParsedUpTo

\* The queue is a part of what the parser finds in the stream so far.
LEMMA ParsedIsPrefix ==
    ASSUME NEW stream \in Seq(Byte), NEW queue \in Seq(Seq(Cell)), NEW i,
           ParsedUpTo(stream, queue, i)
    PROVE  IsPrefix(queue, PackagesOf(stream))
<1> DEFINE rest == PackagesFrom(stream)[i]
           all == queue \o rest
<1>1. stream \o <<>> = stream /\ <<>> \in Seq(Byte)
  BY ConcatEmptySeq, EmptySeq
<1>2. PackagesOf(stream) = all
  BY <1>1 DEF ParsedUpTo
<1>3. rest \in Seq(Seq(Cell))
  <2>1. Package \subseteq Seq(Cell)
    BY SeqMonotonic DEF Package, Cell
  <2>2. rest \in Seq(Package)
    BY PackagesFromType DEF ParsedUpTo
  <2> HIDE DEF rest
  <2> QED BY <2>1, <2>2, SeqMonotonic
<1> HIDE DEF rest
<1>4. /\ Len(all) = Len(queue) + Len(rest) /\ Len(queue) \in Nat /\ Len(rest) \in Nat
      /\ \A j \in 1 .. Len(queue) : all[j] = queue[j]
      /\ all \in Seq(Seq(Cell))
  BY <1>3, ConcatProperties, LenProperties
<1> HIDE DEF all
<1>5. SubSeq(all, 1, Len(queue)) = queue
  <2> DEFINE s == SubSeq(all, 1, Len(queue))
  <2>1. \A j \in 1 .. Len(queue) : all[j] \in Seq(Cell)
    BY <1>4, ElementOfSeq
  <2>2. /\ s \in Seq(Seq(Cell))
        /\ Len(s) = IF 1 <= Len(queue) THEN Len(queue) - 1 + 1 ELSE 0
        /\ \A j \in 1 .. Len(queue) - 1 + 1 : s[j] = all[1 + j - 1]
    BY <1>4, <2>1, SubSeqProperties
  <2> HIDE DEF s
  <2>3. Len(s) = Len(queue) /\ \A j \in 1 .. Len(queue) : s[j] = queue[j]
    BY <1>4, <2>2
  <2>4. s = queue
    BY <2>2, <2>3, SeqEqual
  <2> QED BY <2>4 DEF s
<1>6. SubSeq(queue, 1, Len(queue)) = queue
  BY SubSeqFull
<1> QED BY <1>2, <1>4, <1>5, <1>6 DEF IsPrefix

\* It is all the parser finds, when what begins at byte i is not complete.
LEMMA ParsedIsAll ==
    ASSUME NEW stream \in Seq(Byte), NEW queue \in Seq(Seq(Cell)), NEW i,
           ParsedUpTo(stream, queue, i),
           \/ i + HeaderLength - 1 > Len(stream)
           \/ Legal(LengthAt(stream, i)) /\ i + LengthAt(stream, i) - 1 > Len(stream)
    PROVE  queue = PackagesOf(stream)
<1> DEFINE f == PackagesFrom(stream)
<1>1. stream \o <<>> = stream /\ <<>> \in Seq(Byte)
  BY ConcatEmptySeq, EmptySeq
<1>2. PackagesOf(stream) = queue \o f[i]
  BY <1>1 DEF ParsedUpTo
<1>3. f[i] = ParseAt(stream, f, i)
  BY PackagesFromAt DEF ParsedUpTo
<1> HIDE DEF f
<1>4. f[i] = <<>>
  BY <1>3, Zenon DEF ParseAt
<1> QED BY <1>2, <1>4, ConcatEmptySeq

-----------------------------------------------------------------------------
(* The invariant behind PackagesInOrder and PromptUnlessBodyCut.            *)

\* The byte the header or the package in hand begins with.
Unit == Len(received) - recvOffset + 1

\* The first k bytes of a buffer are those of the stream from byte i on.
Holds(buffer, k, stream, i) == \A j \in 1 .. k : buffer[j] = stream[i + j - 1]

\* A header is coming in: the part of it that came is in pkgHeadInfo.
InHeader ==
    /\ recvStat \in HeaderState
    /\ recvOffset + recvLength = HeaderLength /\ recvLength > 0
    /\ ParsedUpTo(received, msgQueue, Unit)
    /\ Holds(pkgHeadInfo, recvOffset, received, Unit)

\* A header came, its body has not begun: recvPkgData holds the header.
InBody ==
    /\ recvStat = "PKG_BD_INIT"
    /\ recvOffset = HeaderLength /\ recvLength > 0
    /\ ParsedUpTo(received, msgQueue, Unit)
    /\ Legal(LengthAt(received, Unit))
    /\ LengthAt(received, Unit) = recvOffset + recvLength
    /\ connected => Holds(recvPkgData, recvOffset, received, Unit)

\* A body came in part: nothing is handed over any more.
InRestOfBody ==
    /\ recvStat = "PKG_BD_RECVING"
    /\ \E i : ParsedUpTo(received, msgQueue, i)

Following == InHeader \/ InBody \/ InRestOfBody

Parsing == Framing /\ Following

\* A fresh object is at the first byte of an empty stream.
LEMMA NothingParsed == ParsedUpTo(<<>>, <<>>, 1)
<1>1. <<>> \in Seq(Byte) /\ Len(<<>>) = 0
  BY EmptySeq
<1>2. ASSUME NEW more \in Seq(Byte)
      PROVE  PackagesOf(<<>> \o more) = <<>> \o PackagesFrom(<<>> \o more)[1]
  <2> DEFINE r == PackagesFrom(more)[1]
  <2>1. <<>> \o more = more
    BY ConcatEmptySeq
  <2>2. r \in Seq(Package)
    BY PackagesFromType, LenProperties
  <2>3. <<>> \o r = r
    <3> HIDE DEF r
    <3> QED BY <2>2, ConcatEmptySeq
  <2> QED BY <2>1, <2>3 DEF PackagesOf
<1> QED BY <1>1, <1>2 DEF ParsedUpTo

LEMMA InitParsing == Init => Parsing
<1> SUFFICES ASSUME Init PROVE Parsing
  OBVIOUS
<1>1. Unit = 1
  BY EmptySeq DEF Init, Unit
<1>2. ParsedUpTo(received, msgQueue, Unit)
  BY <1>1, NothingParsed DEF Init
<1>3. InHeader
  BY <1>2, FramingAssumption DEF Init, InHeader, HeaderState, Holds
<1> QED BY <1>3, InitFraming DEF Parsing, Following

\* What recv() brought continues what is in the buffer.
LEMMA Written ==
    ASSUME NEW stream \in Seq(Byte), NEW bytes \in Seq(Byte),
           NEW size \in Nat, NEW buffer \in [1 .. size -> Cell],
           NEW offset \in Nat, offset <= Len(stream), offset + Len(bytes) <= size,
           NEW i, i = Len(stream) - offset + 1,
           Holds(buffer, offset, stream, i)
    PROVE  Holds(Write(buffer, offset, bytes), offset + Len(bytes), stream \o bytes, i)
<1> SUFFICES ASSUME NEW j \in 1 .. offset + Len(bytes)
             PROVE  Write(buffer, offset, bytes)[j] = (stream \o bytes)[i + j - 1]
  BY DEF Holds
<1> DEFINE all == stream \o bytes
<1>1. /\ Len(stream) \in Nat /\ Len(bytes) \in Nat
      /\ DOMAIN bytes = 1 .. Len(bytes)
      /\ \A k \in 1 .. Len(stream) + Len(bytes) :
            all[k] = IF k <= Len(stream) THEN stream[k] ELSE bytes[k - Len(stream)]
  BY ConcatProperties, LenProperties
<1> HIDE DEF all
<1>2. Write(buffer, offset, bytes)[j] =
         IF j - offset \in 1 .. Len(bytes) THEN bytes[j - offset] ELSE buffer[j]
  BY <1>1 DEF Write
<1>3. i + j - 1 \in 1 .. Len(stream) + Len(bytes)
  BY <1>1
<1>4. ASSUME j <= offset PROVE Write(buffer, offset, bytes)[j] = all[i + j - 1]
  <2>1. buffer[j] = stream[i + j - 1]
    BY <1>1, <1>4 DEF Holds
  <2>2. i + j - 1 <= Len(stream) /\ ~(j - offset \in 1 .. Len(bytes))
    BY <1>1, <1>4
  <2> QED BY <1>1, <1>2, <1>3, <2>1, <2>2
<1>5. ASSUME j > offset PROVE Write(buffer, offset, bytes)[j] = all[i + j - 1]
  <2>1. /\ (i + j - 1) - Len(stream) = j - offset /\ ~(i + j - 1 <= Len(stream))
        /\ j - offset \in 1 .. Len(bytes)
    BY <1>1, <1>5
  <2>2. Write(buffer, offset, bytes)[j] = bytes[j - offset]
    BY <1>2, <2>1
  <2>3. all[i + j - 1] = bytes[(i + j - 1) - Len(stream)]
    BY <1>1, <1>3, <2>1
  <2> QED BY <2>1, <2>2, <2>3
<1>6. Write(buffer, offset, bytes)[j] = all[i + j - 1]
  BY <1>4, <1>5
<1> QED BY <1>6 DEF all

\* The handler goes back to waiting for a header where the parser is.
LEMMA AtHeader ==
    ASSUME ParsedUpTo(received', msgQueue', Len(received') + 1), BackToHeader,
           received' \in Seq(Byte)
    PROVE  Following'
<1>1. Unit' = Len(received') + 1
  BY LenProperties DEF Unit, BackToHeader
<1>2. InHeader'
  BY <1>1, FramingAssumption DEF InHeader, BackToHeader, HeaderState, Holds
<1> QED BY <1>2 DEF Following

LEMMA RecvHeaderFollows ==
    ASSUME Framing, InHeader, connected,
           NEW bytes \in Seq(Byte), Len(bytes) \in 1 .. recvLength,
           received' = received \o bytes, RecvHeader(bytes),
           UNCHANGED connected
    PROVE  Following'
<1> DEFINE header == Write(pkgHeadInfo, recvOffset, bytes)
           n == PkgLength(header)
           p == [i \in 1 .. n |-> IF i <= HeaderLength THEN header[i] ELSE Unset]
<1>1. /\ received \in Seq(Byte) /\ Len(received) \in Nat
      /\ pkgHeadInfo \in [1 .. HeaderLength -> Cell]
      /\ recvOffset \in Nat /\ recvLength \in Nat
      /\ msgQueue \in Seq(Seq(Cell))
      /\ recvOffset + recvLength = HeaderLength
  BY LenProperties DEF Framing, TypeOK, InHeader, Cell
<1>2. /\ ParsedUpTo(received, msgQueue, Unit)
      /\ Holds(pkgHeadInfo, recvOffset, received, Unit)
  BY DEF InHeader
<1>3. /\ received' \in Seq(Byte) /\ Len(received') \in Nat
      /\ Len(received') = Len(received) + Len(bytes)
  BY <1>1, MoreBytes, LenProperties
<1>4. Unit \in Nat \ {0} /\ Unit <= Len(received) + 1 /\ recvOffset <= Len(received)
  BY <1>1, <1>2 DEF ParsedUpTo, Unit
<1>5. ParsedUpTo(received', msgQueue, Unit)
  BY <1>1, <1>2, ParsedMore
<1>6. /\ Holds(header, recvOffset + Len(bytes), received', Unit)
      /\ header \in [1 .. HeaderLength -> Cell]
  <2>1. /\ HeaderLength \in Nat /\ recvOffset + Len(bytes) <= HeaderLength
        /\ Unit = Len(received) - recvOffset + 1
    BY <1>1, FramingAssumption DEF Unit
  <2>2. header \in [1 .. HeaderLength -> Cell]
    BY <1>1, <2>1, WriteType
  <2>3. Holds(header, recvOffset + Len(bytes), received \o bytes, Unit)
    <3> HIDE DEF header, n, p
    <3> QED BY <1>1, <1>2, <1>4, <2>1, Written DEF header
  <2> QED BY <2>2, <2>3
<1>7. /\ pkgHeadInfo' = header
      /\ \/ Len(bytes) = recvLength /\ ProcessPkg(header)
         \/ /\ Len(bytes) # recvLength /\ Advance(Len(bytes), "PKG_HD_RECVING")
            /\ UNCHANGED <<recvPkgData, msgQueue>>
  BY DEF RecvHeader
<1>8. CASE /\ Len(bytes) # recvLength /\ Advance(Len(bytes), "PKG_HD_RECVING")
           /\ UNCHANGED <<recvPkgData, msgQueue>>
  <2> HIDE DEF header
  <2>1. Unit' = Unit
    BY <1>1, <1>3, <1>8 DEF Unit, Advance
  <2>2. /\ recvStat' \in HeaderState
        /\ recvOffset' = recvOffset + Len(bytes)
        /\ recvOffset' + recvLength' = HeaderLength /\ recvLength' > 0
    <3>1. /\ recvStat' = "PKG_HD_RECVING" /\ Len(bytes) # recvLength
          /\ recvOffset' = recvOffset + Len(bytes) /\ recvLength' = recvLength - Len(bytes)
      BY <1>8 DEF Advance
    <3>2. Len(bytes) \in Nat
      BY LenProperties
    <3>3. recvOffset' + recvLength' = HeaderLength /\ recvLength' > 0
      BY <1>1, <3>1, <3>2
    <3> QED BY <3>1, <3>3 DEF HeaderState
  <2>3. Holds(pkgHeadInfo', recvOffset', received', Unit')
    BY <1>6, <1>7, <2>1, <2>2
  <2>4. ParsedUpTo(received', msgQueue', Unit')
    BY <1>5, <1>8, <2>1
  <2>5. InHeader'
    BY <2>2, <2>3, <2>4 DEF InHeader
  <2> QED BY <2>5 DEF Following
<1>9. CASE Len(bytes) = recvLength /\ ProcessPkg(header)
  <2>1. /\ Unit + HeaderLength - 1 = Len(received')
        /\ Holds(header, HeaderLength, received', Unit)
    <3> HIDE DEF header
    <3>1. recvOffset + Len(bytes) = HeaderLength
      BY <1>1, <1>9
    <3>2. Unit + HeaderLength - 1 = Len(received')
      BY <1>1, <1>3, <3>1 DEF Unit
    <3> QED BY <1>6, <3>1, <3>2
  <2>a. Unit + HeaderLength - 1 <= Len(received')
    BY <1>3, <2>1
  <2>2. LengthAt(received', Unit) = n
    <3>1. Unit \in 1 .. Len(received') - 1
      BY <1>3, <1>4, <2>1, FramingAssumption
    <3>2. LengthAt(received', Unit) = received'[Unit] * Base + received'[Unit + 1]
      BY <1>3, <3>1, LengthField
    <3> HIDE DEF header
    <3>3. header[1] = received'[Unit + 1 - 1] /\ header[2] = received'[Unit + 2 - 1]
      <4>1. 1 \in 1 .. HeaderLength /\ 2 \in 1 .. HeaderLength
        BY FramingAssumption
      <4> QED BY <1>4, <2>1, <4>1 DEF Holds
    <3>4. Unit + 1 - 1 = Unit /\ Unit + 2 - 1 = Unit + 1
      BY <1>4
    <3> QED BY <3>2, <3>3, <3>4 DEF PkgLength
  <2>3. \/ ~Legal(n) /\ BackToHeader /\ UNCHANGED <<recvPkgData, msgQueue>>
        \/ Legal(n) /\ n = HeaderLength /\ InMsgQueue(p)
        \/ /\ Legal(n) /\ n # HeaderLength
           /\ recvPkgData' = p
           /\ recvStat' = "PKG_BD_INIT"
           /\ recvOffset' = HeaderLength /\ recvLength' = n - HeaderLength
           /\ UNCHANGED msgQueue
    BY <1>9, Zenon DEF ProcessPkg
  <2>4. ASSUME Legal(n)
        PROVE  /\ n \in Nat /\ n >= HeaderLength /\ p \in Seq(Cell) /\ Len(p) = n
               /\ \A j \in 1 .. HeaderLength : p[j] = header[j]
    <3> HIDE DEF n, header
    <3>1. n \in Nat /\ n >= HeaderLength
      BY <2>4, LegalLength
    <3>2. p \in Seq(Cell) /\ Len(p) = n
      BY <1>6, <3>1, PackageType
    <3>3. \A j \in 1 .. HeaderLength : p[j] = header[j]
      BY <3>1, FramingAssumption
    <3> QED BY <3>1, <3>2, <3>3
  <2> HIDE DEF n, p, header
  <2>5. CASE ~Legal(n) /\ BackToHeader /\ UNCHANGED <<recvPkgData, msgQueue>>
    <3>1. ParsedUpTo(received', msgQueue', Unit + HeaderLength)
      BY <1>3, <1>5, <2>a, <2>2, <2>5, ParsedHeader
    <3>2. Unit + HeaderLength = Len(received') + 1
      BY <1>3, <1>4, <2>1, FramingAssumption
    <3> QED BY <1>3, <2>5, <3>1, <3>2, AtHeader
  <2>6. CASE Legal(n) /\ n = HeaderLength /\ InMsgQueue(p)
    <3>1. \A j \in 1 .. n : p[j] = received'[Unit + j - 1]
      BY <2>1, <2>4, <2>6 DEF Holds
    <3>2. ParsedUpTo(received', Append(msgQueue, p), Unit + n)
      BY <1>1, <1>3, <1>5, <2>a, <2>2, <2>4, <2>6, <3>1, ParsedPackage
    <3>3. Unit + n = Len(received') + 1
      BY <1>3, <1>4, <2>1, <2>6, FramingAssumption
    <3>4. msgQueue' = Append(msgQueue, p) /\ BackToHeader
      BY <2>6 DEF InMsgQueue
    <3> QED BY <1>3, <3>2, <3>3, <3>4, AtHeader
  <2>7. CASE /\ Legal(n) /\ n # HeaderLength
             /\ recvPkgData' = p
             /\ recvStat' = "PKG_BD_INIT"
             /\ recvOffset' = HeaderLength /\ recvLength' = n - HeaderLength
             /\ UNCHANGED msgQueue
    <3>1. Unit' = Unit
      BY <1>3, <1>4, <2>1, <2>7, FramingAssumption DEF Unit
    <3>2. Holds(recvPkgData', HeaderLength, received', Unit')
      BY <2>1, <2>4, <2>7, <3>1 DEF Holds
    <3>3. /\ recvLength' > 0 /\ n = recvOffset' + recvLength'
      BY <2>4, <2>7, FramingAssumption
    <3>4. ParsedUpTo(received', msgQueue', Unit')
      BY <1>5, <2>7, <3>1
    <3>5. InBody'
      BY <2>2, <2>7, <3>1, <3>2, <3>3, <3>4 DEF InBody
    <3> QED BY <3>5 DEF Following
  <2> QED BY <2>3, <2>5, <2>6, <2>7
<1> QED BY <1>7, <1>8, <1>9

LEMMA RecvBodyFollows ==
    ASSUME Framing, InBody, connected,
           NEW bytes \in Seq(Byte), Len(bytes) \in 1 .. recvLength,
           received' = received \o bytes, RecvBody(bytes)
    PROVE  Following'
<1> DEFINE n == LengthAt(received, Unit)
           package == Write(recvPkgData, recvOffset, bytes)
<1>1. /\ received \in Seq(Byte) /\ Len(received) \in Nat
      /\ recvPkgData \in Seq(Cell)
      /\ recvOffset \in Nat /\ recvLength \in Nat
      /\ msgQueue \in Seq(Seq(Cell))
      /\ recvOffset + recvLength = Len(recvPkgData)
  <2>1. recvStat \notin HeaderState
    BY DEF InBody, HeaderState
  <2> QED BY <2>1, LenProperties DEF Framing, TypeOK, RecvFitsBuffer, Cell
<1>2. /\ ParsedUpTo(received, msgQueue, Unit)
      /\ Holds(recvPkgData, recvOffset, received, Unit)
      /\ recvOffset = HeaderLength
      /\ Legal(n) /\ n = recvOffset + recvLength
  BY DEF InBody
<1>3. /\ received' \in Seq(Byte) /\ Len(received') \in Nat
      /\ Len(received') = Len(received) + Len(bytes)
      /\ Len(bytes) \in Nat
  BY <1>1, MoreBytes, LenProperties
<1>4. Unit \in Nat \ {0} /\ Unit <= Len(received) + 1 /\ recvOffset <= Len(received)
  BY <1>1, <1>2 DEF ParsedUpTo, Unit
<1>5. ParsedUpTo(received', msgQueue, Unit)
  BY <1>1, <1>2, ParsedMore
<1>6. \/ Len(bytes) = recvLength /\ InMsgQueue(package)
      \/ Advance(Len(bytes), "PKG_BD_RECVING") /\ msgQueue' = msgQueue
  BY DEF RecvBody
<1>7. CASE Advance(Len(bytes), "PKG_BD_RECVING") /\ msgQueue' = msgQueue
  <2>1. InRestOfBody'
    BY <1>5, <1>7 DEF InRestOfBody, Advance
  <2> QED BY <2>1 DEF Following
<1>8. CASE Len(bytes) = recvLength /\ InMsgQueue(package)
  <2>1. /\ package \in Seq(Cell) /\ Len(package) = n
        /\ Holds(package, n, received', Unit)
    <3> DEFINE size == Len(recvPkgData)
    <3>1. size \in Nat /\ recvPkgData \in [1 .. size -> Cell]
      BY <1>1, LenProperties
    <3>2. package \in Seq(Cell) /\ Len(package) = size
      BY <1>1, WritePackageType
    <3>3. size = n /\ recvOffset + Len(bytes) <= size /\ recvOffset + Len(bytes) = n
      BY <1>1, <1>2, <1>8
    <3> HIDE DEF size, package
    <3>4. Unit = Len(received) - recvOffset + 1
      BY DEF Unit
    <3>5. Holds(package, recvOffset + Len(bytes), received \o bytes, Unit)
      BY <1>1, <1>2, <1>4, <3>1, <3>3, <3>4, Written DEF package
    <3> QED BY <3>2, <3>3, <3>5
  <2>2. n \in Nat /\ n >= HeaderLength
    BY <1>2, LegalLength
  <2>3. LengthAt(received', Unit) = n
    <3>1. Unit \in 1 .. Len(received) - 1
      BY <1>1, <1>2, <1>4, FramingAssumption DEF Unit
    <3> QED BY <1>1, <3>1, MoreBytes
  <2> HIDE DEF n, package
  <2>4. /\ Unit + n - 1 <= Len(received') /\ Unit + HeaderLength - 1 <= Len(received')
        /\ Unit + n = Len(received') + 1
    BY <1>1, <1>2, <1>3, <1>8, <2>2, FramingAssumption DEF Unit
  <2>5. \A j \in 1 .. n : package[j] = received'[Unit + j - 1]
    BY <2>1 DEF Holds
  <2>6. ParsedUpTo(received', Append(msgQueue, package), Unit + n)
    BY <1>1, <1>2, <1>3, <1>5, <2>1, <2>3, <2>4, <2>5, ParsedPackage
  <2>7. msgQueue' = Append(msgQueue, package) /\ BackToHeader
    BY <1>8 DEF InMsgQueue
  <2> QED BY <1>3, <2>4, <2>6, <2>7, AtHeader
<1> QED BY <1>6, <1>7, <1>8

LEMMA RecvFollows == Parsing /\ Recv => Following'
<1> SUFFICES ASSUME Parsing, Recv PROVE Following'
  OBVIOUS
<1>1. PICK bytes \in BoundedSeq(Byte, recvLength) :
         /\ bytes # <<>>
         /\ received' = received \o bytes
         /\ RecvHeader(bytes) \/ RecvBody(bytes) \/ RecvRestOfBody(bytes)
  BY DEF Recv
<1>2. Framing /\ connected /\ connected' = connected /\ received \in Seq(Byte)
  BY DEF Parsing, Framing, TypeOK, Recv
<1>3. bytes \in Seq(Byte) /\ Len(bytes) \in 1 .. recvLength
  BY <1>1, <1>2, Segment DEF Framing, TypeOK
<1>4. CASE RecvHeader(bytes)
  <2>1. InHeader
    BY <1>4 DEF Parsing, Following, RecvHeader, InBody, InRestOfBody, HeaderState
  <2> QED BY <1>1, <1>2, <1>3, <1>4, <2>1, RecvHeaderFollows
<1>5. CASE RecvBody(bytes)
  <2>1. InBody
    BY <1>5 DEF Parsing, Following, RecvBody, InHeader, InRestOfBody, HeaderState
  <2> QED BY <1>1, <1>2, <1>3, <1>5, <2>1, RecvBodyFollows
<1>6. CASE RecvRestOfBody(bytes)
  <2>1. InRestOfBody
    BY <1>6 DEF Parsing, Following, RecvRestOfBody, InHeader, InBody, HeaderState
  <2>2. PICK i : ParsedUpTo(received, msgQueue, i)
    BY <2>1 DEF InRestOfBody
  <2>3. ParsedUpTo(received', msgQueue', i)
    BY <1>1, <1>2, <1>3, <1>6, <2>2, ParsedMore DEF RecvRestOfBody
  <2>4. InRestOfBody'
    BY <1>6, <2>3 DEF InRestOfBody, RecvRestOfBody
  <2> QED BY <2>4 DEF Following
<1> QED BY <1>1, <1>4, <1>5, <1>6

LEMMA LeaveFollows == Parsing /\ Leave => Following'
<1> SUFFICES ASSUME Parsing, Leave PROVE Following'
  OBVIOUS
<1>1. Unit' = Unit /\ ~connected'
  BY DEF Unit, Leave
<1>2. CASE InHeader
  <2>1. InHeader'
    BY <1>1, <1>2 DEF InHeader, Leave
  <2> QED BY <2>1 DEF Following
<1>3. CASE InBody
  <2>1. InBody'
    BY <1>1, <1>3 DEF InBody, Leave
  <2> QED BY <2>1 DEF Following
<1>4. CASE InRestOfBody
  <2>1. InRestOfBody'
    BY <1>4 DEF InRestOfBody, Leave
  <2> QED BY <2>1 DEF Following
<1> QED BY <1>2, <1>3, <1>4 DEF Parsing, Following

LEMMA GetOneToUseFollows == Parsing /\ GetOneToUse => Following'
<1> SUFFICES ASSUME Parsing, GetOneToUse PROVE Following'
  OBVIOUS
<1>1. BackToHeader /\ received' = <<>> /\ msgQueue' = <<>>
  BY DEF GetOneToUse
<1>2. received' \in Seq(Byte) /\ Len(received') + 1 = 1
  BY <1>1, EmptySeq
<1>3. ParsedUpTo(received', msgQueue', Len(received') + 1)
  BY <1>1, <1>2, NothingParsed
<1> QED BY <1>1, <1>2, <1>3, AtHeader

LEMMA StepParsing == Parsing /\ [Next]_vars => Parsing'
<1> SUFFICES ASSUME Parsing, [Next]_vars PROVE Parsing'
  OBVIOUS
<1>1. Framing'
  BY StepFraming DEF Parsing
<1>2. Following'
  <2>1. CASE Recv
    BY <2>1, RecvFollows
  <2>2. CASE Leave
    BY <2>2, LeaveFollows
  <2>3. CASE GetOneToUse
    BY <2>3, GetOneToUseFollows
  <2>4. CASE UNCHANGED vars
    BY <2>4 DEF Parsing, Following, InHeader, InBody, InRestOfBody, Unit, vars, recvVars
  <2> QED BY <2>1, <2>2, <2>3, <2>4 DEF Next
<1> QED BY <1>1, <1>2 DEF Parsing

LEMMA ParsingAlways == Spec => []Parsing
<1> QED BY InitParsing, StepParsing, PTL DEF Spec

-----------------------------------------------------------------------------
\* The receive state of an object keeps its types: no length and no offset the
\* handler computes is negative, whatever a client sends.
THEOREM TypeCorrect == Spec => []TypeOK
<1>1. Framing => TypeOK
  BY DEF Framing
<1> QED BY <1>1, FramingAlways, PTL

\* A recv() of mRecvLength bytes at mRecvLocation stays inside the header array
\* or the package, and ends where it ends, for every stream and every
\* segmentation of it.
THEOREM RecvFitsBufferAlways == Spec => []RecvFitsBuffer
<1>1. Framing => RecvFitsBuffer
  BY DEF Framing
<1> QED BY <1>1, FramingAlways, PTL

\* The thread pool gets packages of the client's stream only: in order, byte for
\* byte, and none that a former client has begun, for every stream, every
\* segmentation of it and any number of clients one after the other.
THEOREM PackagesInOrderAlways == Spec => []PackagesInOrder
<1>1. Parsing => PackagesInOrder
  <2> SUFFICES ASSUME Parsing PROVE PackagesInOrder
    OBVIOUS
  <2>1. received \in Seq(Byte) /\ msgQueue \in Seq(Seq(Cell))
    BY DEF Parsing, Framing, TypeOK, Cell
  <2>2. \E i : ParsedUpTo(received, msgQueue, i)
    BY DEF Parsing, Following, InHeader, InBody, InRestOfBody
  <2> QED BY <2>1, <2>2, ParsedIsPrefix DEF PackagesInOrder
<1> QED BY <1>1, ParsingAlways, PTL

\* Until a body comes in several pieces nothing complete is held back, wherever
\* headers are cut.
THEOREM PromptUnlessBodyCutAlways == Spec => []PromptUnlessBodyCut
<1>1. Parsing => PromptUnlessBodyCut
  <2> SUFFICES ASSUME Parsing, recvStat # "PKG_BD_RECVING"
               PROVE  msgQueue = PackagesOf(received)
    BY DEF PromptUnlessBodyCut
  <2>1. /\ received \in Seq(Byte) /\ msgQueue \in Seq(Seq(Cell))
        /\ recvOffset \in Nat /\ recvLength \in Nat /\ Len(received) \in Nat
    BY LenProperties DEF Parsing, Framing, TypeOK, Cell
  <2>2. CASE InHeader
    <3>1. ParsedUpTo(received, msgQueue, Unit)
      BY <2>2 DEF InHeader
    <3>2. Unit + HeaderLength - 1 > Len(received)
      BY <2>1, <2>2, FramingAssumption DEF InHeader, Unit
    <3> QED BY <2>1, <3>1, <3>2, ParsedIsAll
  <2>3. CASE InBody
    <3>1. ParsedUpTo(received, msgQueue, Unit) /\ Legal(LengthAt(received, Unit))
      BY <2>3 DEF InBody
    <3>2. Unit + LengthAt(received, Unit) - 1 > Len(received)
      <4>1. LengthAt(received, Unit) = recvOffset + recvLength /\ recvLength > 0
        BY <2>3 DEF InBody
      <4> QED BY <2>1, <4>1 DEF Unit
    <3> QED BY <2>1, <3>1, <3>2, ParsedIsAll
  <2> QED BY <2>2, <2>3 DEF Parsing, Following, InRestOfBody
<1> QED BY <1>1, ParsingAlways, PTL

=============================================================================
