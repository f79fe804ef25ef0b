---------------------------- MODULE RecvFraming ----------------------------
(***************************************************************************)
(* How one connection object turns the byte stream of a TCP connection     *)
(* into packages: the receive states of ser_connection_t, driven by        *)
(* ser_read_request_handler().  TCP may deliver any number of bytes, so a  *)
(* header or a body may come in pieces; the client may leave at any byte   *)
(* and the object is reused by another client.                             *)
(*                                                                         *)
(* A package is a header of HeaderLength bytes and a body.  The first two  *)
(* header bytes are the length of the whole package in network order; what *)
(* the other header fields and the body mean is left to the logic threads. *)
(***************************************************************************)
EXTENDS Integers, Sequences, SequencesExt

CONSTANTS
    Base,          \* number of byte values; 256
    HeaderLength,  \* PKG_HEADER_LENGTH; 8
    MaxLength,     \* PKG_MAX_LENGTH - 1000; 29000
    MaxBytes,      \* bound: bytes a client sends
    MaxClients     \* bound: clients that use the object one after another

ASSUME FramingAssumption ==
    /\ Base \in Nat /\ Base > 1
    /\ HeaderLength \in Nat /\ HeaderLength >= 2
    /\ MaxLength \in Nat /\ MaxLength >= HeaderLength
    /\ MaxBytes \in Nat /\ MaxClients \in Nat \ {0}

Byte == 0 .. Base - 1
Null == <<>>      \* a null pointer to a package buffer
Unset == -1       \* a byte of a buffer nothing was written to

VARIABLES
    recvStat,      \* mRecvStat
    recvOffset,    \* mRecvLocation, as an offset into the buffer it points into
    recvLength,    \* mRecvLength
    pkgHeadInfo,   \* mPkgHeadInfo
    recvPkgData,   \* mRecvPkgData: header and body, without the message header
    connected,     \* whether a client uses the object
    clients,       \* clients so far
    msgQueue,      \* packages of this client handed to the thread pool
    received       \* bytes of this client received so far

recvVars == <<recvStat, recvOffset, recvLength, pkgHeadInfo, recvPkgData>>
vars == <<recvVars, connected, clients, msgQueue, received>>

HeaderState == {"PKG_HD_INIT", "PKG_HD_RECVING"}
BodyState   == {"PKG_BD_INIT", "PKG_BD_RECVING"}

\* ntohs(pkgLen)
PkgLength(header) == header[1] * Base + header[2]

\* Mutant: the lower bound of the length is not checked.
NotTooLong(n) == n <= MaxLength

Legal(n) == n \in HeaderLength .. MaxLength

-----------------------------------------------------------------------------
\* The constructor and the first GetOneToUse().
Init ==
    /\ recvStat = "PKG_HD_INIT" /\ recvOffset = 0 /\ recvLength = HeaderLength
    /\ pkgHeadInfo = [i \in 1 .. HeaderLength |-> Unset]
    /\ recvPkgData = Null
    /\ connected = TRUE /\ clients = 1
    /\ msgQueue = <<>> /\ received = <<>>

\* recv() writes its bytes where mRecvLocation points.
Write(buffer, offset, bytes) ==
    [i \in DOMAIN buffer |-> IF i - offset \in DOMAIN bytes THEN bytes[i - offset]
                             ELSE buffer[i]]

BackToHeader == recvStat' = "PKG_HD_INIT" /\ recvOffset' = 0 /\ recvLength' = HeaderLength

\* ser_wait_request_in_msgqueue(): the thread pool gets the buffer.
InMsgQueue(package) ==
    /\ msgQueue' = Append(msgQueue, package)
    /\ recvPkgData' = Null
    /\ BackToHeader

\* Mutant: a package without a body waits for one.
ProcessPkgWantsBody(header) ==
    LET n == PkgLength(header)
        package == [i \in 1 .. n |-> IF i <= HeaderLength THEN header[i] ELSE Unset]
    IN  IF ~Legal(n) THEN BackToHeader /\ UNCHANGED <<recvPkgData, msgQueue>>
        ELSE /\ recvPkgData' = package
             /\ recvStat' = "PKG_BD_INIT"
             /\ recvOffset' = HeaderLength /\ recvLength' = n - HeaderLength
             /\ UNCHANGED msgQueue

\* ser_wait_request_process_pkg(): a header is complete.
ProcessPkg(header) ==
    LET n == PkgLength(header)
        package == [i \in 1 .. n |-> IF i <= HeaderLength THEN header[i] ELSE Unset]
    IN  IF ~Legal(n) THEN BackToHeader /\ UNCHANGED <<recvPkgData, msgQueue>>
        ELSE IF n = HeaderLength THEN InMsgQueue(package)
        ELSE /\ recvPkgData' = package
             /\ recvStat' = "PKG_BD_INIT"
             /\ recvOffset' = HeaderLength /\ recvLength' = n - HeaderLength
             /\ UNCHANGED msgQueue

\* Mutant: the next bytes overwrite these.
AdvanceLengthOnly(k, stat) ==
    /\ recvStat' = stat
    /\ recvOffset' = recvOffset /\ recvLength' = recvLength - k

\* Not all of the header or body has come.
Advance(k, stat) ==
    /\ recvStat' = stat
    /\ recvOffset' = recvOffset + k /\ recvLength' = recvLength - k

RecvHeader(bytes) ==
    LET header == Write(pkgHeadInfo, recvOffset, bytes) IN
    /\ recvStat \in HeaderState
    /\ pkgHeadInfo' = header
    /\ IF Len(bytes) = recvLength THEN ProcessPkg(header)
       ELSE Advance(Len(bytes), "PKG_HD_RECVING") /\ UNCHANGED <<recvPkgData, msgQueue>>

\* PKG_BD_INIT.  The branch meant for PKG_BD_RECVING repeats this condition.
RecvBody(bytes) ==
    LET package == Write(recvPkgData, recvOffset, bytes) IN
    /\ recvStat = "PKG_BD_INIT"
    /\ IF Len(bytes) = recvLength THEN InMsgQueue(package)
       ELSE /\ Advance(Len(bytes), "PKG_BD_RECVING")
            /\ recvPkgData' = package /\ UNCHANGED msgQueue
    /\ UNCHANGED pkgHeadInfo

\* No branch of the handler is for PKG_BD_RECVING: the bytes are written to the
\* buffer and nothing else changes.
RecvRestOfBody(bytes) ==
    /\ recvStat = "PKG_BD_RECVING"
    /\ recvPkgData' = Write(recvPkgData, recvOffset, bytes)
    /\ UNCHANGED <<recvStat, recvOffset, recvLength, pkgHeadInfo, msgQueue>>

\* recv() asks for mRecvLength bytes and returns at least one.
Recv ==
    /\ connected
    /\ \E bytes \in BoundedSeq(Byte, recvLength) :
          /\ bytes # <<>> /\ Len(received) + Len(bytes) <= MaxBytes
          /\ received' = received \o bytes
          /\ RecvHeader(bytes) \/ RecvBody(bytes) \/ RecvRestOfBody(bytes)
    /\ UNCHANGED <<connected, clients>>

\* The client leaves: recv() returns 0 or fails, and the object is retired.
\* PutOneToFree() frees a half received package.
Leave ==
    /\ connected /\ connected' = FALSE
    /\ recvPkgData' = Null
    /\ UNCHANGED <<recvStat, recvOffset, recvLength, pkgHeadInfo, clients, msgQueue, received>>

\* Mutant: the receive state of the former client is kept.
GetOneToUseKeepsState ==
    /\ ~connected /\ clients < MaxClients
    /\ connected' = TRUE /\ clients' = clients + 1
    /\ recvPkgData' = Null
    /\ msgQueue' = <<>> /\ received' = <<>>
    /\ UNCHANGED <<recvStat, recvOffset, recvLength, pkgHeadInfo>>

\* GetOneToUse() for the next client; the header bytes are not cleared.
GetOneToUse ==
    /\ ~connected /\ clients < MaxClients
    /\ connected' = TRUE /\ clients' = clients + 1
    /\ BackToHeader
    /\ recvPkgData' = Null
    /\ msgQueue' = <<>> /\ received' = <<>>
    /\ UNCHANGED pkgHeadInfo

Next == Recv \/ Leave \/ GetOneToUse

Spec == Init /\ [][Next]_vars

-----------------------------------------------------------------------------
TypeOK ==
    /\ recvStat \in HeaderState \cup BodyState
    /\ recvOffset \in Nat /\ recvLength \in Nat
    /\ pkgHeadInfo \in [1 .. HeaderLength -> Byte \cup {Unset}]
    /\ recvPkgData \in Seq(Byte \cup {Unset})
    /\ connected \in BOOLEAN /\ clients \in 1 .. MaxClients
    /\ msgQueue \in Seq(Seq(Byte \cup {Unset}))
    /\ received \in Seq(Byte)

\* A recv() of mRecvLength bytes at mRecvLocation exactly fills the buffer the
\* location points into: it neither overruns the header array or the package,
\* nor leaves a gap at its end, and it always asks for something.
RecvFitsBuffer ==
    connected =>
        /\ recvLength > 0
        /\ recvOffset + recvLength =
              IF recvStat \in HeaderState THEN HeaderLength ELSE Len(recvPkgData)

\* Reference: the packages of a stream from byte i on, where a package begins,
\* whatever its segmentation.  A header with an illegal length is skipped, an
\* incomplete package is not one yet.
PackagesFrom(stream) ==
    LET last == Len(stream)
        from[i \in 1 .. last + 1] ==
            IF i + HeaderLength - 1 > last THEN <<>>
            ELSE LET n == PkgLength(SubSeq(stream, i, i + 1)) IN
                 IF ~Legal(n) THEN from[i + HeaderLength]
                 ELSE IF i + n - 1 > last THEN <<>>
                 ELSE <<SubSeq(stream, i, i + n - 1)>> \o from[i + n]
    IN  from

PackagesOf(stream) == PackagesFrom(stream)[1]

\* The thread pool gets packages of the client's stream only: in order, byte
\* for byte, and none that a former client of the object has begun.
PackagesInOrder == IsPrefix(msgQueue, PackagesOf(received))

\* Up to the first body that comes in several pieces, packages are handed over
\* as soon as they are complete, however headers are cut.
PromptUnlessBodyCut == recvStat # "PKG_BD_RECVING" => msgQueue = PackagesOf(received)

\* "The body is not complete, go on receiving the body ... the body is complete,
\* into the message queue": every complete package is handed over.
EveryPackageQueued == msgQueue = PackagesOf(received)

=============================================================================
