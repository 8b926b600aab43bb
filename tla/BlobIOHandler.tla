---------------------------- MODULE BlobIOHandler ----------------------------
(***************************************************************************)
(* The paged transfer of one session-data blob between signond and a       *)
(* plugin process (src/lib/plugins/signon-plugins-common/SignOn/           *)
(* blobiohandler.cpp).  The sending side's sendData writes the blob size   *)
(* and then the pages of pageByteArray to the write channel; the bytes     *)
(* reach the reading side in chunks of any size.  There the caller reads   *)
(* the size and calls receiveData(size), which reads one page at once and  *)
(* further pages from the read channel's readyRead signal.                 *)
(*                                                                         *)
(* Units stand for bytes: the blob size, a page and PageSize are counted   *)
(* in them, and the 4-byte length prefix that QDataStream writes before a  *)
(* QByteArray, like the size int, is one unit.  A unit is a record: the    *)
(* size int, a page length prefix, or a byte of a page.  The caller of     *)
(* receiveData is not in the tree; it reads the size as soon as it has     *)
(* arrived.  readyRead is modelled as for a socket or process device:      *)
(* emitted once for each arrival of new bytes, not while unread bytes      *)
(* wait (the QSocketNotifier variant is not modelled).                     *)
(***************************************************************************)
EXTENDS Integers, Sequences, SequencesExt

CONSTANTS
    PageSize,   \* SIGNON_IPC_BUFFER_PAGE_SIZE, in units
    MaxBlob     \* bound: largest blob variantMapToByteArray may produce

ASSUME PageSize \in Nat \ {0} /\ MaxBlob \in Nat \ {0}

VARIABLES
    wire,       \* units written by sendData that have not arrived yet
    avail,      \* units arrived on the read channel and not yet read
    readyRead,  \* new bytes arrived since readyRead was last emitted
    notify,     \* readyRead is connected to readBlob
    blobSize,   \* m_blobSize (-1 until receiveData)
    blobBuffer, \* m_blobBuffer.size()
    sent,       \* size of the blob sendData wrote (0: not yet)
    emitted     \* signals of the reading side, in order

vars == <<wire, avail, readyRead, notify, blobSize, blobBuffer, sent, emitted>>

SizeUnit(n)  == [kind |-> "size", v |-> n]
PrefixUnit(n) == [kind |-> "prefix", v |-> n]
ByteUnit     == [kind |-> "byte", v |-> 0]

\* pageByteArray: read PageSize bytes at a time until the buffer is at its
\* end; the page lengths, in order.
RECURSIVE pageByteArray(_)
pageByteArray(n) ==
    IF n = 0 THEN << >>
    ELSE IF n <= PageSize THEN << n >>
    ELSE << PageSize >> \o pageByteArray(n - PageSize)

\* QDataStream << QByteArray: the length prefix, then the bytes.
PageUnits(len) == << PrefixUnit(len) >> \o [i \in 1..len |-> ByteUnit]

\* sendData(map): "stream << ba.size()" and each page (the write channel
\* is the one the handler was built with, not NULL here).
SendData(n) ==
    /\ sent = 0
    /\ sent' = n
    /\ wire' = wire \o << SizeUnit(n) >>
                    \o FlattenSeq([i \in 1..Len(pageByteArray(n)) |-> PageUnits(pageByteArray(n)[i])])
    /\ UNCHANGED <<avail, readyRead, notify, blobSize, blobBuffer, emitted>>

\* "in >> fractionBa" on the units s that have arrived: a whole page if
\* its prefix and all its bytes are there; otherwise the stream reaches
\* its end, the bytes it took are gone and fractionBa is empty.
FrameRead(s) ==
    IF s # << >> /\ Len(s) > Head(s).v
    THEN [size |-> Head(s).v, rest |-> SubSeq(s, Head(s).v + 2, Len(s))]
    ELSE [size |-> 0, rest |-> << >>]

\* readBlob(), on the arrived units s, the buffer size buf and the
\* connection state nt it finds.
ReadBlob(s, buf, nt) ==
    LET f  == FrameRead(s)
        nb == buf + f.size
    IN  /\ avail' = f.rest
        /\ blobBuffer' = nb
        /\ IF f.size = 0 /\ nb < blobSize'
           THEN /\ notify' = FALSE
                /\ emitted' = Append(emitted, "error")
           ELSE IF nb = blobSize'
           THEN /\ notify' = (nt /\ blobSize' <= PageSize)
                /\ emitted' = Append(emitted, "dataReceived")
           ELSE /\ notify' = nt
                /\ UNCHANGED emitted

\* The caller reads the size int and calls receiveData(size): clear the
\* buffer, connect readyRead only for more than one page, read at once.
ReceiveData ==
    /\ blobSize = -1
    /\ avail # << >> /\ Head(avail).kind = "size"
    /\ blobSize' = Head(avail).v
    /\ ReadBlob(Tail(avail), 0, Head(avail).v > PageSize)
    /\ UNCHANGED <<wire, readyRead, sent>>

\* Some of the written units reach the read channel.
Arrive ==
    /\ wire # << >>
    /\ \E k \in 1..Len(wire) :
         /\ avail' = avail \o SubSeq(wire, 1, k)
         /\ wire' = SubSeq(wire, k + 1, Len(wire))
    /\ readyRead' = TRUE
    /\ UNCHANGED <<notify, blobSize, blobBuffer, sent, emitted>>

\* The device emits readyRead; readBlob runs if it is connected.
ReadyRead ==
    /\ readyRead
    /\ readyRead' = FALSE
    /\ UNCHANGED <<wire, blobSize, sent>>
    /\ IF notify
       THEN ReadBlob(avail, blobBuffer, notify)
       ELSE UNCHANGED <<avail, blobBuffer, notify, emitted>>

\* BlobIOHandler constructor: m_blobSize(-1), nothing connected.
Init ==
    /\ wire = << >>
    /\ avail = << >>
    /\ readyRead = FALSE
    /\ notify = FALSE
    /\ blobSize = -1
    /\ blobBuffer = 0
    /\ sent = 0
    /\ emitted = << >>

Next ==
    \/ \E n \in 1..MaxBlob : SendData(n)
    \/ Arrive
    \/ ReadyRead
    \/ ReceiveData

\* The kernel delivers what was written, the event loop emits readyRead,
\* and the caller reads the size once it is there.
Fairness == WF_vars(Arrive) /\ WF_vars(ReadyRead) /\ WF_vars(ReceiveData)

Spec == Init /\ [][Next]_vars /\ Fairness

-----------------------------------------------------------------------------
\* Type invariant.
TypeOK ==
    /\ blobSize \in {-1} \cup 1..MaxBlob
    /\ blobBuffer \in 0..MaxBlob
    /\ notify \in BOOLEAN /\ readyRead \in BOOLEAN
    /\ sent \in 0..MaxBlob
    /\ emitted \in Seq({"error", "dataReceived"})

Delivered == \E i \in 1..Len(emitted) : emitted[i] = "dataReceived"

\* A receive of a blob the other side wrote in full ends in dataReceived:
\* readBlob's error is there, as its comment says, only "if the other
\* party behaves badly", and every page written is eventually read.
ReceivedBlobDelivered == (blobSize # -1) ~> Delivered

\* A weaker promise: a receive ends, in dataReceived or in error (the two
\* signals the caller of receiveData waits for); no run checks it, it
\* shows the stall of the second page apart from the early errors.
ReceiveEnds == (blobSize # -1) ~> (emitted # << >>)
=============================================================================
