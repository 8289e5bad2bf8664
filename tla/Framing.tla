------------------------------ MODULE Framing ------------------------------
(***************************************************************************)
(* The framing of messages, a size and then the data, and the file of agent *)
(* records, which uses it too.  Four links write alike and read differently: *)
(*   "conn"    a delegate connection (ReadBytesConn): conn.Read for the     *)
(*             size, conn.Read for the data, a limit on the size;           *)
(*   "pipe"    the connection of the agent (TCPSocketChannel.Read): the     *)
(*             same without the limit;                                      *)
(*   "stream"  a libp2p stream (ReadBytes): io.ReadFull, one message;       *)
(*   "file"    the storage of records: io.ReadFull up to the end of the     *)
(*             file at every start of the peer, appends while it runs.      *)
(* A frame can be cut: the writer or its connection dies, the peer crashes  *)
(* in the middle of an append, or the disk is full, which is only logged.   *)
(***************************************************************************)
EXTENDS Integers, Sequences, SequencesExt

CONSTANTS
    Base,           \* a byte is a number below Base (256)
    Messages,       \* the messages, sequences of bytes
    MaxSize,        \* maxMessageSizeDelegateConnection
    MaxFrames,      \* bound: frames written
    MaxStarts       \* bound: starts of the peer that has the file

Kinds == {"conn", "pipe", "stream", "file"}
HeaderSize == 2     \* 4 in the code; PutUint32 and Uint32 keep it big-endian
Bytes == 0..(Base - 1)

ASSUME FramingAssumption ==
    /\ Base \in Nat \ {0, 1}
    /\ MaxSize \in Nat /\ HeaderSize <= MaxSize /\ MaxSize < Base
    /\ Messages \subseteq UNION {[1..n -> Bytes] : n \in 1..MaxSize}
    /\ MaxFrames \in Nat
    /\ MaxStarts \in Nat \ {0}

VARIABLES
    kind,       \* the link
    bytes,      \* what has been written to it
    closed,     \* its writer is gone
    frames,     \* the number of frames written, whole or cut
    arrived,    \* how many bytes the reader can get
    pos,        \* how many it has consumed
    phase,      \* what it reads next, "size" or "data"; or how reading ended
    want,       \* the number of bytes it asks for
    got,        \* the messages returned; of the peer with the file, its records
    starts,     \* starts of that peer
    \* history
    written,    \* the messages written whole
    short,      \* a read has returned less than it was asked for
    cut,        \* "last": the last frame is cut; "inside": others follow
    unsaved     \* the peer with the file has failed to save a record

writeVars == <<bytes, closed, frames, written, cut, unsaved>>
readVars == <<pos, phase, want, short>>
vars == <<kind, writeVars, arrived, readVars, got, starts>>

Init ==
    /\ kind \in Kinds
    /\ bytes = <<>>
    /\ closed = FALSE
    /\ frames = 0
    /\ arrived = 0
    /\ pos = 0
    /\ phase = "size"
    /\ want = HeaderSize
    /\ got = <<>>
    /\ starts = 1
    /\ written = <<>>
    /\ short = FALSE
    /\ cut = "no"
    /\ unsaved = FALSE

-----------------------------------------------------------------------------
(* Writing: WriteBytesConn, TCPSocketChannel.Write, WriteBytes and          *)
(* saveAgentRecordToPersistentStorage; one Write or one flush per frame.    *)

Frame(m) == <<Len(m) \div Base, Len(m) % Base>> \o m

MayWrite ==
    /\ frames < MaxFrames
    /\ ~ closed
    /\ kind = "stream" => frames = 0
    /\ kind = "file" => phase = "up"

\* handleAeaRegisterStream puts the record into its map, saved or not.
Keep(m) == got' = IF kind = "file" THEN Append(got, m) ELSE got

Write(m) ==
    /\ MayWrite
    /\ bytes' = bytes \o Frame(m)
    /\ frames' = frames + 1
    /\ written' = Append(written, m)
    /\ cut' = IF cut = "no" THEN "no" ELSE "inside"
    /\ Keep(m)
    /\ UNCHANGED <<kind, closed, unsaved, arrived, readVars, starts>>

\* Only the first n bytes are written.  Nothing follows on a connection or a
\* stream; the error of a file is logged.
WriteCut(m, n) ==
    /\ MayWrite
    /\ n < Len(Frame(m))
    /\ bytes' = bytes \o SubSeq(Frame(m), 1, n)
    /\ frames' = frames + 1
    /\ cut' = CASE n = 0 -> cut [] n > 0 /\ cut = "no" -> "last" [] OTHER -> "inside"
    /\ closed' = (kind # "file")
    /\ unsaved' = (kind = "file")
    /\ Keep(m)
    /\ UNCHANGED <<kind, written, arrived, readVars, starts>>

\* The writer closes its end.
CloseWriter ==
    /\ ~ closed
    /\ kind # "file"
    /\ closed' = TRUE
    /\ UNCHANGED <<kind, bytes, frames, written, cut, unsaved, arrived, readVars,
                   got, starts>>

\* The network hands over some more bytes; a file is there at once.
Arrive(n) ==
    /\ kind # "file"
    /\ n \in (arrived + 1)..Len(bytes)
    /\ arrived' = n
    /\ UNCHANGED <<kind, writeVars, readVars, got, starts>>

-----------------------------------------------------------------------------
(* Reading: ReadBytesConn, TCPSocketChannel.Read, ReadBytes and             *)
(* initAgentRecordPersistentStorage.                                        *)

Available == arrived - pos
Reading == phase \in {"size", "data"}

\* Mutants: io.ReadFull is a Read; the last byte is never asked for.
ReturnsShort(n) == n <= want /\ n <= Available /\ (n = 0 => want = 0)
ReturnsLess(n) == n <= want /\ n < Available /\ (n = 0 => want = 0)

\* A call returns n bytes.
Returns(n) ==
    /\ n <= want
    /\ n <= Available
    /\ IF kind \in {"stream", "file"} THEN n = want ELSE n = 0 => want = 0

\* The buffer after the call: what was not read is zero.
Buffer(n) == SubSeq(bytes, pos + 1, pos + n) \o [i \in 1..(want - n) |-> 0]

Consume(n) == pos' = pos + n /\ short' = (short \/ n < want)

\* Mutant: no limit.
TooLargeMutant(size) == FALSE
TooLarge(size) == kind \in {"conn", "stream"} /\ size > MaxSize

ReadSize(n) ==
    LET size == Buffer(n)[1] * Base + Buffer(n)[2]
    IN  /\ phase = "size"
        /\ Returns(n)
        /\ Consume(n)
        /\ \/ TooLarge(size) /\ phase' = "failed" /\ UNCHANGED want
           \/ ~ TooLarge(size) /\ phase' = "data" /\ want' = size
        /\ UNCHANGED <<kind, writeVars, arrived, got, starts>>

\* The bytes go to the caller; those of a file must parse as a record with a key,
\* which others than those of a record may also do.
ReadData(n) ==
    /\ phase = "data"
    /\ Returns(n)
    /\ Consume(n)
    /\ \/ phase' = "size" /\ got' = Append(got, Buffer(n))
       \/ /\ kind = "file"
          /\ Buffer(n) \notin Messages
          /\ phase' = "failed"
          /\ UNCHANGED got
    /\ want' = HeaderSize
    /\ UNCHANGED <<kind, writeVars, arrived, starts>>

\* io.EOF, when there is not one byte.  Mutant: io.ErrUnexpectedEOF as well.
CleanEndMutant == phase = "size"
CleanEnd == phase = "size" /\ Available = 0

\* Nothing more will come.  A file is loaded; on a connection it is an error too.
ReadEnd ==
    /\ Reading
    /\ closed \/ kind = "file"
    /\ arrived = Len(bytes)
    /\ Available < want
    /\ kind \in {"conn", "pipe"} => Available = 0
    /\ phase' = IF CleanEnd THEN IF kind = "file" THEN "up" ELSE "ended" ELSE "failed"
    /\ UNCHANGED <<kind, writeVars, arrived, pos, want, short, got, starts>>

ReadStep == ReadEnd \/ \E n \in 0..Len(bytes) : ReadSize(n) \/ ReadData(n)

\* The peer crashes, or its New has failed; it is started again.  With a crash
\* right after it, WriteCut is a crash in the middle of an append.
Restart ==
    /\ kind = "file"
    /\ starts < MaxStarts
    /\ starts' = starts + 1
    /\ arrived' = Len(bytes)
    /\ pos' = 0
    /\ phase' = "size"
    /\ want' = HeaderSize
    /\ got' = <<>>
    /\ unsaved' = FALSE
    /\ UNCHANGED <<kind, bytes, closed, frames, written, cut, short>>

Next ==
    \/ \E m \in Messages : Write(m) \/ \E n \in 0..(Len(Frame(m)) - 1) : WriteCut(m, n)
    \/ CloseWriter
    \/ \E n \in 1..Len(bytes) : Arrive(n)
    \/ ReadStep
    \/ Restart

Spec == Init /\ [][Next]_vars

\* What has been sent arrives, and whoever reads goes on reading.
FairSpec ==
    /\ Spec
    /\ WF_vars(ReadStep)
    /\ WF_vars(\E n \in 1..Len(bytes) : Arrive(n))

-----------------------------------------------------------------------------
(* Properties                                                               *)

\* The variables have the values their declarations announce; what a delegate
\* connection or a stream is asked for is limited.
TypeOK ==
    /\ kind \in Kinds
    /\ \A i \in 1..Len(bytes) : bytes[i] \in Bytes
    /\ frames \in 0..MaxFrames
    /\ arrived \in 0..Len(bytes)
    /\ pos \in 0..arrived
    /\ phase \in {"size", "data", "up", "ended", "failed"}
    /\ want \in 0..(Base * Base - 1)
    /\ kind \in {"conn", "stream"} => want <= MaxSize
    /\ Len(got) <= Len(bytes) + frames
    /\ starts \in 1..MaxStarts
    /\ Len(written) <= frames
    /\ cut \in {"no", "last", "inside"}
    /\ {closed, short, unsaved} \subseteq BOOLEAN

\* A Read of a connection has come back with less than was asked for, which
\* ReadBytesConn and TCPSocketChannel.Read do not notice.
OutOfStep == short /\ kind \in {"conn", "pipe"}

\* The messages returned are those written, in order, none of them split, joined
\* or made up.  It holds for the delegate connections and the pipe only until a
\* Read comes back short, and for the file until something is appended to a
\* frame that is cut.
NothingGarbled ==
    OutOfStep \/ cut = "inside" \/ unsaved \/ IsPrefix(got, written)

\* A peer that has started has every record that was saved, and the last record
\* of its file is whole: one that is cut is not passed over in silence, so that
\* the next append cannot be swallowed by it.
RecordsSurvive ==
    kind = "file" /\ phase = "up" /\ cut # "inside" /\ ~ unsaved =>
        cut = "no" /\ got = written

\* What has been written whole is read in the end, and a peer loads its file and
\* starts, at its first start and at every other: reading fails only when a frame
\* has been cut or a connection is out of step.
AllIsRead ==
    /\ \A k \in 1..MaxFrames :
           (Len(written) >= k /\ kind # "file") ~> (Len(got) >= k \/ cut # "no" \/ OutOfStep)
    /\ (kind = "file" /\ Reading) ~> (phase = "up" \/ cut # "no")
=============================================================================
