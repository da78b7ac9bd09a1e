--------------------------- MODULE ResponseFraming ---------------------------
(***************************************************************************)
(* Byte-level reading of responses in BaseClient.handleReadData            *)
(* (src/node/src/BaseClient.ts).  The core writes length-delimited          *)
(* Response frames; the socket hands them to the client in chunks cut       *)
(* anywhere, including inside a frame's varint length prefix.  The handler *)
(* prepends the bytes kept from the previous chunk, decodes whole frames    *)
(* with decodeDelimited, and on a RangeError (incomplete frame) keeps the   *)
(* bytes from the start of that frame for the next chunk.                   *)
(*                                                                          *)
(* A byte is <<j, i>>: the i-th byte of the j-th frame the core wrote.  A   *)
(* frame is its varint prefix (1 byte below 128 body bytes, 2 up to 16383) *)
(* followed by its body; only the byte counts matter here.                  *)
(***************************************************************************)
EXTENDS Naturals, Sequences, SequencesExt

CONSTANTS
    Shapes,     \* possible [prefix, body] byte lengths of a Response frame
    MaxFrames   \* bound on the number of frames the core writes

ASSUME Shapes \subseteq [prefix : 1 .. 5, body : Nat \ {0}]

VARIABLES
    frames,             \* shapes of the frames the core has written, in order
    sentUpTo,           \* bytes of Stream the socket has handed to the client
    remainingReadData,  \* bytes kept from the last chunk (<<>> for undefined)
    handled,            \* frames decoded and dispatched, in order
    closed              \* the handler hit a decode error and closed the client

vars == <<frames, sentUpTo, remainingReadData, handled, closed>>

FrameSize(j) == frames[j].prefix + frames[j].body

FrameBytes(j) == [i \in 1 .. FrameSize(j) |-> <<j, i>>]

\* The byte stream the core has written on the socket.
Stream == FlattenSeq([j \in DOMAIN frames |-> FrameBytes(j)])

-----------------------------------------------------------------------------

\* Result of the decode loop: frames decoded, bytes to keep, decode error.
Outcome(out, rest, err) == [msgs |-> out, rest |-> rest, corrupt |-> err]

\* Fault variant: on a RangeError the bytes are kept from after the length
\* prefix (reader.pos) rather than from the frame's start (lastPos).
RECURSIVE decodeLoop_keepFromReaderPos(_, _, _)
decodeLoop_keepFromReaderPos(buf, pos, out) ==
    IF pos > Len(buf) THEN Outcome(out, <<>>, FALSE)
    ELSE LET j == buf[pos][1]
         IN IF buf[pos][2] # 1 THEN Outcome(out, <<>>, TRUE)
            ELSE IF pos + FrameSize(j) - 1 > Len(buf)
            THEN Outcome(out,
                     IF pos + frames[j].prefix - 1 < Len(buf)
                     THEN SubSeq(buf, pos + frames[j].prefix, Len(buf))
                     ELSE <<>>,
                     FALSE)
            ELSE decodeLoop_keepFromReaderPos(buf, pos + FrameSize(j), Append(out, j))

\* Fault variant: on a RangeError the whole buffer is kept, frames already
\* dispatched included.
RECURSIVE decodeLoop_keepWholeBuffer(_, _, _)
decodeLoop_keepWholeBuffer(buf, pos, out) ==
    IF pos > Len(buf) THEN Outcome(out, <<>>, FALSE)
    ELSE LET j == buf[pos][1]
         IN IF buf[pos][2] # 1 THEN Outcome(out, <<>>, TRUE)
            ELSE IF pos + FrameSize(j) - 1 > Len(buf)
            THEN Outcome(out, buf, FALSE)
            ELSE decodeLoop_keepWholeBuffer(buf, pos + FrameSize(j), Append(out, j))

\* The while loop of handleReadData from reader position pos.  Bytes that
\* do not start a frame (a frame read from its middle) fail to decode;
\* an incomplete frame raises a RangeError and is kept whole.
RECURSIVE decodeLoop(_, _, _)
decodeLoop(buf, pos, out) ==
    IF pos > Len(buf) THEN Outcome(out, <<>>, FALSE)
    ELSE LET j == buf[pos][1]
         IN IF buf[pos][2] # 1 THEN Outcome(out, <<>>, TRUE)
            ELSE IF pos + FrameSize(j) - 1 > Len(buf)
            THEN Outcome(out, SubSeq(buf, pos, Len(buf)), FALSE)
            ELSE decodeLoop(buf, pos + FrameSize(j), Append(out, j))

Init ==
    /\ frames = <<>>
    /\ sentUpTo = 0
    /\ remainingReadData = <<>>
    /\ handled = <<>>
    /\ closed = FALSE

\* Fault variant: the kept bytes are not prepended to the new chunk.
handleReadData_dropRemaining(data) ==
    LET r == decodeLoop(data, 1, <<>>)
    IN /\ handled' = handled \o r.msgs
       /\ remainingReadData' = r.rest
       /\ closed' = r.corrupt

\* handleReadData(data): concatenate the kept bytes and the chunk, decode,
\* dispatch each decoded frame, keep an incomplete tail; a decode error
\* other than RangeError closes the client.
handleReadData(data) ==
    LET buf == remainingReadData \o data
        r == decodeLoop(buf, 1, <<>>)
    IN /\ handled' = handled \o r.msgs
       /\ remainingReadData' = r.rest
       /\ closed' = r.corrupt

\* The core writes one more Response frame (spec_modelled).
CoreWrite(shape) ==
    /\ Len(frames) < MaxFrames
    /\ frames' = Append(frames, shape)
    /\ UNCHANGED <<sentUpTo, remainingReadData, handled, closed>>

\* The socket emits a "data" event with the next n bytes of the stream.
SocketData(n) ==
    /\ ~closed
    /\ sentUpTo' = sentUpTo + n
    /\ handleReadData(SubSeq(Stream, sentUpTo + 1, sentUpTo + n))
    /\ UNCHANGED frames

Next ==
    \/ \E s \in Shapes : CoreWrite(s)
    \/ \E n \in 1 .. Len(Stream) - sentUpTo : SocketData(n)

\* The socket keeps delivering what the core wrote; the core need not write.
Spec == Init /\ [][Next]_vars
             /\ WF_vars(\E n \in 1 .. Len(Stream) - sentUpTo : SocketData(n))

-----------------------------------------------------------------------------

TypeOK ==
    /\ frames \in Seq(Shapes)
    /\ sentUpTo \in 0 .. Len(Stream)
    \* the kept bytes are those of one incomplete frame
    /\ remainingReadData \in Seq(Range(Stream))
    /\ \A a, b \in ToSet(remainingReadData) : a[1] = b[1]
    /\ handled \in Seq(DOMAIN frames)
    /\ closed \in BOOLEAN

\* Refinement mapping: the j-th frame written is message j.
Channel == INSTANCE MessageChannel WITH
    Messages <- 1 .. MaxFrames,
    sent <- [j \in DOMAIN frames |-> j],
    delivered <- handled

\* Partial reads (spec section 4.1): however the socket cuts the stream,
\* handleReadData dispatches the frames the core sent in order, each
\* exactly once, and eventually all of them; that is, it implements
\* MessageChannel with handled as the delivered messages.
FramingImplementsChannel == Channel!Spec

====
