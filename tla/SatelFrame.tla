----------------------------- MODULE SatelFrame -----------------------------
(***************************************************************************)
(* The wire format of the SATEL integration protocol, byte by byte, as     *)
(* components/satel_client/satel_protocol.cpp builds and parses it, and    *)
(* recv_frame, which reassembles frames from the chunks TCP delivers.  The *)
(* machine sends a script of three frames over a connection that cuts the  *)
(* bytes anywhere and may die in the middle of the first.                  *)
(***************************************************************************)
EXTENDS Integers, Sequences, SequencesExt

CONSTANTS
    CmdBytes,   \* cmd bytes that are tried
    DataBytes,  \* data bytes that are tried
    MaxData,    \* longest data that is tried
    MaxFrame,   \* SATEL_MAX_FRAME_LEN
    MaxPayload, \* SATEL_MAX_DATA_LEN
    BufSize,    \* SATEL_RECV_BUF_SIZE
    Chunks,     \* numbers of bytes recv may return
    Pass,       \* the eight bytes hex_to_pass makes of the password
    MaxBreaks   \* bound on connections lost

ASSUME ByteAssumption ==
    /\ CmdBytes \subseteq 0..255 /\ DataBytes \subseteq 0..255
    /\ Pass \in [1..8 -> 0..255] /\ MaxData \in Nat
    /\ MaxFrame \in Nat /\ MaxPayload \in Nat /\ BufSize \in Nat
    /\ MaxBreaks \in Nat /\ Chunks \subseteq Nat \ {0}

\* What is tried fits: a frame with every byte stuffed in the buffer of a frame, and
\* the password with the data in the payload.
ASSUME SizeAssumption ==
    /\ 2 * (MaxData + 11) + 4 < MaxFrame
    /\ MaxData + 8 <= MaxPayload

FE == 254
F0 == 240
CR == 13

\* satel_crc: rotate left by one, invert, add the high byte and the data byte,
\* in 16 bits
CrcStep(crc, byte) ==
    LET rotated == ((2 * crc) % 65536) + (crc \div 32768)
        inverted == 65535 - rotated
    IN  (inverted + (inverted \div 256) + byte) % 65536
Crc(bytes) ==
    LET crc[n \in 0..Len(bytes)] ==
            IF n = 0 THEN 5242 ELSE CrcStep(crc[n - 1], bytes[n])
    IN  crc[Len(bytes)]

\* FE is sent as FE F0, and the stuffing left out
EscapeNothing(bytes) == bytes
Escape(bytes) ==
    FlattenSeq([k \in 1..Len(bytes) |->
                   IF bytes[k] = FE THEN <<FE, F0>> ELSE <<bytes[k]>>])

\* a command (cmd >= 0x80) carries the password before its data
Body(cmd, data) == <<cmd>> \o (IF cmd >= 128 THEN Pass ELSE <<>>) \o data

\* satel_build_frame; <<>> stands for a length of 0
BuildFrame(cmd, data) ==
    LET body == Body(cmd, data)
        crc == Crc(body)
        frame == <<FE, FE>>
                 \o Escape(body \o <<crc \div 256, crc % 256>>)
                 \o <<FE, CR>>
    IN  IF Len(body) > MaxFrame \/ Len(frame) >= MaxFrame THEN <<>> ELSE frame

\* Between FE FE and FE 0D the parser drops every F0 that follows an FE.
Unescape(bytes) ==
    FlattenSeq([k \in 1..Len(bytes) |->
                   IF k > 1 /\ bytes[k] = F0 /\ bytes[k - 1] = FE
                   THEN <<>> ELSE <<bytes[k]>>])

Pairs(buf, from, second) ==
    {k \in from..(Len(buf) - 1) : buf[k] = FE /\ buf[k + 1] = second}
Least(S) == CHOOSE k \in S : \A m \in S : k <= m

\* Bytes skipped when no FE FE is in sight: all but the last, which may be the
\* first half of one; SkipAll forgets that.
SkipAll(buf) == Len(buf)
Skip(buf) == IF buf = <<>> THEN 0 ELSE Len(buf) - 1

\* Bytes a bad frame takes with it; BadKept leaves them in the buffer.
BadKept(end) == 0
BadFrame(end) == end + 1

CrcMatches(raw) ==
    LET n == Len(raw)
    IN  256 * raw[n - 1] + raw[n] = Crc(SubSeq(raw, 1, n - 2))

NoFrame(result, consumed) ==
    [result |-> result, consumed |-> consumed, cmd |-> 0, data |-> <<>>]

\* satel_parse_buffer
ParseBuffer(buf) ==
    LET starts == Pairs(buf, 1, FE)
        start == Least(starts)
        ends == Pairs(buf, start + 2, CR)
        end == Least(ends)
        raw == Unescape(SubSeq(buf, start + 2, end - 1))
        size == Len(raw) - 3
    IN  IF starts = {} THEN NoFrame("PARTIAL", Skip(buf))
        ELSE IF ends = {} THEN NoFrame("PARTIAL", start - 1)
        ELSE IF Len(raw) > MaxFrame THEN NoFrame("ERROR", 0)
        ELSE IF Len(raw) < 3 THEN NoFrame("ERROR", BadFrame(end))
        ELSE IF ~CrcMatches(raw) THEN NoFrame("CRC_FAIL", BadFrame(end))
        ELSE [result |-> "OK", consumed |-> end + 1, cmd |-> raw[1],
              data |-> SubSeq(raw, 2, 1 + (IF size > MaxPayload
                                           THEN MaxPayload ELSE size))]

----------------------------------------------------------------------------
(* recv_frame over a connection.                                           *)

VARIABLES
    script,   \* the three frames the peer sends
    cut,      \* bytes of the script's encoding delivered or lost so far
    breaks,   \* connections lost
    rbuf,     \* the static buffer of recv_frame
    got,      \* frames recv_frame returned
    result    \* its last result

frameVars == <<script, cut, breaks, rbuf, got, result>>

Frames == CmdBytes \X BoundedSeq(DataBytes, MaxData)
Wire(f) == BuildFrame(f[1], f[2])
Encoded == Wire(script[1]) \o Wire(script[2]) \o Wire(script[3])
Rest == SubSeq(Encoded, cut + 1, Len(Encoded))

FrameInit ==
    /\ script \in Frames \X (CmdBytes \X {<<>>}) \X {<<0, <<FE>>>>}
    /\ cut = 0 /\ breaks = 0 /\ rbuf = <<>> /\ got = <<>> /\ result = "none"

\* recv returns n bytes, one frame at most is parsed, and memmove drops what
\* the parser consumed
Recv ==
    \E n \in Chunks :
       /\ n <= Len(Rest) /\ n <= BufSize - Len(rbuf) - 1
       /\ LET buf == rbuf \o SubSeq(Rest, 1, n)
              r == ParseBuffer(buf)
          IN  /\ result' = r.result
              /\ rbuf' = SubSeq(buf, r.consumed + 1, Len(buf))
              /\ got' = IF r.result = "OK"
                        THEN Append(got, <<r.cmd, r.data>>) ELSE got
       /\ cut' = cut + n
       /\ UNCHANGED <<script, breaks>>

\* The connection dies inside the first frame; the others come over a new one,
\* to a buffer that keeps what it had.
Break ==
    /\ breaks < MaxBreaks /\ breaks' = breaks + 1
    /\ cut < Len(Wire(script[1]))
    /\ cut' = Len(Wire(script[1]))
    /\ UNCHANGED <<script, rbuf, got, result>>

FrameNext == Recv \/ Break
FrameSpec == FrameInit /\ [][FrameNext]_frameVars

----------------------------------------------------------------------------
Reported(f) == <<f[1], (IF f[1] >= 128 THEN Pass ELSE <<>>) \o f[2]>>

\* What satel_build_frame encodes, satel_parse_buffer decodes, whatever bytes
\* the frame holds, and it consumes the frame exactly.
RoundTrip ==
    LET r == ParseBuffer(Wire(script[1]))
    IN  /\ r.result = "OK" /\ r.consumed = Len(Wire(script[1]))
        /\ <<r.cmd, r.data>> = Reported(script[1])

\* While the connection lives, no byte is lost and none misread, wherever TCP
\* cuts the stream: what is buffered and under way is the encoding of the
\* frames not yet returned, and those returned are the first of the script.
NothingLost ==
    breaks = 0 =>
        /\ Len(got) <= 3
        /\ \A k \in 1..Len(got) : got[k] = Reported(script[k])
        /\ rbuf \o Rest =
              FlattenSeq([k \in 1..(3 - Len(got)) |-> Wire(script[k + Len(got)])])
        /\ result \in {"none", "OK", "PARTIAL"}

\* Two frames with every byte stuffed fit the buffer of one.
TwoFramesFit == 2 * (2 * (MaxData + 11) + 4) <= MaxFrame

\* A connection that dies in a frame costs that frame and at most the next:
\* whatever beginning stays in rbuf, the frame after that is returned as it was
\* sent, or is what rbuf holds from the first FE FE on, when the last bytes
\* brought two frames.
Resynchronises ==
    breaks > 0 /\ Rest = <<>> =>
        \/ got # <<>> /\ Last(got) = Reported(script[3])
        \/ /\ Pairs(rbuf, 1, FE) # {}
           /\ SubSeq(rbuf, Least(Pairs(rbuf, 1, FE)), Len(rbuf)) = Wire(script[3])
=============================================================================
