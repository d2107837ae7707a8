-------------------------- MODULE CompanionFrames --------------------------
(***************************************************************************)
(* The WebSocket framing of the brainstorming companion                    *)
(* (scripts/server.cjs: encodeFrame, decodeFrame, the data handler of      *)
(* handleUpgrade).  The browser's frames arrive as a stream of bytes cut   *)
(* anywhere; the server keeps what it cannot decode yet.                   *)
(*                                                                         *)
(* A frame is its opcode and its payload's length: which bytes they are    *)
(* matters to nobody.  Positions are counted from the start of the stream. *)
(***************************************************************************)
EXTENDS Integers, Sequences

CONSTANTS
  Payloads,              \* payload lengths the browser sends
  MaxFrames,             \* bound: frames sent
  MaxFramePayloadBytes   \* MAX_FRAME_PAYLOAD_BYTES

ASSUME CompanionFramesAssumption ==
  Payloads \subseteq Nat /\ MaxFrames \in Nat /\ MaxFramePayloadBytes \in Nat

VARIABLES
  frames,     \* frames the browser has sent
  received,   \* bytes of them that have arrived
  consumed,   \* bytes the server has taken out of its buffer
  handled,    \* frames it has handled
  pongs,      \* payload lengths of the pongs it sent
  decoding,   \* its data handler is in its loop
  connection  \* "open"; "ending": it has sent a close frame; or "destroyed"

companionFramesVars == <<frames, received, consumed, handled, pongs, decoding, connection>>

Opcodes == {"text", "close", "ping", "pong", "other"}

-----------------------------------------------------------------------------
\* encodeFrame, and a browser: where the length is, by its size.
headerLength(payload) ==
  IF payload < 126 THEN 2 ELSE IF payload < 65536 THEN 4 ELSE 10

\* A browser's frame is masked.
wireLength(f) == headerLength(f.payload) + 4 + f.payload

\* Where the first n of some frames end in a stream of them.
Ends(fs) ==
  LET length == [n \in 1..Len(fs) |-> wireLength(fs[n])]
      sum[n \in 0..Len(fs)] == IF n = 0 THEN 0 ELSE sum[n - 1] + length[n]
  IN sum

endOf == Ends(frames)

\* Mutant: the mask is left out of the length needed.
decodeFrame_NoMask(f, buffer) ==
  IF buffer < headerLength(f.payload) THEN "more"
  ELSE IF f.payload > MaxFramePayloadBytes THEN "too long"
  ELSE IF buffer < headerLength(f.payload) + f.payload THEN "more" ELSE "frame"

\* decodeFrame(buffer), whose buffer starts with frame f: "more" bytes are
\* needed, the frame is "too long", or it is there as a whole.
decodeFrame(f, buffer) ==
  IF buffer < headerLength(f.payload) THEN "more"
  ELSE IF f.payload > MaxFramePayloadBytes THEN "too long"
  ELSE IF buffer < wireLength(f) THEN "more" ELSE "frame"

-----------------------------------------------------------------------------
SendFrame(f) ==
  /\ Len(frames) < MaxFrames
  /\ frames' = Append(frames, f)
  /\ UNCHANGED <<received, consumed, handled, pongs, decoding, connection>>

\* A chunk arrives: up to somewhere at, just before or just after a boundary.
Cuts ==
  UNION {{endOf[n - 1] + c : c \in {1, 2, 3, 4, 9, 10, 13, 14}}
           \cup {endOf[n] - 1, endOf[n]} : n \in 1..Len(frames)}

\* socket.end() ends what the server writes: the handler stays, and hears what
\* the browser had still to send.
Chunk(upTo) ==
  /\ ~decoding /\ connection # "destroyed"
  /\ received < upTo /\ upTo <= endOf[Len(frames)]
  /\ received' = upTo
  /\ decoding' = TRUE
  /\ UNCHANGED <<frames, consumed, handled, pongs, connection>>

\* A write after end() destroys the socket.
Write(next) == connection' = IF connection = "open" THEN next ELSE "destroyed"

\* What a whole frame makes the server answer; the buffer's rest waits for the
\* next chunk if it ends the connection.
Handle(f) ==
  \/ /\ f.opcode \in {"text", "pong"}
     /\ UNCHANGED <<pongs, decoding, connection>>
  \/ /\ f.opcode = "ping"
     /\ pongs' = IF connection = "open" THEN Append(pongs, f.payload) ELSE pongs
     /\ Write("open") /\ UNCHANGED decoding
  \/ /\ f.opcode \in {"close", "other"}
     /\ Write("ending") /\ decoding' = FALSE /\ UNCHANGED pongs

\* One turn of `while (buffer.length > 0)`.  A frame that is too long stays in
\* the buffer.
DecodeNext ==
  /\ decoding /\ UNCHANGED <<frames, received>>
  /\ IF received <= consumed
       THEN decoding' = FALSE /\ UNCHANGED <<consumed, handled, pongs, connection>>
       ELSE LET f == frames[handled + 1]
                result == decodeFrame(f, received - consumed)
            IN \/ /\ result = "frame" /\ Handle(f)
                  /\ handled' = handled + 1 /\ consumed' = consumed + wireLength(f)
               \/ /\ result = "too long" /\ Write("ending")
                  /\ decoding' = FALSE /\ UNCHANGED <<consumed, handled, pongs>>
               \/ /\ result = "more"
                  /\ decoding' = FALSE /\ UNCHANGED <<consumed, handled, pongs, connection>>

CompanionFramesInit ==
  /\ frames = <<>> /\ received = 0 /\ consumed = 0 /\ handled = 0
  /\ pongs = <<>> /\ decoding = FALSE /\ connection = "open"

CompanionFramesNext ==
  \/ \E op \in Opcodes, n \in Payloads : SendFrame([opcode |-> op, payload |-> n])
  \/ \E upTo \in Cuts : Chunk(upTo)
  \/ DecodeNext

CompanionFramesSpec == CompanionFramesInit /\ [][CompanionFramesNext]_companionFramesVars

-----------------------------------------------------------------------------
(* Properties *)

CompanionFramesTypeOK ==
  /\ Len(frames) <= MaxFrames
  /\ handled \in 0..Len(frames) /\ consumed <= received
  /\ decoding \in BOOLEAN /\ connection \in {"open", "ending", "destroyed"}

\* The handler returned in the middle of its buffer: after a frame that ends the
\* connection, or before one that is too long.
Stopped ==
  \/ handled > 0 /\ frames[handled].opcode \in {"close", "other"}
  \/ handled < Len(frames) /\ frames[handled + 1].payload > MaxFramePayloadBytes

\* However the stream is cut into chunks, when the handler is through it has
\* handled the frames that are there as a whole, each once and in order, and left
\* the buffer at the start of the next.  It leaves some of them only where it
\* stopped; what comes after the connection's end is read on from there.  And as
\* long as the connection is open, no frame that ends it was handled.
FramesDelivered ==
  ~decoding =>
    /\ consumed = endOf[handled] /\ received >= endOf[handled]
    /\ Stopped \/ \A n \in 1..Len(frames) : received >= endOf[n] => n <= handled
    /\ connection = "open" => \A n \in 1..handled : frames[n].opcode \in {"text", "ping", "pong"}
=============================================================================
