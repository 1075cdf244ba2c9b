------------------------------- MODULE MCMode2 ------------------------------
(* The layout of packets against what the card does, for all pairs of      *)
(* samples at the edges of their range.                                    *)
EXTENDS Mode2

Edges == {-8388608, -1, 0, 1122867, 8388607}

SomeFrames == {[c \in Channels |-> IF c % 2 = 0 THEN x ELSE y] : x, y \in Edges}
                \cup {[c \in Channels |-> IF c < 2 THEN x ELSE y] : x, y \in Edges}

SomePackets == {<<>>} \cup {<<f>> : f \in SomeFrames} \cup {<<f, g>> : f, g \in SomeFrames}

ASSUME BytesHoldSamples == \A x \in Edges : from_be24(to_be24(x)) = x

ASSUME CapturedIsDecoded ==
  \A frames \in SomePackets, rejects \in BOOLEAN :
    decode_capture(Captured(frames, rejects)) =
      [frames |-> frames, check_errors |-> 0, output_rejected |-> rejects /\ frames # <<>>]

ASSUME EncodedIsHeard ==
  \A f, g \in {<<h>> : h \in SomeFrames} :
    LET first == encode(NoTail, f)
        bytes == first.packet \o encode(first.tail, g).packet
    IN  \A block \in 0..2, stream \in Streams :
          Heard(bytes, block, stream) = (f \o g)[block \div 2 + 1][2 * stream + (block % 2)]
=============================================================================
