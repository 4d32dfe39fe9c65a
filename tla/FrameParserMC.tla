----------------------------- MODULE FrameParserMC -----------------------------
(* The values for checking FrameParser.                                    *)
EXTENDS FrameParser

\* Nothing, and a ping whose first byte looks like a header after the sequence
\* number 170.
MCPayload == {<<>>, packPing(<<85, 0>>)}

\* A lone first half of a header, a header with a length that is too large,
\* and false headers that claim as much as they can.
MCNoise == {<<170>>, <<0, 170, 85, 255>>, <<170, 85, 1, kMaxPayload>>,
            <<170, 170, 85, 1, kMaxPayload, 7>>}

=============================================================================
