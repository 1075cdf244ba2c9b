------------------------------ MODULE MCRtStream ----------------------------
(* The stream on a small kernel, history and set of rates; that the card's *)
(* own fit the converter is checked here, what follows is proved.          *)
EXTENDS RtStream

CONSTANTS CardCrossings, CardHistory, CardRates

(* resample.rs:19-20, the comment of HISTORY.                              *)
Card == INSTANCE Resampler WITH ZERO_CROSSINGS <- CardCrossings, HISTORY <- CardHistory,
                                Conversions <- AllConversions

ASSUME CardFits ==
  \A from, to \in CardRates : from # to =>
    LET r == Conversion(from, to)
    IN  2 * Card!Taps(r) + CeilDiv(r.down, r.up) + 1 < CardHistory
=============================================================================
