--------------------------- MODULE MCVideoStream ----------------------------
EXTENDS VideoStream

\* The fractions on either side of the two limits of the ladder.
MCFraction == {2, 13}
MCHeight   == <<720, 540>>
=============================================================================
