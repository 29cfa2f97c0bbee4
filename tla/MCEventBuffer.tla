--------------------------- MODULE MCEventBuffer ----------------------------
EXTENDS EventBuffer

\* One small row, one row of a whole batch, two rows, a row too large with a
\* sibling that fits.
MCEnvelopes == {<<1>>, <<2>>, <<1, 1>>, <<3, 1>>}
=============================================================================
