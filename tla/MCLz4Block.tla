----------------------------- MODULE MCLz4Block -----------------------------
EXTENDS Lz4Block

NothingOrSome == {<<>>, <<0, 0, 1>>}
=============================================================================
