---------------------------- MODULE MCConnection ----------------------------
EXTENDS Connection

\* Entries of one id stand for every choice of ids: take and remove then find
\* any entry that some choice lets them find, or none.
MCIds == {1}
=============================================================================
