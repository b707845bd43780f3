---------------------------- MODULE MCCollabStream ----------------------------
\* One connection, with and without tickets.
EXTENDS CollabStreamProperties
=============================================================================
