--------------------------- MODULE MCSourceManager ---------------------------
\* A small instance of SourceManager for TLC.
EXTENDS SourceManager

CONSTANTS h1, h2
=============================================================================
