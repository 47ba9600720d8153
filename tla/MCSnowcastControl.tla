-------------------------- MODULE MCSnowcastControl --------------------------
(* A small instance of SnowcastControl for TLC.                              *)
EXTENDS SnowcastControl

\* 0 and 256 have no newline among their bytes; 256 is no station, and its
\* bytes the other way round are those of 1.  The low byte of 10 is a newline,
\* and so is the high byte of 2563, whose low byte is then read as a command
\* that does not exist.  65537 is sent as 1.
MCNumbers == {0, 256, 10, 2563, 65537}

\* The high byte of the second port is a newline, and its low byte is then
\* read as a command.
MCPorts == {5000, 2561}
=============================================================================
