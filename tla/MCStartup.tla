------------------------------ MODULE MCStartup ------------------------------
(* Small instances of Startup.                                              *)
EXTENDS Startup

AllArgs == {"--help", "--config", "--dry-run", "once", "watch", "bogus"}
OnceOnly == {"once"}

\* One refused integer and one that is a threshold's default.
SmallInts == {0, 60}

\* With ints of 8 bits: 200 and 256 do not fit.
WideInts == {200, 256}
=============================================================================
