---------------------------- MODULE MCExceptions ----------------------------
\* An instance of Exceptions for TLC.
EXTENDS Exceptions, TLC

CONSTANTS s1, s2, x1, v1

\* An exception and a statement about different SBOMs.
MCAbout == (x1 :> s1) @@ (v1 :> s2)
=============================================================================
