---------------------------- MODULE MCCdpSession ----------------------------
(***************************************************************************)
(* CdpSession for TLC: two threads, one sticky script, two connections.    *)
(***************************************************************************)
EXTENDS CdpSession

CONSTANTS c1, c2, s1

McCallers == {c1, c2}
McScripts == {s1}

\* What the threads ask: to store a script or the user agent, or anything else.
McSticky == {s1, Call}
McUserAgent == {UA, Call}
=============================================================================
