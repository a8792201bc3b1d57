---------------------------- MODULE MCTlsReload ----------------------------
(* Instances of TlsReload for TLC. *)
EXTENDS TlsReload, CertTime, TLC

CONSTANTS old, new

(* old, whose intermediate expires first, is replaced by new. *)
OldAndNew == old :> {<<0, 3>>, <<0, 9>>} @@ new :> {<<1, 9>>}

(* Whenever a load checks a chain, the validity it compares with the clock  *)
(* is the one the certificates state: in the DER, in both time formats and *)
(* in the calendar.                                                        *)
ValidityReadExactly ==
  (\E h \in Handshakes : pc[h] = "validate") =>
    DerReadExactly /\ CalendarCounts /\ TimesRead /\ ValidityFound

HandshakeSymmetry == Permutations(Handshakes)
=============================================================================
