---------------------------- MODULE MCCarControl ----------------------------
(***************************************************************************)
(* Small instances of CarControl: two ticks to a phase, two verdicts to a  *)
(* stop, one poll of the confirmation key.                                 *)
(***************************************************************************)
EXTENDS CarControl

MCSteer    == {0, 1}
MCStraight == {0}

\* basic_speed has no lower limit in the menu: one speed of each sign.
MCSpeeds   == {2, -1}
MCOneSpeed == {2}

\* Exact integer form of the ramp, truncated towards zero as the cast does.
MCRamp(s, e) == IF s >= 0 THEN (s * e) \div PhaseMs
                          ELSE -((-s * e) \div PhaseMs)

=============================================================================
