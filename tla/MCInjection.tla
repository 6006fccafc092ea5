---------------------------- MODULE MCInjection ----------------------------
(***************************************************************************)
(* Two launchers: one with every combination of the options that matters,  *)
(* the other with a plain launch and a timeout.                            *)
(***************************************************************************)
EXTENDS Injection

MCLaunchers == 1..2

\* A timeout means nothing to a launcher that does not wait.
MCCommandLines ==
    <<{o \in Options : o.timed => o.wait},
      {[wait |-> TRUE, timed |-> TRUE, suspend |-> FALSE]}>>
=============================================================================
