------------------------------ MODULE MCOutbox ------------------------------
(* Instances of Outbox for TLC. *)
EXTENDS Outbox

\* Pages of two events let the archive claim runs; pages of one, with four
\* events, let a page be refused because of events behind the fence.
MCConfigurations ==
    {[destination |-> "archive", scanLimit |-> 2],
     [destination |-> "webhook", scanLimit |-> 1]}
=============================================================================
