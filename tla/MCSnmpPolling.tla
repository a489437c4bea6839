---------------------------- MODULE MCSnmpPolling ----------------------------
(* Two addresses, and what is looked at together. *)
EXTENDS SnmpPolling

CONSTANTS w1, round

Some(e, d, c, f, p, l) ==
    [edits |-> e, deletes |-> d, changes |-> c, faults |-> f, polls |-> p, lates |-> l]

(* Beside rounds and reloads: two writes, which may give one address twice;  *)
(* a write and a delete; a delete and a request; a device that changes while *)
(* a poll fails, beside a request or with a late worker; and a request       *)
(* beside a late worker.                                                     *)
Combinations ==
    {Some(2, 0, 0, 0, 0, 0), Some(1, 1, 0, 0, 0, 0), Some(0, 1, 0, 0, 1, 0),
     Some(0, 0, 1, 1, 1, 0), Some(0, 0, 1, 1, 0, 1), Some(0, 0, 0, 0, 1, 1)}
=============================================================================
