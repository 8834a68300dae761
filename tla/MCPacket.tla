------------------------------ MODULE MCPacket ------------------------------
(* PacketProcess on a small instance.  A behaviour either kills commands   *)
(* and fails writes or starts probes: a probe after a killed packet takes  *)
(* the packet's marker, which the code does not exclude.                   *)
EXTENDS PacketProcess

VARIABLE hazard
MCInit == Init /\ hazard \in {"kills", "probes"}
MCNext == /\ Next /\ UNCHANGED hazard
          /\ hazard = "kills" => probed' = {}
          /\ hazard = "probes" => UNCHANGED <<crashes, errors>>
MCSpec == MCInit /\ [][MCNext]_<<vars, hazard>> /\ Fairness
=============================================================================
