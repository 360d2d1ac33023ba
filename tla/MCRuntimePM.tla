----------------------------- MODULE MCRuntimePM -----------------------------
(***************************************************************************)
(* Instances of RuntimePM for TLC.                                         *)
(***************************************************************************)
EXTENDS RuntimePM, TLC

CONSTANTS bus, dev, t1, t2

(* A bus and a device on it.                                               *)
ParentOf == dev :> bus @@ bus :> NULL

(* A device alone.                                                         *)
NoParent == dev :> NULL

(* One task probes and removes all devices.                                *)
OneDriver == [d \in Devices |-> t1]

(* Next and the invariants name no task; only Init does, for the first to  *)
(* enable a device.                                                        *)
Symmetry == Permutations(Tasks)

GetSync == {{"GET_PUT"}}
Get == {{"GET_PUT"}, {"GET_PUT", "ASYNC"}}
Put == {{"GET_PUT"}, {"GET_PUT", "ASYNC"}}
PutAsync == {{"GET_PUT", "ASYNC"}}
Suspend == {{}, {"ASYNC"}}
Suspends == {{}, {"GET_PUT", "AUTO"}}
None == {}
Plain == {{}}
Auto == {{"AUTO"}}

=============================================================================
