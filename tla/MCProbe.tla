------------------------------ MODULE MCProbe ------------------------------
(* Instances of Probe: a target `root` with a profile `debug` and its      *)
(* entry `deps`, and a dir `mod` of a module cache.                        *)
EXTENDS Probe

CONSTANTS root, debug, deps, mod, disk, r, s, b

UnitOfDeps == [d \in {deps} |-> debug]
OneDisk == [d \in Dirs |-> disk]
Able == [e \in Devices |-> {"clone", "compress"}]
Plain == [e \in Devices |-> {"compress"}]
=============================================================================
