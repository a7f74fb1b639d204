---------------------------- MODULE MC_GpuSession ----------------------------
(* GpuSession for TLC: hosts without a platform, with a CPU only, and with  *)
(* GPUs behind CPUs on two platforms whose names overlap.                   *)
EXTENDS GpuSession

Cpu == [gpu |-> FALSE, contains |-> {"a"}]
GpuA == [gpu |-> TRUE, contains |-> {"a"}]
GpuAB == [gpu |-> TRUE, contains |-> {"a", "b"}]

MCHosts == {<<>>, <<<<Cpu>>>>, <<<<>>, <<Cpu, GpuAB>>>>, <<<<Cpu, GpuA>>, <<GpuAB, Cpu>>>>}
MCSelectors ==
  {[index |-> i, name |-> NoName] : i \in {NoIndex, 0, 1}}
    \cup {[index |-> NoIndex, name |-> n] : n \in {"a", "b"}}
=============================================================================
