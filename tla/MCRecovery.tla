----------------------------- MODULE MCRecovery -----------------------------
(* A master and two assets; a mmap file besides the master memory, a lock   *)
(* file besides flock.bin.                                                  *)
EXTENDS Recovery, TLC

CONSTANTS a1, a2, mmapMaster, mmapPro, lockPro, flockBin

MCAssets == {a1, a2}
MCFiles == {mmapMaster, mmapPro, lockPro, flockBin}
=============================================================================
