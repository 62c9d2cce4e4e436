------------------------------ MODULE MCLoader ------------------------------
(* Values of the constants of Loader for the run.                          *)
EXTENDS Loader

MySelf == <<7, 9>>

(* An older driver, without the virtual memory calls.                      *)
OldDriver == ToSet(Enum) \ VirtualMemoryCalls

(* One thread calls every wrapper, the other one allocates.                 *)
OneCallsAll ==
  [t \in Threads |->
    IF t = "t1" THEN Forwarded \cup (Hijacked \ InitCalls) ELSE {"cuMemAlloc_v2"}]
=============================================================================
