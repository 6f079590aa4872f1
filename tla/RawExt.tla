------------------------------- MODULE RawExt -------------------------------
(***************************************************************************)
(* The parts around the kernel that no kernel object is shared with: idle  *)
(* events, state machines, pools and heaps, fifos, work queues, processes  *)
(* and their timers, active objects, condition variables.  Bound: the      *)
(* application uses one of them, any one.                                  *)
(***************************************************************************)
EXTENDS RawIdleEvent, RawStm, RawBlock, RawByte, RawPage, RawMalloc, RawFifo, RawWorkQueue,
        RawProcess, RawEtimer, RawActive, RawPosix

VARIABLE part   \* the part the application uses (no variable of the code)

memoryVars == <<blockVars, byteVars, pageVars, mallocVars>>
queueVars == <<fifoVars, workVars>>
protoVars == <<procVars, etimerVars>>
extVars == <<idleVars, stmVars, memoryVars, queueVars, protoVars, activeVars, posixVars, part>>

Part == {"idle", "stm", "block", "byte", "page", "malloc", "fifo", "work", "process",
         "etimer", "active", "posix"}

ExtInit ==
  /\ part \in Part
  /\ IdleInit /\ StmInit /\ (part # "stm" => ~ stm_flat)
  /\ BlockInit /\ ByteInit /\ PageInit /\ MallocInit
  /\ FifoInit /\ WorkInit /\ ProcInit /\ EtInit /\ ActiveInit /\ PosixInit

IdleStep ==
  /\ part = "idle" /\ IdleNext
  /\ UNCHANGED <<stmVars, memoryVars, queueVars, protoVars, activeVars, posixVars, part>>

StmStep ==
  /\ part = "stm" /\ StmNext
  /\ UNCHANGED <<idleVars, memoryVars, queueVars, protoVars, activeVars, posixVars, part>>

MemoryStep ==
  /\ \/ part = "block" /\ BlockNext /\ UNCHANGED <<byteVars, pageVars, mallocVars>>
     \/ part = "byte" /\ ByteNext /\ UNCHANGED <<blockVars, pageVars, mallocVars>>
     \/ part = "page" /\ PageNext /\ UNCHANGED <<blockVars, byteVars, mallocVars>>
     \/ part = "malloc" /\ MallocNext /\ UNCHANGED <<blockVars, byteVars, pageVars>>
  /\ UNCHANGED <<idleVars, stmVars, queueVars, protoVars, activeVars, posixVars, part>>

QueuesStep ==
  /\ \/ part = "fifo" /\ FifoNext /\ UNCHANGED workVars
     \/ part = "work" /\ WorkNext /\ UNCHANGED fifoVars
  /\ UNCHANGED <<idleVars, stmVars, memoryVars, protoVars, activeVars, posixVars, part>>

ProtoStep ==
  /\ \/ part = "process" /\ ProcNext /\ UNCHANGED etimerVars
     \/ part = "etimer" /\ EtNext /\ UNCHANGED procVars
  /\ UNCHANGED <<idleVars, stmVars, memoryVars, queueVars, activeVars, posixVars, part>>

ActiveStep ==
  /\ part = "active" /\ ActiveNext
  /\ UNCHANGED <<idleVars, stmVars, memoryVars, queueVars, protoVars, posixVars, part>>

PosixStep ==
  /\ part = "posix" /\ PosixNext
  /\ UNCHANGED <<idleVars, stmVars, memoryVars, queueVars, protoVars, activeVars, part>>

ExtNext ==
  \/ IdleStep \/ StmStep \/ MemoryStep \/ QueuesStep \/ ProtoStep \/ ActiveStep \/ PosixStep

ExtSpec == ExtInit /\ [][ExtNext]_extVars

\* Both heaps of extension/mm keep their areas and free queues in order, whichever of
\* them the application uses.
HeapsOK == (part = "page" => PagesOK) /\ (part = "malloc" => MallocOK)
=============================================================================
