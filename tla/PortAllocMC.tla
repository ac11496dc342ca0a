---------------------------- MODULE PortAllocMC ----------------------------
(***************************************************************************)
(* Checks Host._allocFreeSocket against the allocation contract of the     *)
(* port table over every table that listen, dial/accept allocation and     *)
(* socket release can produce, up to MaxLen slots.                         *)
(***************************************************************************)
EXTENDS PortAlloc

CONSTANT MaxLen   \* bound on len(socketv)

VARIABLE sv       \* Host._socketv; "sk" marks an occupied slot

Init == sv = <<>>

\* with h._sockmu: sk = h._allocFreeSocket()  (Host.dial / listener.accept /
\* Host.listen on port 0)
Alloc ==
    /\ Len(AllocGrow(sv)) <= MaxLen
    /\ sv' = SetSlot(AllocGrow(sv), AllocPort(sv), "sk")

\* Host.listen on an explicit port p > 0: grow the table, refuse a used slot
ListenAt(p) ==
    /\ p + 1 <= MaxLen
    /\ Slot(Grow(sv, p + 1), p) = None
    /\ sv' = SetSlot(Grow(sv, p + 1), p, "sk")

\* h._socketv[sk._port] = None  (conn.close on an empty socket, dial/accept
\* error paths)
Release(i) ==
    /\ Slot(sv, i) # None
    /\ sv' = SetSlot(sv, i, None)

Next ==
    \/ Alloc
    \/ \E p \in 1..MaxLen - 1 : ListenAt(p)
    \/ \E i \in 0..Len(sv) - 1 : Release(i)

Spec == Init /\ [][Next]_sv

TypeOK == sv \in Seq({None, "sk"}) /\ Len(sv) <= MaxLen /\ (sv # <<>> => Slot(sv, 0) = None)

\* The reference (spec 4.7): the lowest port p >= 1 that is either past the
\* end of the table or an empty slot.
LowestFree(s) == Min({p \in 1..Len(s) + 1 : p >= Len(s) \/ Slot(s, p) = None})

\* _allocFreeSocket picks the lowest free positive port of every reachable
\* table, the slot it picks exists after the table grew, and it is empty.
AllocIsLowestFree ==
    /\ AllocPort(sv) = LowestFree(sv)
    /\ AllocPort(sv) < Len(AllocGrow(sv))
    /\ Slot(AllocGrow(sv), AllocPort(sv)) = None

=============================================================================
