----------------------------- MODULE PortAlloc -----------------------------
(***************************************************************************)
(* Host._socketv of src/xnet/lonet/__init__.py as a Python list, and the   *)
(* lowest-free port allocator Host._allocFreeSocket.  Indices taken and    *)
(* returned by the operators are Python (0-based) list indices; slot 0 is  *)
(* never allocated.  A slot holds None or a socket.                        *)
(***************************************************************************)
EXTENDS Integers, Sequences, FiniteSetsExt

CONSTANT None     \* Python None in an empty slot

\* socketv[i] and socketv[i] = v for a Python index 0 <= i < len(socketv)
Slot(sv, i) == sv[i + 1]
SetSlot(sv, i, v) == [sv EXCEPT ![i + 1] = v]

\* the non-negative index socketv[p] denotes for a possibly negative p
PyIndex(sv, p) == IF p >= 0 THEN p ELSE Len(sv) + p

\* socketv[p] does not raise IndexError
PyInRange(sv, p) == -Len(sv) <= p /\ p < Len(sv)

\* variant: the loop appending one slot too many (n >= len)
GrowOneMore(sv, n) ==
    IF n >= Len(sv) THEN sv \o [k \in 1..(n + 1 - Len(sv)) |-> None] ELSE sv

\* while n > len(socketv): socketv.append(None)
Grow(sv, n) == IF n > Len(sv) THEN sv \o [k \in 1..(n - Len(sv)) |-> None] ELSE sv

\* port = 1
\* while port < len(socketv):
\*     if socketv[port] is None: break
\*     port += 1
RECURSIVE FreeScan(_, _)
FreeScan(sv, port) ==
    IF port < Len(sv) /\ Slot(sv, port) # None
    THEN FreeScan(sv, port + 1)
    ELSE port

\* variant: the table grown one slot short of the port it must hold
AllocGrowShort(sv) == Grow(sv, FreeScan(sv, 1))

\* the port _allocFreeSocket picks, and socketv once the slot is made to exist
AllocPort(sv) == FreeScan(sv, 1)

AllocGrow(sv) == Grow(sv, AllocPort(sv) + 1)

=============================================================================
