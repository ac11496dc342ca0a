------------------------------ MODULE ConnAbs ------------------------------
(***************************************************************************)
(* What the virtnet dial/accept rendezvous promises its users (spec 4.4,  *)
(* 4.5): a dial to an address and an accept on the listener at that       *)
(* address meet, each accept call takes at most one dial and each dial is  *)
(* taken by at most one accept call, a dial reports "connected" only once  *)
(* an accept call has taken it, and a dial that was taken does not fail.   *)
(* An accept call may return at any point: with the dial it took, or with  *)
(* an error, or with a connection from outside this process.               *)
(***************************************************************************)
CONSTANTS
    Dials,     \* dial calls of this process
    Accepts,   \* accept calls
    Addrs,     \* addresses
    None

VARIABLES
    dstate,    \* dial -> "idle" | "pending" | "connected" | "failed"
    dst,       \* dial -> the address it dials
    astate,    \* accept call -> "idle" | "waiting" | "done"
    laddr,     \* accept call -> the address of its listener
    match      \* accept call -> the dial it took, or None

absvars == <<dstate, dst, astate, laddr, match>>

Taken == {match[x] : x \in Accepts} \ {None}

Init ==
    /\ dstate = [d \in Dials |-> "idle"]
    /\ dst = [d \in Dials |-> None]
    /\ astate = [x \in Accepts |-> "idle"]
    /\ laddr = [x \in Accepts |-> None]
    /\ match = [x \in Accepts |-> None]

DialStart(d, a) ==
    /\ dstate[d] = "idle"
    /\ dstate' = [dstate EXCEPT ![d] = "pending"]
    /\ dst' = [dst EXCEPT ![d] = a]
    /\ UNCHANGED <<astate, laddr, match>>

AcceptStart(x, a) ==
    /\ astate[x] = "idle"
    /\ astate' = [astate EXCEPT ![x] = "waiting"]
    /\ laddr' = [laddr EXCEPT ![x] = a]
    /\ UNCHANGED <<dstate, dst, match>>

\* the rendezvous: a waiting accept call takes a pending dial to its address
Take(x, d) ==
    /\ astate[x] = "waiting"
    /\ match[x] = None
    /\ dstate[d] = "pending"
    /\ d \notin Taken
    /\ dst[d] = laddr[x]
    /\ match' = [match EXCEPT ![x] = d]
    /\ UNCHANGED <<dstate, dst, astate, laddr>>

AcceptReturn(x) ==
    /\ astate[x] = "waiting"
    /\ astate' = [astate EXCEPT ![x] = "done"]
    /\ UNCHANGED <<dstate, dst, laddr, match>>

DialConnected(d) ==
    /\ dstate[d] = "pending"
    /\ d \in Taken
    /\ dstate' = [dstate EXCEPT ![d] = "connected"]
    /\ UNCHANGED <<dst, astate, laddr, match>>

DialFailed(d) ==
    /\ dstate[d] = "pending"
    /\ d \notin Taken
    /\ dstate' = [dstate EXCEPT ![d] = "failed"]
    /\ UNCHANGED <<dst, astate, laddr, match>>

Next ==
    \/ \E d \in Dials, a \in Addrs : DialStart(d, a)
    \/ \E x \in Accepts, a \in Addrs : AcceptStart(x, a)
    \/ \E x \in Accepts, d \in Dials : Take(x, d)
    \/ \E x \in Accepts : AcceptReturn(x)
    \/ \E d \in Dials : DialConnected(d) \/ DialFailed(d)

Spec == Init /\ [][Next]_absvars

==============================================================================
