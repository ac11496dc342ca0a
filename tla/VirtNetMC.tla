----------------------------- MODULE VirtNetMC -----------------------------
(* Model-checking instance of VirtNet: host names, calls and threads are   *)
(* model values.  The runs use one host, so no symmetry applies.           *)
EXTENDS VirtNet, TLC

CONSTANTS a, d1, r1, r2, l1, x1

\* ports given to listen and dial: -1 reaches the negative-index paths of
\* Host.listen and _vnet_accept
PortsNeg == {-1, 0, 1}
PortsNat == {0, 1}

\* ports dialed in the safety run: a dial to port 0 is refused like one to
\* a port with no listener (slot 0 never holds a socket)
DialPortsNeg == {-1, 1}

\* The safety run's view.  aerr and lwhy are written and never read by a
\* guard, and the safety properties do not mention them, so states that
\* differ only in them are explored once.
SafetyView ==
    <<hostmap, nopenhosts, ndown, registered, regOpen, oslOpen, servePc, cpc,
      newpc, hdown, hclosed, locked, socketv, skof, obj, peer, lcpc, lcarg,
      dpc, darg, wire, lpc, llis, apc, alis, areq, purge>>

=============================================================================
