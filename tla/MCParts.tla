------------------------------ MODULE MCParts ------------------------------
(* One of five small parts of the system, chosen at the start: they share  *)
(* nothing, and are small enough to be checked in one run.                 *)
EXTENDS IssuerCache

CONSTANTS MaxSockets, MaxFrames

VARIABLES
  part,
  run, last, sized, loading, timer, session, rfb, told,
  xterm, mounted, socket, terminal, shown, frames, arrived, output, raced,
  subnets, open, list, dialog, request, others, lost,
  store, opened, status, data, fetch, kind, form, save

vncVars == <<run, last, sized, loading, timer, session, rfb, told>>
serialVars == <<xterm, mounted, socket, terminal, shown, frames, arrived, output, raced>>
netVars == <<subnets, open, list, dialog, request, others, lost>>
storageVars == <<store, opened, status, data, fetch, kind, form, save>>

CIDR(a, p) == [addr |-> a, prefix |-> p]

Vnc == INSTANCE VncViewer
Serial == INSTANCE SerialViewer
\* 3-bit addresses in a network of four; some CIDRs have bits beyond their
\* prefix, two leave the network.
Net == INSTANCE Subnets WITH
  Width <- 3, Network <- CIDR(0, 1), Earlier <- {CIDR(0, 3)},
  Typed <- {CIDR(0, 2), CIDR(3, 2), CIDR(1, 3), CIDR(2, 3), CIDR(4, 3), CIDR(1, 0)}
Storage == INSTANCE StorageEdit WITH
  Tabs <- {"tab"}, Others <- "others", MaxSaves <- 2, mounted <- opened

MCAttempts == [k \in Keys |-> 2]

PartsInit ==
  /\ part \in {"issuer", "vnc", "serial", "net", "storage"}
  /\ part = "storage" \/ kind = "tier"
  /\ Init /\ Vnc!Init /\ Serial!Init /\ Net!Init /\ Storage!Init

PartsNext ==
  /\ UNCHANGED part
  /\ \/ part = "issuer" /\ Next /\ UNCHANGED <<vncVars, serialVars, netVars, storageVars>>
     \/ part = "vnc" /\ Vnc!Next /\ UNCHANGED <<vars, serialVars, netVars, storageVars>>
     \/ part = "serial" /\ Serial!Next /\ UNCHANGED <<vars, vncVars, netVars, storageVars>>
     \/ part = "net" /\ Net!Next /\ UNCHANGED <<vars, vncVars, serialVars, storageVars>>
     \/ /\ part = "storage" /\ Storage!Next
        /\ UNCHANGED <<vars, vncVars, serialVars, netVars>>

PartsSpec ==
  /\ PartsInit /\ [][PartsNext]_<<part, vars, vncVars, serialVars, netVars, storageVars>>
  /\ WF_vncVars(part = "vnc" /\ Vnc!Timeout)
  /\ WF_serialVars(part = "serial" /\ Serial!Queue)

PartsTypeOK == TypeOK /\ Vnc!TypeOK /\ Serial!TypeOK /\ Net!TypeOK /\ Storage!TypeOK
SpeaksForItsSession == Vnc!SpeaksForItsSession
InArrivalOrder == Serial!InArrivalOrder
CreatesDisjoint == Net!CreatesDisjoint
FreshSavesUndoNothing == Storage!FreshSavesUndoNothing
EditsAreKept == Storage!EditsAreKept
MountedSettles == Vnc!MountedSettles
OutputGoesOn == Serial!OutputGoesOn
=============================================================================
