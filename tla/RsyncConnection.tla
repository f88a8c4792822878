--------------------------- MODULE RsyncConnection ---------------------------
(***************************************************************************)
(* What an rsync connection turns into after the handshake: RunSession     *)
(* (internal/front/rsync/protocol/sender.go) routes by --sender to a       *)
(* backup (RsyncSession) or to a restore (RsyncRestore).                   *)
(***************************************************************************)
EXTENDS RsyncSession

CONSTANTS LongNames, MaxChanges, MaxPullFaults   \* see RsyncRestore

ASSUME RestoreAssumption ==
    /\ IsFiniteSet(Paths) /\ LongNames \subseteq Paths
    /\ {MaxChanges, MaxPullFaults} \subseteq Nat
    /\ None \notin [kind : {"file", "static"}, blocks : Contents \cup {<< >>}, mtime : Nat]

VARIABLES
    direction,   \* "backup" or "restore"
    manifest, changes, versions, puller, sender, wire, requests, answers, copy, pullFaults

Pulls == INSTANCE RsyncRestore

pulls == <<manifest, changes, versions, puller, sender, wire, requests, answers, copy, pullFaults>>
connvars == <<vars, direction, pulls>>

\* argv holds --sender, or not.
ConnInit ==
    \/ direction = "backup" /\ Init /\ Pulls!PullInit /\ manifest = [p \in Paths |-> None]
    \/ direction = "restore" /\ Init /\ Pulls!PullInit

ConnNext ==
    \/ direction = "backup" /\ Next /\ UNCHANGED <<direction, pulls>>
    \/ direction = "restore" /\ Pulls!PullNext /\ UNCHANGED <<direction, vars>>

\* The fairness of both modules, for the direction that runs.
ConnSpec ==
    /\ ConnInit /\ [][ConnNext]_connvars
    /\ \A c \in Clients :
        /\ WF_vars(direction = "backup" /\ Connect(c))
        /\ WF_vars(direction = "backup" /\ ClientStep(c))
        /\ WF_vars(direction = "backup" /\ ServerStep(c))
        /\ SF_vars(direction = "backup" /\ TakeLock(c))
    /\ WF_pulls(direction = "restore" /\ Pulls!Pull)
    /\ WF_pulls(direction = "restore" /\ Pulls!PullerStep)
    /\ WF_pulls(direction = "restore" /\ Pulls!SenderStep)

-----------------------------------------------------------------------------
\* Properties: see RsyncSession and RsyncRestore.

\* RetriesSucceed of the clients that back up.
BackupsSucceed == direction = "backup" => RetriesSucceed

\* RestoresSucceed of the client that restores.
RestoresSucceed == direction = "restore" => Pulls!RestoresSucceed

\* Every file restored is one version, whole.
RestoredWhole == Pulls!RestoredWhole
=============================================================================
