------------------------ MODULE DaemonLifetimeProofs ------------------------
(***************************************************************************)
(* Machine-checked proofs about DaemonLifetime, for every number of daemon  *)
(* processes, signals, errors, deaths, removals and tools in the mount.     *)
(*                                                                         *)
(* TypeCorrect holds whatever the constants are: BirthInv adds that a       *)
(* daemon whose mount thread has not mounted yet has no mount.              *)
(*                                                                         *)
(* The other properties need what Usual says, and are false without it:    *)
(* daemons that mount, on the default mount point, and a start command and  *)
(* a main that wait as long as the start takes.  Their strength comes from three facts none of the      *)
(* properties mentions.  While a daemon starts, the command waits for it    *)
(* and nobody can be reached, so that only one starts at a time (StartInv). *)
(* There is at most one mount, the daemon behind it serves it or is dead,   *)
(* and a daemon that got past its check finds only its own or a dead one    *)
(* (MountInv).  And a daemon in its accept loop loses the socket path only  *)
(* to one that has exited (SocketInv), so that the mount it takes away when *)
(* it is told to stop is its own (OwnInv).                                  *)
(***************************************************************************)
EXTENDS DaemonLifetime, SequenceTheorems, TLAPS

(* No --no-mount, no configured mount point, and neither `daemon start` nor  *)
(* main gives up early.                                                      *)
Usual == DefaultMount /\ Modes \subseteq {TRUE} /\ Slow = {}

Preparing == {"unborn", "check", "clear", "open"}
Accepting == {"serve", "asked", "unmount"}

(* TypeOK in three parts: the daemons, the mount point, and the commands. *)
DaemonTypes ==
    /\ pc \in [Daemons -> Phases]
    /\ mounting \in [Daemons -> BOOLEAN]
    /\ thread \in [Daemons -> {"none", "mounting", "loop", "ended"}]
    /\ running \in [Daemons -> BOOLEAN]
    /\ removals \in [Daemons -> 0 .. MaxRemoves]

MountTypes ==
    /\ mounts \in Seq(Daemons) /\ IsInjective(mounts)
    /\ cached \in BOOLEAN
    /\ held \in BOOLEAN /\ (held => mounts # <<>>)

Commands == {"none", "wait_started", "wait_reply", "wait_closed", "wait_unmounted"}
CommandTypes ==
    /\ socket \in Daemons \cup {None}
    /\ cli \in [command : Commands, daemon : Daemons \cup {None}]
    /\ out \in Reports
    /\ used \in [{"hold", "remove"} \cup Incidents -> Nat]

(* A mount thread that has not mounted has no mount, a reclaimer is the      *)
(* thread of a counted removal, and a daemon asked to stop owes the command  *)
(* that asked it an answer.                                                  *)
BirthInv ==
    /\ \A d \in Daemons : pc[d] \in Preparing => thread[d] = "none"
    /\ \A d \in Daemons : thread[d] \in {"none", "mounting"} =>
          \A i \in DOMAIN mounts : mounts[i] # d
    /\ used.remove =< MaxRemoves
    /\ \A d \in Daemons : removals[d] =< used.remove
    /\ cli.command # "none" => cli.daemon \in Daemons
    /\ \A d \in Daemons : pc[d] \in {"asked", "unmount"} =>
          cli.command = "wait_reply" /\ cli.daemon = d

(* The command waits for the one daemon that starts, and nobody answers.     *)
StartInv ==
    \A d \in Daemons : pc[d] \in Starting =>
        cli.command = "wait_started" /\ cli.daemon = d /\ Unreachable

(* One mount at most, served or left behind by a dead daemon. *)
MountInv ==
    /\ Len(mounts) =< 1
    /\ \A d \in Daemons : pc[d] # "unborn" => mounting[d]
    /\ \A d \in Daemons : thread[d] = "mounting" => pc[d] = "mount"
    /\ \A d \in Daemons : thread[d] = "loop" =>
          mounts # <<>> /\ mounts[1] = d /\ pc[d] # "dead"
    /\ mounts # <<>> => thread[mounts[1]] = "loop" \/ pc[mounts[1]] = "dead"
    /\ \A d \in Daemons : pc[d] \in {"open", "mount", "bind"} \/ Reachable(d) =>
          mounts = <<>> \/ mounts[1] = d \/ (pc[mounts[1]] = "dead" /\ ~cached)

(* A daemon in its accept loop loses the socket path only to one that exits. *)
SocketInv ==
    \A d \in Daemons : pc[d] \in Accepting => socket = d \/ \E e \in Daemons : pc[e] = "exit"

(* The mount that a daemon takes away to stop is its own. *)
OwnInv ==
    \A d \in Daemons : pc[d] = "unmount" /\ socket = d /\ mounts # <<>> => mounts[1] = d

(* What the command that waits, or has reported, relies on. *)
CommandInv ==
    /\ out # "none" => cli.command = "none"
    /\ used.signal = 0 => \A d \in Daemons :
          pc[d] \in {"unborn"} \cup Starting \cup Accepting => running[d]
    /\ cli.command = "wait_unmounted" => \A d \in Daemons : ~Listens(d)

IInv ==
    /\ TypeOK /\ BirthInv
    /\ Usual => /\ StartInv /\ MountInv /\ SocketInv /\ OwnInv /\ CommandInv
                /\ StoppedIsGone /\ RefusedStopKeepsServing
-----------------------------------------------------------------------------

(* fusermount3 -u takes the topmost mount away, ends the FUSE loop behind it *)
(* and leaves the others.                                                    *)
LEMMA Unmounted ==
    ASSUME TypeOK, unmount_project_view
    PROVE  /\ mounts # <<>> /\ ~held /\ Last(mounts) \in Daemons
           /\ mounts' \in Seq(Daemons) /\ IsInjective(mounts')
           /\ \A i \in DOMAIN mounts' :
                i \in DOMAIN mounts /\ mounts'[i] = mounts[i] /\ mounts'[i] # Last(mounts)
           /\ Len(mounts) =< 1 => mounts' = <<>> /\ Last(mounts) = mounts[1]
           /\ held' = held
           /\ thread' \in [Daemons -> {"none", "mounting", "loop", "ended"}]
           /\ thread'[Last(mounts)] # "loop"
           /\ \A e \in Daemons :
                 \/ thread'[e] = thread[e]
                 \/ thread[e] = "loop" /\ thread'[e] = "ended" /\ e = Last(mounts)
<1>1. /\ mounts # <<>> /\ ~held /\ mounts \in Seq(Daemons)
      /\ mounts' = SubSeq(mounts, 1, Len(mounts) - 1)
      /\ \A a, b \in DOMAIN mounts : mounts[a] = mounts[b] => a = b
    BY DEF TypeOK, unmount_project_view, IsInjective, Front
<1>2. Len(mounts) \in Nat \ {0} /\ DOMAIN mounts = 1 .. Len(mounts)
    BY <1>1
<1>3. /\ mounts' \in Seq(Daemons) /\ Len(mounts') = Len(mounts) - 1
      /\ DOMAIN mounts' = 1 .. Len(mounts) - 1
      /\ \A i \in 1 .. Len(mounts) - 1 : mounts'[i] = mounts[i]
    BY <1>1, <1>2
<1>4. IsInjective(mounts')
    BY <1>1, <1>2, <1>3 DEF IsInjective
<1>5. \A i \in DOMAIN mounts' :
        i \in DOMAIN mounts /\ mounts'[i] = mounts[i] /\ mounts'[i] # mounts[Len(mounts)]
    BY <1>1, <1>2, <1>3
<1>6. Len(mounts) =< 1 => mounts' = <<>> /\ mounts[Len(mounts)] = mounts[1]
    BY <1>1, <1>2, <1>3
<1>7. mounts[Len(mounts)] \in Daemons
    BY <1>1, <1>2
<1> DEFINE top == Last(mounts)
<1>8. top \in Daemons /\ thread' = [thread EXCEPT ![top] = IF @ = "loop" THEN "ended" ELSE @]
    BY <1>7 DEF Last, unmount_project_view, Ended
<1>9. thread \in [Daemons -> {"none", "mounting", "loop", "ended"}]
    BY DEF TypeOK
<1> HIDE DEF top
<1>10. /\ thread' \in [Daemons -> {"none", "mounting", "loop", "ended"}]
       /\ thread'[top] # "loop"
       /\ \A e \in Daemons : \/ thread'[e] = thread[e]
                             \/ thread[e] = "loop" /\ thread'[e] = "ended" /\ e = top
    BY <1>8, <1>9
<1>11. held' = held
    BY DEF unmount_project_view
<1>12. QED BY <1>1, <1>3, <1>4, <1>5, <1>6, <1>8, <1>10, <1>11 DEF Last, top

(* A mount goes on top of the others. *)
LEMMA Mounted ==
    ASSUME TypeOK, NEW d \in Daemons, \A i \in DOMAIN mounts : mounts[i] # d,
           mounts' = Append(mounts, d)
    PROVE  /\ mounts' \in Seq(Daemons) /\ IsInjective(mounts') /\ mounts' # <<>>
           /\ \A i \in DOMAIN mounts' :
                mounts'[i] = d \/ (i \in DOMAIN mounts /\ mounts'[i] = mounts[i])
           /\ mounts = <<>> => mounts' # <<>> /\ mounts'[1] = d /\ Len(mounts') = 1
<1>1. mounts \in Seq(Daemons) /\ \A a, b \in DOMAIN mounts : mounts[a] = mounts[b] => a = b
    BY DEF TypeOK, IsInjective
<1>2. /\ mounts' \in Seq(Daemons) /\ Len(mounts') = Len(mounts) + 1 /\ Len(mounts) \in Nat
      /\ DOMAIN mounts' = 1 .. Len(mounts) + 1 /\ DOMAIN mounts = 1 .. Len(mounts)
      /\ \A i \in 1 .. Len(mounts) : mounts'[i] = mounts[i]
      /\ mounts'[Len(mounts) + 1] = d
    BY <1>1
<1>3. IsInjective(mounts')
    BY <1>1, <1>2 DEF IsInjective
<1>4. \A i \in DOMAIN mounts' :
        mounts'[i] = d \/ (i \in DOMAIN mounts /\ mounts'[i] = mounts[i])
    BY <1>2
<1>5. mounts = <<>> => Len(mounts) = 0
    OBVIOUS
<1>6. QED BY <1>2, <1>3, <1>4, <1>5

(* What stat tells while there is at most one mount. *)
LEMMA OneMount ==
    ASSUME TypeOK, Len(mounts) =< 1
    PROVE  /\ mounts # <<>> =>
                /\ mounts[1] \in Daemons /\ 1 \in DOMAIN mounts
                /\ Last(mounts) = mounts[1] /\ mounts = <<mounts[1]>>
           /\ Dead <=> mounts # <<>> /\ pc[mounts[1]] = "dead"
           /\ mount_is_active <=> mounts # <<>> /\ (pc[mounts[1]] = "dead" => cached)
<1>1. mounts \in Seq(Daemons)
    BY DEF TypeOK
<1>2. mounts # <<>> => Len(mounts) = 1 /\ mounts[1] \in Daemons /\ 1 \in DOMAIN mounts
    BY <1>1, SMTT(30)
<1>3. mounts # <<>> => mounts = <<mounts[1]>>
    <2> DEFINE only == <<mounts[1]>>
    <2>1. mounts # <<>> => only \in Seq(Daemons) /\ Len(only) = 1 /\ only[1] = mounts[1]
        BY <1>2
    <2> HIDE DEF only
    <2>2. mounts # <<>> => mounts = only
        BY <1>1, <1>2, <2>1, SeqEqual
    <2>3. QED BY <2>2 DEF only
<1>4. QED BY <1>2, <1>3 DEF Dead, mount_is_active, Last

(* The three parts make up TypeOK. *)
LEMMA TypeParts ==
    TypeOK <=> DaemonTypes /\ MountTypes /\ CommandTypes
BY DEF TypeOK, DaemonTypes, MountTypes, CommandTypes, Commands

(* A counted event is counted once, and removals are bounded. *)
LEMMA Spent ==
    ASSUME CommandTypes, NEW e \in {"hold", "remove"} \cup Incidents, Spend(e)
    PROVE  /\ used' \in [{"hold", "remove"} \cup Incidents -> Nat]
           /\ used'[e] = used[e] + 1
           /\ \A f \in {"hold", "remove"} \cup Incidents : f # e => used'[f] = used[f]
           /\ e = "remove" => used.remove < MaxRemoves
<1>1. used' = [used EXCEPT ![e] = @ + 1]
    BY DEF Spend
<1>2. e = "remove" => used.remove < MaxRemoves
    BY DEF Spend
<1>3. QED BY <1>1, <1>2 DEF CommandTypes

(* The command moves on and remembers its daemon. *)
LEMMA MovesOn ==
    ASSUME CommandTypes, NEW c \in Commands, cli' = [cli EXCEPT !.command = c]
    PROVE  /\ cli' \in [command : Commands, daemon : Daemons \cup {None}]
           /\ cli'.command = c /\ cli'.daemon = cli.daemon
BY DEF CommandTypes

(* No process has the number that stands for none. *)
LEMMA NoDaemon ==
    None \notin Daemons
BY LifetimeAssumption DEF None, Daemons

(* The two outcomes of a stop that finds a mount. *)
LEMMA ShutdownEffect ==
    ASSUME TypeOK, NEW d \in Daemons, shutdown_unmount(d)
    PROVE  /\ pc[d] = "unmount" /\ UNCHANGED <<mounting, removals, cached, socket, used>>
           /\ cli' \in [command : Commands, daemon : Daemons \cup {None}]
           /\ cli'.daemon = cli.daemon
           /\ \/ /\ unmount_project_view /\ pc' = [pc EXCEPT ![d] = "closing"]
                 /\ running' = [running EXCEPT ![d] = FALSE]
                 /\ cli'.command = "wait_closed" /\ UNCHANGED out
              \/ /\ UnmountFails /\ UNCHANGED running
                 /\ pc' = [pc EXCEPT ![d] = IF running[d] THEN "serve" ELSE "closing"]
                 /\ cli'.command = "none" /\ out' = IF held THEN "busy" ELSE "failed"
<1>1. CommandTypes
    BY TypeParts
<1>2. CASE unmount_project_view /\ Agrees(d)
    BY <1>1, <1>2, MovesOn DEF shutdown_unmount, Agrees, Replies, Goto, Commands
<1>3. CASE UnmountFails /\ Replies(IF held THEN "busy" ELSE "failed")
           /\ Goto(d, IF running[d] THEN "serve" ELSE "closing") /\ UNCHANGED running
    BY <1>1, <1>3, MovesOn DEF shutdown_unmount, Replies, Goto, Commands
<1>4. QED BY <1>2, <1>3 DEF shutdown_unmount

(* Every step keeps the types of what the daemons have. *)
LEMMA DaemonTypesStep ==
    TypeOK /\ BirthInv /\ [Next]_vars => DaemonTypes'
<1> SUFFICES ASSUME TypeOK, BirthInv, [Next]_vars PROVE DaemonTypes'
    OBVIOUS
<1> USE LifetimeAssumption, TypeParts DEF DaemonTypes, BirthInv, Preparing, Phases,
   Starting, Stopping, Gone
<1>1. ASSUME NEW d \in Daemons, check_stale_mount(d)
      PROVE  DaemonTypes'
    BY <1>1 DEF default_mount_is_active, check_stale_mount, daemonOnly, uncounted, Goto
<1>2. ASSUME NEW d \in Daemons, clear_stale_mount(d)
      PROVE  DaemonTypes'
    BY <1>2, Unmounted DEF clear_stale_mount, daemonOnly, uncounted, Goto, UnmountFails
<1>3. ASSUME NEW d \in Daemons, open_configured_project(d)
      PROVE  DaemonTypes'
    BY <1>3, Spent DEF open_configured_project, daemonOnly, uncounted, Goto
<1>4. ASSUME NEW d \in Daemons, wait_for_mount(d)
      PROVE  DaemonTypes'
    BY <1>4 DEF wait_for_mount, daemonOnly, uncounted, Goto
<1>5. ASSUME NEW d \in Daemons, serve(d)
      PROVE  DaemonTypes'
    BY <1>5, Spent DEF serve, Goto
<1>6. ASSUME NEW d \in Daemons, dispatch_shutdown(d)
      PROVE  DaemonTypes'
    BY <1>6, MovesOn DEF dispatch_shutdown, Agrees, Replies, Goto
<1>7. ASSUME NEW d \in Daemons, shutdown_unmount(d)
      PROVE  DaemonTypes'
    <2>1. CASE unmount_project_view
        <3>1. /\ pc' = [pc EXCEPT ![d] = "closing"] /\ running' = [running EXCEPT ![d] = FALSE]
              /\ cli'.command = "wait_closed" /\ UNCHANGED out
            BY <1>7, <2>1, ShutdownEffect DEF unmount_project_view, UnmountFails
        <3>2. pc[d] = "unmount" /\ cli'.daemon = cli.daemon
              /\ UNCHANGED <<mounting, removals, cached, socket, used>>
            BY <1>7, ShutdownEffect
        <3>3. QED BY <2>1, <3>1, <3>2, Unmounted
    <2>2. CASE UnmountFails
        <3>1. /\ pc' = [pc EXCEPT ![d] = IF running[d] THEN "serve" ELSE "closing"]
              /\ cli'.command = "none" /\ out' = IF held THEN "busy" ELSE "failed"
            BY <1>7, <2>2, ShutdownEffect DEF unmount_project_view, UnmountFails
        <3>2. pc[d] = "unmount" /\ cli'.daemon = cli.daemon /\ UNCHANGED running
              /\ UNCHANGED <<mounting, removals, cached, socket, used, mounts, thread, held>>
            BY <1>7, <2>2, ShutdownEffect DEF unmount_project_view, UnmountFails
        <3>3. QED BY <2>2, <3>1, <3>2 DEF UnmountFails
    <2>3. QED BY <1>7, <2>1, <2>2, ShutdownEffect
<1>8. ASSUME NEW d \in Daemons, close_listener(d)
      PROVE  DaemonTypes'
    BY <1>8 DEF close_listener, daemonOnly, uncounted, Goto
<1>9. ASSUME NEW d \in Daemons, release_mount(d)
      PROVE  DaemonTypes'
    BY <1>9 DEF release_mount, daemonOnly, uncounted, Goto
<1>10. ASSUME NEW d \in Daemons, retry_unmount(d)
      PROVE  DaemonTypes'
    BY <1>10, Unmounted DEF retry_unmount, daemonOnly, uncounted, Goto, UnmountFails
<1>11. ASSUME NEW d \in Daemons, join_mount_thread(d)
      PROVE  DaemonTypes'
    BY <1>11 DEF join_mount_thread, daemonOnly, uncounted, Goto
<1>12. ASSUME NEW d \in Daemons, wait_for_reclamation(d)
      PROVE  DaemonTypes'
    BY <1>12 DEF wait_for_reclamation, daemonOnly, uncounted, Goto
<1>13. ASSUME NEW d \in Daemons, remove_socket(d)
      PROVE  DaemonTypes'
    BY <1>13 DEF remove_socket, Goto, env
<1>14. ASSUME NEW d \in Daemons, run_project_mount(d)
      PROVE  DaemonTypes'
    BY <1>14, Mounted, Spent DEF run_project_mount, daemonOnly, uncounted, Goto
<1>15. ASSUME NEW d \in Daemons, reclaimer_ends(d)
      PROVE  DaemonTypes'
    BY <1>15 DEF reclaimer_ends, env
<1>16. ASSUME NEW d \in Daemons, stop_daemon_on_signal(d)
      PROVE  DaemonTypes'
    BY <1>16, Spent DEF stop_daemon_on_signal
<1>17. ASSUME NEW d \in Daemons, remove_workspace(d)
      PROVE  DaemonTypes'
    <2>1. used.remove < MaxRemoves /\ removals[d] =< used.remove /\ used.remove \in Nat
        BY <1>17, Spent DEF remove_workspace, CommandTypes, Incidents
    <2>2. removals[d] \in Nat /\ MaxRemoves \in Nat
        OBVIOUS
    <2>3. removals[d] + 1 \in 0 .. MaxRemoves
        BY ONLY <2>1, <2>2
    <2>4. QED BY <1>17, <2>3 DEF remove_workspace
<1>18. ASSUME NEW d \in Daemons, Crash(d)
      PROVE  DaemonTypes'
    BY <1>18, Spent, MovesOn DEF Crash, Goto
<1>19. CASE command_start
    BY <1>19, MovesOn DEF command_start, Report, Goto, cliOnly
<1>20. CASE command_stop
    BY <1>20, MovesOn DEF command_stop, Report, Goto, cliOnly
<1>21. CASE wait_for_socket
    BY <1>21, MovesOn DEF wait_for_socket, Report, cliOnly
<1>22. CASE wait_for_socket_to_close
    BY <1>22, MovesOn DEF wait_for_socket_to_close, Report, cliOnly
<1>23. CASE wait_for_mount_to_close
    BY <1>23, MovesOn DEF default_mount_is_active, wait_for_mount_to_close, Report, cliOnly
<1>24. CASE Hold
    BY <1>24, Spent DEF Hold, tools
<1>25. CASE Release
    BY <1>25 DEF Release, tools
<1>26. CASE Expire
    BY <1>26 DEF Expire
<1>27. CASE UNCHANGED vars
    BY <1>27 DEF vars
<1>28. QED
    BY <1>1, <1>2, <1>3, <1>4, <1>5, <1>6, <1>7, <1>8, <1>9, <1>10, <1>11, <1>12, <1>13,
       <1>14, <1>15, <1>16, <1>17, <1>18, <1>19, <1>20, <1>21, <1>22, <1>23, <1>24, <1>25,
       <1>26, <1>27
       DEF Next, DaemonStep, CliStep

(* Every step keeps the type of the mount point. *)
LEMMA MountTypesStep ==
    TypeOK /\ BirthInv /\ [Next]_vars => MountTypes'
<1> SUFFICES ASSUME TypeOK, BirthInv, [Next]_vars PROVE MountTypes'
    OBVIOUS
<1> USE TypeParts DEF MountTypes, BirthInv
<1>1. ASSUME NEW d \in Daemons, check_stale_mount(d)
      PROVE  MountTypes'
    BY <1>1 DEF default_mount_is_active, check_stale_mount, daemonOnly, uncounted, Goto
<1>2. ASSUME NEW d \in Daemons, clear_stale_mount(d)
      PROVE  MountTypes'
    BY <1>2, Unmounted DEF clear_stale_mount, daemonOnly, uncounted, Goto, UnmountFails
<1>3. ASSUME NEW d \in Daemons, open_configured_project(d)
      PROVE  MountTypes'
    BY <1>3, Spent DEF open_configured_project, daemonOnly, uncounted, Goto
<1>4. ASSUME NEW d \in Daemons, wait_for_mount(d)
      PROVE  MountTypes'
    BY <1>4 DEF wait_for_mount, daemonOnly, uncounted, Goto
<1>5. ASSUME NEW d \in Daemons, serve(d)
      PROVE  MountTypes'
    BY <1>5, Spent DEF serve, Goto
<1>6. ASSUME NEW d \in Daemons, dispatch_shutdown(d)
      PROVE  MountTypes'
    BY <1>6, MovesOn DEF dispatch_shutdown, Agrees, Replies, Goto
<1>7. ASSUME NEW d \in Daemons, shutdown_unmount(d)
      PROVE  MountTypes'
    BY <1>7, ShutdownEffect, Unmounted DEF UnmountFails
<1>8. ASSUME NEW d \in Daemons, close_listener(d)
      PROVE  MountTypes'
    BY <1>8 DEF close_listener, daemonOnly, uncounted, Goto
<1>9. ASSUME NEW d \in Daemons, release_mount(d)
      PROVE  MountTypes'
    BY <1>9 DEF release_mount, daemonOnly, uncounted, Goto
<1>10. ASSUME NEW d \in Daemons, retry_unmount(d)
      PROVE  MountTypes'
    BY <1>10, Unmounted DEF retry_unmount, daemonOnly, uncounted, Goto, UnmountFails
<1>11. ASSUME NEW d \in Daemons, join_mount_thread(d)
      PROVE  MountTypes'
    BY <1>11 DEF join_mount_thread, daemonOnly, uncounted, Goto
<1>12. ASSUME NEW d \in Daemons, wait_for_reclamation(d)
      PROVE  MountTypes'
    BY <1>12 DEF wait_for_reclamation, daemonOnly, uncounted, Goto
<1>13. ASSUME NEW d \in Daemons, remove_socket(d)
      PROVE  MountTypes'
    BY <1>13 DEF remove_socket, Goto, env
<1>14. ASSUME NEW d \in Daemons, run_project_mount(d)
      PROVE  MountTypes'
    BY <1>14, Mounted, Spent DEF run_project_mount, daemonOnly, uncounted, Goto
<1>15. ASSUME NEW d \in Daemons, reclaimer_ends(d)
      PROVE  MountTypes'
    BY <1>15 DEF reclaimer_ends, env
<1>16. ASSUME NEW d \in Daemons, stop_daemon_on_signal(d)
      PROVE  MountTypes'
    BY <1>16, Spent DEF stop_daemon_on_signal
<1>17. ASSUME NEW d \in Daemons, remove_workspace(d)
      PROVE  MountTypes'
    BY <1>17, Spent DEF remove_workspace
<1>18. ASSUME NEW d \in Daemons, Crash(d)
      PROVE  MountTypes'
    BY <1>18, Spent, MovesOn DEF Crash, Goto
<1>19. CASE command_start
    BY <1>19, MovesOn DEF command_start, Report, Goto, cliOnly
<1>20. CASE command_stop
    BY <1>20, MovesOn DEF command_stop, Report, Goto, cliOnly
<1>21. CASE wait_for_socket
    BY <1>21, MovesOn DEF wait_for_socket, Report, cliOnly
<1>22. CASE wait_for_socket_to_close
    BY <1>22, MovesOn DEF wait_for_socket_to_close, Report, cliOnly
<1>23. CASE wait_for_mount_to_close
    BY <1>23, MovesOn DEF default_mount_is_active, wait_for_mount_to_close, Report, cliOnly
<1>24. CASE Hold
    BY <1>24, Spent DEF Hold, tools
<1>25. CASE Release
    BY <1>25 DEF Release, tools
<1>26. CASE Expire
    BY <1>26 DEF Expire
<1>27. CASE UNCHANGED vars
    BY <1>27 DEF vars
<1>28. QED
    BY <1>1, <1>2, <1>3, <1>4, <1>5, <1>6, <1>7, <1>8, <1>9, <1>10, <1>11, <1>12, <1>13,
       <1>14, <1>15, <1>16, <1>17, <1>18, <1>19, <1>20, <1>21, <1>22, <1>23, <1>24, <1>25,
       <1>26, <1>27
       DEF Next, DaemonStep, CliStep

(* Every step keeps the types of the command and the counters. *)
LEMMA CommandTypesStep ==
    TypeOK /\ BirthInv /\ [Next]_vars => CommandTypes'
<1> SUFFICES ASSUME TypeOK, BirthInv, [Next]_vars PROVE CommandTypes'
    OBVIOUS
<1> USE TypeParts DEF CommandTypes, Commands, Reports, Incidents, None
<1>1. ASSUME NEW d \in Daemons, check_stale_mount(d)
      PROVE  CommandTypes'
    BY <1>1 DEF default_mount_is_active, check_stale_mount, daemonOnly, uncounted, Goto
<1>2. ASSUME NEW d \in Daemons, clear_stale_mount(d)
      PROVE  CommandTypes'
    BY <1>2, Unmounted DEF clear_stale_mount, daemonOnly, uncounted, Goto, UnmountFails
<1>3. ASSUME NEW d \in Daemons, open_configured_project(d)
      PROVE  CommandTypes'
    BY <1>3, Spent DEF open_configured_project, daemonOnly, uncounted, Goto
<1>4. ASSUME NEW d \in Daemons, wait_for_mount(d)
      PROVE  CommandTypes'
    BY <1>4 DEF wait_for_mount, daemonOnly, uncounted, Goto
<1>5. ASSUME NEW d \in Daemons, serve(d)
      PROVE  CommandTypes'
    BY <1>5, Spent DEF serve, Goto
<1>6. ASSUME NEW d \in Daemons, dispatch_shutdown(d)
      PROVE  CommandTypes'
    BY <1>6, MovesOn DEF dispatch_shutdown, Agrees, Replies, Goto
<1>7. ASSUME NEW d \in Daemons, shutdown_unmount(d)
      PROVE  CommandTypes'
    BY <1>7, ShutdownEffect, Unmounted DEF UnmountFails
<1>8. ASSUME NEW d \in Daemons, close_listener(d)
      PROVE  CommandTypes'
    BY <1>8 DEF close_listener, daemonOnly, uncounted, Goto
<1>9. ASSUME NEW d \in Daemons, release_mount(d)
      PROVE  CommandTypes'
    BY <1>9 DEF release_mount, daemonOnly, uncounted, Goto
<1>10. ASSUME NEW d \in Daemons, retry_unmount(d)
      PROVE  CommandTypes'
    BY <1>10, Unmounted DEF retry_unmount, daemonOnly, uncounted, Goto, UnmountFails
<1>11. ASSUME NEW d \in Daemons, join_mount_thread(d)
      PROVE  CommandTypes'
    BY <1>11 DEF join_mount_thread, daemonOnly, uncounted, Goto
<1>12. ASSUME NEW d \in Daemons, wait_for_reclamation(d)
      PROVE  CommandTypes'
    BY <1>12 DEF wait_for_reclamation, daemonOnly, uncounted, Goto
<1>13. ASSUME NEW d \in Daemons, remove_socket(d)
      PROVE  CommandTypes'
    BY <1>13 DEF remove_socket, Goto, env
<1>14. ASSUME NEW d \in Daemons, run_project_mount(d)
      PROVE  CommandTypes'
    BY <1>14, Mounted, Spent DEF run_project_mount, daemonOnly, uncounted, Goto
<1>15. ASSUME NEW d \in Daemons, reclaimer_ends(d)
      PROVE  CommandTypes'
    BY <1>15 DEF reclaimer_ends, env
<1>16. ASSUME NEW d \in Daemons, stop_daemon_on_signal(d)
      PROVE  CommandTypes'
    BY <1>16, Spent DEF stop_daemon_on_signal
<1>17. ASSUME NEW d \in Daemons, remove_workspace(d)
      PROVE  CommandTypes'
    BY <1>17, Spent DEF remove_workspace
<1>18. ASSUME NEW d \in Daemons, Crash(d)
      PROVE  CommandTypes'
    BY <1>18, Spent, MovesOn DEF Crash, Goto
<1>19. CASE command_start
    BY <1>19, MovesOn DEF command_start, Report, Goto, cliOnly
<1>20. CASE command_stop
    BY <1>20, MovesOn DEF command_stop, Report, Goto, cliOnly
<1>21. CASE wait_for_socket
    BY <1>21, MovesOn DEF wait_for_socket, Report, cliOnly
<1>22. CASE wait_for_socket_to_close
    BY <1>22, MovesOn DEF wait_for_socket_to_close, Report, cliOnly
<1>23. CASE wait_for_mount_to_close
    BY <1>23, MovesOn DEF default_mount_is_active, wait_for_mount_to_close, Report, cliOnly
<1>24. CASE Hold
    BY <1>24, Spent DEF Hold, tools
<1>25. CASE Release
    BY <1>25 DEF Release, tools
<1>26. CASE Expire
    BY <1>26 DEF Expire
<1>27. CASE UNCHANGED vars
    BY <1>27 DEF vars
<1>28. QED
    BY <1>1, <1>2, <1>3, <1>4, <1>5, <1>6, <1>7, <1>8, <1>9, <1>10, <1>11, <1>12, <1>13,
       <1>14, <1>15, <1>16, <1>17, <1>18, <1>19, <1>20, <1>21, <1>22, <1>23, <1>24, <1>25,
       <1>26, <1>27
       DEF Next, DaemonStep, CliStep

(* Every step keeps the types. *)
LEMMA TypeStep ==
    TypeOK /\ BirthInv /\ [Next]_vars => TypeOK'
<1> SUFFICES ASSUME TypeOK, BirthInv, [Next]_vars PROVE TypeOK'
    OBVIOUS
<1>1. DaemonTypes' /\ MountTypes' /\ CommandTypes'
    BY DaemonTypesStep, MountTypesStep, CommandTypesStep
<1>2. QED BY <1>1 DEF TypeOK, DaemonTypes, MountTypes, CommandTypes, Commands

(* Every step keeps mount threads and mounts, reclaimers and removals together. *)
LEMMA BirthStep ==
    TypeOK /\ BirthInv /\ [Next]_vars => BirthInv'
<1> SUFFICES ASSUME TypeOK, BirthInv, [Next]_vars PROVE BirthInv'
    OBVIOUS
<1> USE LifetimeAssumption, TypeParts DEF DaemonTypes, CommandTypes, BirthInv, Incidents,
   Preparing, Phases, Starting, Stopping, Gone
<1>1. ASSUME NEW d \in Daemons, check_stale_mount(d)
      PROVE  BirthInv'
    BY <1>1 DEF default_mount_is_active, check_stale_mount, daemonOnly, uncounted, Goto
<1>2. ASSUME NEW d \in Daemons, clear_stale_mount(d)
      PROVE  BirthInv'
    <2>1. CASE unmount_project_view
        <3>1. \A e \in Daemons : thread'[e] \in {"none", "mounting"} =>
                 \A i \in DOMAIN mounts' : mounts'[i] # e
            BY <2>1, Unmounted, SMTT(30)
        <3>2. \A e \in Daemons : thread[e] = "none" => thread'[e] = "none"
            BY <2>1, Unmounted
        <3>3. QED BY <1>2, <3>1, <3>2, SMTT(30) DEF clear_stale_mount, daemonOnly, uncounted, Goto,
           UnmountFails
    <2>2. CASE UnmountFails
        BY <1>2, <2>2 DEF clear_stale_mount, daemonOnly, uncounted, Goto, UnmountFails
    <2>3. QED BY <1>2, <2>1, <2>2 DEF clear_stale_mount
<1>3. ASSUME NEW d \in Daemons, open_configured_project(d)
      PROVE  BirthInv'
    BY <1>3, Spent DEF open_configured_project, daemonOnly, uncounted, Goto
<1>4. ASSUME NEW d \in Daemons, wait_for_mount(d)
      PROVE  BirthInv'
    BY <1>4 DEF wait_for_mount, daemonOnly, uncounted, Goto
<1>5. ASSUME NEW d \in Daemons, serve(d)
      PROVE  BirthInv'
    BY <1>5, Spent DEF serve, Goto
<1>6. ASSUME NEW d \in Daemons, dispatch_shutdown(d)
      PROVE  BirthInv'
    BY <1>6, MovesOn DEF dispatch_shutdown, Agrees, Replies, Goto
<1>7. ASSUME NEW d \in Daemons, shutdown_unmount(d)
      PROVE  BirthInv'
    <2>1. CASE unmount_project_view
        <3>1. \A e \in Daemons : thread'[e] \in {"none", "mounting"} =>
                 \A i \in DOMAIN mounts' : mounts'[i] # e
            BY <2>1, Unmounted, SMTT(30)
        <3>2. \A e \in Daemons : thread[e] = "none" => thread'[e] = "none"
            BY <2>1, Unmounted
        <3>3. QED BY <1>7, <3>1, <3>2, ShutdownEffect
    <2>2. CASE UnmountFails
        <3>1. pc' = [pc EXCEPT ![d] = IF running[d] THEN "serve" ELSE "closing"]
              /\ cli'.command = "none"
            BY <1>7, <2>2, ShutdownEffect DEF unmount_project_view, UnmountFails
        <3>2. pc[d] = "unmount" /\ UNCHANGED <<removals, used, mounts, thread>>
            BY <1>7, <2>2, ShutdownEffect DEF UnmountFails
        <3>3. QED BY <3>1, <3>2
    <2>3. QED BY <1>7, <2>1, <2>2, ShutdownEffect
<1>8. ASSUME NEW d \in Daemons, close_listener(d)
      PROVE  BirthInv'
    BY <1>8 DEF close_listener, daemonOnly, uncounted, Goto
<1>9. ASSUME NEW d \in Daemons, release_mount(d)
      PROVE  BirthInv'
    BY <1>9 DEF release_mount, daemonOnly, uncounted, Goto
<1>10. ASSUME NEW d \in Daemons, retry_unmount(d)
      PROVE  BirthInv'
    <2>1. CASE unmount_project_view
        <3>1. \A e \in Daemons : thread'[e] \in {"none", "mounting"} =>
                 \A i \in DOMAIN mounts' : mounts'[i] # e
            BY <2>1, Unmounted, SMTT(30)
        <3>2. \A e \in Daemons : thread[e] = "none" => thread'[e] = "none"
            BY <2>1, Unmounted
        <3>3. QED BY <1>10, <3>1, <3>2, SMTT(30) DEF retry_unmount, daemonOnly, uncounted, Goto,
           UnmountFails
    <2>2. CASE UnmountFails
        BY <1>10, <2>2 DEF retry_unmount, daemonOnly, uncounted, Goto, UnmountFails
    <2>3. QED BY <1>10, <2>1, <2>2 DEF retry_unmount
<1>11. ASSUME NEW d \in Daemons, join_mount_thread(d)
      PROVE  BirthInv'
    BY <1>11 DEF join_mount_thread, daemonOnly, uncounted, Goto
<1>12. ASSUME NEW d \in Daemons, wait_for_reclamation(d)
      PROVE  BirthInv'
    BY <1>12 DEF wait_for_reclamation, daemonOnly, uncounted, Goto
<1>13. ASSUME NEW d \in Daemons, remove_socket(d)
      PROVE  BirthInv'
    BY <1>13 DEF remove_socket, Goto, env
<1>14. ASSUME NEW d \in Daemons, run_project_mount(d)
      PROVE  BirthInv'
    <2>1. CASE /\ mounts' = Append(mounts, d) /\ UNCHANGED used
               /\ thread' = [thread EXCEPT ![d] = "loop"]
        <3>1. \A e \in Daemons : thread'[e] \in {"none", "mounting"} =>
                 \A i \in DOMAIN mounts' : mounts'[i] # e
            <4>1. \A i \in DOMAIN mounts : mounts[i] # d
                BY <1>14 DEF run_project_mount
            <4>2. \A i \in DOMAIN mounts' :
                    mounts'[i] = d \/ (i \in DOMAIN mounts /\ mounts'[i] = mounts[i])
                BY <2>1, <4>1, Mounted
            <4>3. QED BY <2>1, <4>2, SMTT(30)
        <3>2. QED BY <1>14, <2>1, <3>1 DEF run_project_mount, uncounted
    <2>2. CASE thread' = [thread EXCEPT ![d] = "ended"] /\ UNCHANGED mounts
        <3>1. \A e \in Daemons : removals[e] =< used'.remove
            BY <1>14, Spent DEF run_project_mount
        <3>2. used'.remove =< MaxRemoves
            BY <1>14, Spent DEF run_project_mount
        <3>3. QED BY <1>14, <2>2, <3>1, <3>2 DEF run_project_mount, uncounted
    <2>3. QED BY <1>14, <2>1, <2>2 DEF run_project_mount
<1>15. ASSUME NEW d \in Daemons, reclaimer_ends(d)
      PROVE  BirthInv'
    BY <1>15 DEF reclaimer_ends, env
<1>16. ASSUME NEW d \in Daemons, stop_daemon_on_signal(d)
      PROVE  BirthInv'
    BY <1>16, Spent DEF stop_daemon_on_signal
<1>17. ASSUME NEW d \in Daemons, remove_workspace(d)
      PROVE  BirthInv'
    BY <1>17, Spent DEF remove_workspace
<1>18. ASSUME NEW d \in Daemons, Crash(d)
      PROVE  BirthInv'
    BY <1>18, Spent, MovesOn, SMTT(30) DEF Crash, Goto
<1>19. CASE command_start
    BY <1>19, MovesOn DEF command_start, Report, Goto, cliOnly
<1>20. CASE command_stop
    BY <1>20, MovesOn DEF command_stop, Report, Goto, cliOnly
<1>21. CASE wait_for_socket
    BY <1>21, MovesOn DEF wait_for_socket, Report, cliOnly
<1>22. CASE wait_for_socket_to_close
    BY <1>22, MovesOn DEF wait_for_socket_to_close, Report, cliOnly
<1>23. CASE wait_for_mount_to_close
    BY <1>23, MovesOn DEF default_mount_is_active, wait_for_mount_to_close, Report, cliOnly
<1>24. CASE Hold
    BY <1>24, Spent, SMTT(30) DEF Hold, tools
<1>25. CASE Release
    BY <1>25 DEF Release, tools
<1>26. CASE Expire
    BY <1>26 DEF Expire
<1>27. CASE UNCHANGED vars
    BY <1>27 DEF vars
<1>28. QED
    BY <1>1, <1>2, <1>3, <1>4, <1>5, <1>6, <1>7, <1>8, <1>9, <1>10, <1>11, <1>12, <1>13,
       <1>14, <1>15, <1>16, <1>17, <1>18, <1>19, <1>20, <1>21, <1>22, <1>23, <1>24, <1>25,
       <1>26, <1>27
       DEF Next, DaemonStep, CliStep

(* Every step keeps the start of a daemon exclusive. *)
LEMMA StartStep ==
    Usual /\ TypeOK /\ BirthInv /\ StartInv /\ CommandInv /\ [Next]_vars => StartInv'
<1> SUFFICES ASSUME Usual, TypeOK, BirthInv, StartInv, CommandInv, [Next]_vars
             PROVE  StartInv'
    OBVIOUS
<1> USE TypeParts, NoDaemon DEF Usual, DaemonTypes, MountTypes, CommandTypes, BirthInv,
   StartInv, CommandInv, Accepting, Reachable, Accepts, Unreachable, Phases, Starting,
   Stopping, Gone
<1>1. ASSUME NEW d \in Daemons, check_stale_mount(d)
      PROVE  StartInv'
    BY <1>1 DEF default_mount_is_active, check_stale_mount, daemonOnly, uncounted, Goto
<1>2. ASSUME NEW d \in Daemons, clear_stale_mount(d)
      PROVE  StartInv'
    BY <1>2, Unmounted DEF clear_stale_mount, daemonOnly, uncounted, Goto, UnmountFails
<1>3. ASSUME NEW d \in Daemons, open_configured_project(d)
      PROVE  StartInv'
    BY <1>3, Spent DEF open_configured_project, daemonOnly, uncounted, Goto
<1>4. ASSUME NEW d \in Daemons, wait_for_mount(d)
      PROVE  StartInv'
    BY <1>4 DEF wait_for_mount, daemonOnly, uncounted, Goto
<1>5. ASSUME NEW d \in Daemons, serve(d)
      PROVE  StartInv'
    BY <1>5, Spent DEF serve, Goto
<1>6. ASSUME NEW d \in Daemons, dispatch_shutdown(d)
      PROVE  StartInv'
    BY <1>6, MovesOn DEF dispatch_shutdown, Agrees, Replies, Goto
<1>7. ASSUME NEW d \in Daemons, shutdown_unmount(d)
      PROVE  StartInv'
    BY <1>7, ShutdownEffect, Unmounted DEF UnmountFails
<1>8. ASSUME NEW d \in Daemons, close_listener(d)
      PROVE  StartInv'
    BY <1>8 DEF close_listener, daemonOnly, uncounted, Goto
<1>9. ASSUME NEW d \in Daemons, release_mount(d)
      PROVE  StartInv'
    BY <1>9 DEF release_mount, daemonOnly, uncounted, Goto
<1>10. ASSUME NEW d \in Daemons, retry_unmount(d)
      PROVE  StartInv'
    BY <1>10, Unmounted DEF retry_unmount, daemonOnly, uncounted, Goto, UnmountFails
<1>11. ASSUME NEW d \in Daemons, join_mount_thread(d)
      PROVE  StartInv'
    BY <1>11 DEF join_mount_thread, daemonOnly, uncounted, Goto
<1>12. ASSUME NEW d \in Daemons, wait_for_reclamation(d)
      PROVE  StartInv'
    BY <1>12 DEF wait_for_reclamation, daemonOnly, uncounted, Goto
<1>13. ASSUME NEW d \in Daemons, remove_socket(d)
      PROVE  StartInv'
    BY <1>13 DEF remove_socket, Goto, env
<1>14. ASSUME NEW d \in Daemons, run_project_mount(d)
      PROVE  StartInv'
    BY <1>14, Mounted, Spent DEF run_project_mount, daemonOnly, uncounted, Goto
<1>15. ASSUME NEW d \in Daemons, reclaimer_ends(d)
      PROVE  StartInv'
    BY <1>15 DEF reclaimer_ends, env
<1>16. ASSUME NEW d \in Daemons, stop_daemon_on_signal(d)
      PROVE  StartInv'
    BY <1>16, Spent DEF stop_daemon_on_signal
<1>17. ASSUME NEW d \in Daemons, remove_workspace(d)
      PROVE  StartInv'
    BY <1>17, Spent DEF remove_workspace
<1>18. ASSUME NEW d \in Daemons, Crash(d)
      PROVE  StartInv'
    BY <1>18, Spent, MovesOn DEF Crash, Goto
<1>19. CASE command_start
    BY <1>19, MovesOn DEF command_start, Report, Goto, cliOnly
<1>20. CASE command_stop
    BY <1>20, MovesOn DEF command_stop, Report, Goto, cliOnly
<1>21. CASE wait_for_socket
    BY <1>21, MovesOn DEF wait_for_socket, Report, cliOnly
<1>22. CASE wait_for_socket_to_close
    BY <1>22, MovesOn DEF wait_for_socket_to_close, Report, cliOnly
<1>23. CASE wait_for_mount_to_close
    BY <1>23, MovesOn DEF default_mount_is_active, wait_for_mount_to_close, Report, cliOnly
<1>24. CASE Hold
    BY <1>24, Spent DEF Hold, tools
<1>25. CASE Release
    BY <1>25 DEF Release, tools
<1>26. CASE Expire
    BY <1>26 DEF Expire
<1>27. CASE UNCHANGED vars
    BY <1>27 DEF vars
<1>28. QED
    BY <1>1, <1>2, <1>3, <1>4, <1>5, <1>6, <1>7, <1>8, <1>9, <1>10, <1>11, <1>12, <1>13,
       <1>14, <1>15, <1>16, <1>17, <1>18, <1>19, <1>20, <1>21, <1>22, <1>23, <1>24, <1>25,
       <1>26, <1>27
       DEF Next, DaemonStep, CliStep

(* Every step keeps at most one mount, with the daemon behind it. *)
LEMMA MountStep ==
    Usual /\ TypeOK /\ BirthInv /\ StartInv /\ MountInv /\ [Next]_vars => MountInv'
<1> SUFFICES ASSUME Usual, TypeOK, BirthInv, StartInv, MountInv, [Next]_vars PROVE MountInv'
    OBVIOUS
<1> USE TypeParts, OneMount, NoDaemon DEF Usual, DaemonTypes, MountTypes, CommandTypes,
   BirthInv, StartInv, MountInv, Preparing, Reachable, Accepts, Unreachable, Phases,
   Starting, Stopping, Gone
<1>1. ASSUME NEW d \in Daemons, check_stale_mount(d)
      PROVE  MountInv'
    BY <1>1 DEF default_mount_is_active, check_stale_mount, daemonOnly, uncounted, Goto
<1>2. ASSUME NEW d \in Daemons, clear_stale_mount(d)
      PROVE  MountInv'
    <2>1. CASE unmount_project_view
        BY <1>2, <2>1, Unmounted DEF clear_stale_mount, daemonOnly, uncounted, Goto,
           UnmountFails
    <2>2. CASE UnmountFails /\ Goto(d, "exit")
        <3>1. /\ UNCHANGED <<thread, mounts, mounting, cached, socket>>
              /\ pc' = [pc EXCEPT ![d] = "exit"]
            BY <1>2, <2>2 DEF clear_stale_mount, daemonOnly, uncounted, Goto, UnmountFails
        <3>2. pc[d] = "clear"
            BY <1>2 DEF clear_stale_mount
        <3>3. QED BY <3>1, <3>2
    <2>3. QED BY <1>2, <2>1, <2>2 DEF clear_stale_mount
<1>3. ASSUME NEW d \in Daemons, open_configured_project(d)
      PROVE  MountInv'
    BY <1>3, Spent DEF open_configured_project, daemonOnly, uncounted, Goto
<1>4. ASSUME NEW d \in Daemons, wait_for_mount(d)
      PROVE  MountInv'
    BY <1>4 DEF wait_for_mount, daemonOnly, uncounted, Goto
<1>5. ASSUME NEW d \in Daemons, serve(d)
      PROVE  MountInv'
    BY <1>5, Spent DEF serve, Goto
<1>6. ASSUME NEW d \in Daemons, dispatch_shutdown(d)
      PROVE  MountInv'
    BY <1>6, MovesOn DEF dispatch_shutdown, Agrees, Replies, Goto
<1>7. ASSUME NEW d \in Daemons, shutdown_unmount(d)
      PROVE  MountInv'
    <2>1. CASE unmount_project_view
        <3>1. /\ pc' = [pc EXCEPT ![d] = "closing"] /\ running' = [running EXCEPT ![d] = FALSE]
              /\ cli'.command = "wait_closed" /\ UNCHANGED out
            BY <1>7, <2>1, ShutdownEffect DEF unmount_project_view, UnmountFails
        <3>2. pc[d] = "unmount" /\ cli'.daemon = cli.daemon
              /\ UNCHANGED <<mounting, removals, cached, socket, used>>
            BY <1>7, ShutdownEffect
        <3>3. QED BY <2>1, <3>1, <3>2, Unmounted
    <2>2. CASE UnmountFails
        <3>1. /\ pc' = [pc EXCEPT ![d] = IF running[d] THEN "serve" ELSE "closing"]
              /\ cli'.command = "none" /\ out' = IF held THEN "busy" ELSE "failed"
            BY <1>7, <2>2, ShutdownEffect DEF unmount_project_view, UnmountFails
        <3>2. pc[d] = "unmount" /\ cli'.daemon = cli.daemon /\ UNCHANGED running
              /\ UNCHANGED <<mounting, removals, cached, socket, used, mounts, thread, held>>
            BY <1>7, <2>2, ShutdownEffect DEF unmount_project_view, UnmountFails
        <3>3. QED BY <2>2, <3>1, <3>2 DEF UnmountFails
    <2>3. QED BY <1>7, <2>1, <2>2, ShutdownEffect
<1>8. ASSUME NEW d \in Daemons, close_listener(d)
      PROVE  MountInv'
    BY <1>8 DEF close_listener, daemonOnly, uncounted, Goto
<1>9. ASSUME NEW d \in Daemons, release_mount(d)
      PROVE  MountInv'
    BY <1>9 DEF release_mount, daemonOnly, uncounted, Goto
<1>10. ASSUME NEW d \in Daemons, retry_unmount(d)
      PROVE  MountInv'
    BY <1>10, Unmounted DEF retry_unmount, daemonOnly, uncounted, Goto, UnmountFails
<1>11. ASSUME NEW d \in Daemons, join_mount_thread(d)
      PROVE  MountInv'
    BY <1>11 DEF join_mount_thread, daemonOnly, uncounted, Goto
<1>12. ASSUME NEW d \in Daemons, wait_for_reclamation(d)
      PROVE  MountInv'
    BY <1>12 DEF wait_for_reclamation, daemonOnly, uncounted, Goto
<1>13. ASSUME NEW d \in Daemons, remove_socket(d)
      PROVE  MountInv'
    BY <1>13 DEF remove_socket, Goto, env
<1>14. ASSUME NEW d \in Daemons, run_project_mount(d)
      PROVE  MountInv'
    BY <1>14, Mounted, Spent DEF run_project_mount, daemonOnly, uncounted, Goto
<1>15. ASSUME NEW d \in Daemons, reclaimer_ends(d)
      PROVE  MountInv'
    BY <1>15 DEF reclaimer_ends, env
<1>16. ASSUME NEW d \in Daemons, stop_daemon_on_signal(d)
      PROVE  MountInv'
    BY <1>16, Spent DEF stop_daemon_on_signal
<1>17. ASSUME NEW d \in Daemons, remove_workspace(d)
      PROVE  MountInv'
    BY <1>17, Spent DEF remove_workspace
<1>18. ASSUME NEW d \in Daemons, Crash(d)
      PROVE  MountInv'
    BY <1>18, Spent, MovesOn DEF Crash, Goto
<1>19. CASE command_start
    <2>1. CASE UNCHANGED <<pc, mounting>>
        BY <1>19, <2>1, MovesOn DEF command_start, cliOnly
    <2>2. CASE \E d \in Daemons, mode \in Modes : Goto(d, "check") /\ pc[d] = "unborn"
                   /\ mounting' = [mounting EXCEPT ![d] = mode]
        <3>1. PICK d \in Daemons, mode \in Modes : Goto(d, "check") /\ pc[d] = "unborn"
                   /\ mounting' = [mounting EXCEPT ![d] = mode]
            BY <2>2
        <3>2. mode = TRUE
            OBVIOUS
        <3>3. UNCHANGED cliOnly
            BY <1>19 DEF command_start
        <3>4. QED BY <3>1, <3>2, <3>3 DEF Goto, cliOnly
    <2>3. QED BY <1>19, <2>1, <2>2 DEF command_start, Report
<1>20. CASE command_stop
    BY <1>20, MovesOn DEF command_stop, Report, Goto, cliOnly
<1>21. CASE wait_for_socket
    BY <1>21, MovesOn DEF wait_for_socket, Report, cliOnly
<1>22. CASE wait_for_socket_to_close
    BY <1>22, MovesOn DEF wait_for_socket_to_close, Report, cliOnly
<1>23. CASE wait_for_mount_to_close
    BY <1>23, MovesOn DEF default_mount_is_active, wait_for_mount_to_close, Report, cliOnly
<1>24. CASE Hold
    BY <1>24, Spent DEF Hold, tools
<1>25. CASE Release
    BY <1>25 DEF Release, tools
<1>26. CASE Expire
    BY <1>26 DEF Expire
<1>27. CASE UNCHANGED vars
    BY <1>27 DEF vars
<1>28. QED
    BY <1>1, <1>2, <1>3, <1>4, <1>5, <1>6, <1>7, <1>8, <1>9, <1>10, <1>11, <1>12, <1>13,
       <1>14, <1>15, <1>16, <1>17, <1>18, <1>19, <1>20, <1>21, <1>22, <1>23, <1>24, <1>25,
       <1>26, <1>27
       DEF Next, DaemonStep, CliStep

(* Every step keeps the socket path with the daemon that accepts on it. *)
LEMMA SocketStep ==
    Usual /\ TypeOK /\ StartInv /\ SocketInv /\ [Next]_vars => SocketInv'
<1> SUFFICES ASSUME Usual, TypeOK, StartInv, SocketInv, [Next]_vars PROVE SocketInv'
    OBVIOUS
<1> USE TypeParts DEF DaemonTypes, StartInv, SocketInv, Accepting, Reachable, Accepts,
   Unreachable, Phases, Starting, Stopping, Gone
<1>1. ASSUME NEW d \in Daemons, check_stale_mount(d)
      PROVE  SocketInv'
    BY <1>1 DEF default_mount_is_active, check_stale_mount, daemonOnly, uncounted, Goto
<1>2. ASSUME NEW d \in Daemons, clear_stale_mount(d)
      PROVE  SocketInv'
    <2>1. CASE unmount_project_view
        BY <1>2, <2>1, Unmounted DEF clear_stale_mount, daemonOnly, uncounted, Goto,
           UnmountFails
    <2>2. CASE UnmountFails
        BY <1>2, <2>2 DEF clear_stale_mount, daemonOnly, uncounted, Goto, UnmountFails
    <2>3. QED BY <1>2, <2>1, <2>2 DEF clear_stale_mount
<1>3. ASSUME NEW d \in Daemons, open_configured_project(d)
      PROVE  SocketInv'
    BY <1>3, Spent DEF open_configured_project, daemonOnly, uncounted, Goto
<1>4. ASSUME NEW d \in Daemons, wait_for_mount(d)
      PROVE  SocketInv'
    BY <1>4 DEF wait_for_mount, daemonOnly, uncounted, Goto
<1>5. ASSUME NEW d \in Daemons, serve(d)
      PROVE  SocketInv'
    BY <1>5, Spent DEF serve, Goto
<1>6. ASSUME NEW d \in Daemons, dispatch_shutdown(d)
      PROVE  SocketInv'
    BY <1>6, MovesOn DEF dispatch_shutdown, Agrees, Replies, Goto
<1>7. ASSUME NEW d \in Daemons, shutdown_unmount(d)
      PROVE  SocketInv'
    <2>1. CASE unmount_project_view
        <3>1. /\ pc' = [pc EXCEPT ![d] = "closing"] /\ running' = [running EXCEPT ![d] = FALSE]
              /\ cli'.command = "wait_closed" /\ UNCHANGED out
            BY <1>7, <2>1, ShutdownEffect DEF unmount_project_view, UnmountFails
        <3>2. pc[d] = "unmount" /\ cli'.daemon = cli.daemon
              /\ UNCHANGED <<mounting, removals, cached, socket, used>>
            BY <1>7, ShutdownEffect
        <3>3. QED BY <2>1, <3>1, <3>2, Unmounted
    <2>2. CASE UnmountFails
        <3>1. /\ pc' = [pc EXCEPT ![d] = IF running[d] THEN "serve" ELSE "closing"]
              /\ cli'.command = "none" /\ out' = IF held THEN "busy" ELSE "failed"
            BY <1>7, <2>2, ShutdownEffect DEF unmount_project_view, UnmountFails
        <3>2. pc[d] = "unmount" /\ cli'.daemon = cli.daemon /\ UNCHANGED running
              /\ UNCHANGED <<mounting, removals, cached, socket, used, mounts, thread, held>>
            BY <1>7, <2>2, ShutdownEffect DEF unmount_project_view, UnmountFails
        <3>3. QED BY <2>2, <3>1, <3>2 DEF UnmountFails
    <2>3. QED BY <1>7, <2>1, <2>2, ShutdownEffect
<1>8. ASSUME NEW d \in Daemons, close_listener(d)
      PROVE  SocketInv'
    BY <1>8 DEF close_listener, daemonOnly, uncounted, Goto
<1>9. ASSUME NEW d \in Daemons, release_mount(d)
      PROVE  SocketInv'
    BY <1>9 DEF release_mount, daemonOnly, uncounted, Goto
<1>10. ASSUME NEW d \in Daemons, retry_unmount(d)
      PROVE  SocketInv'
    <2>1. CASE unmount_project_view
        BY <1>10, <2>1, Unmounted, ZenonT(30) DEF retry_unmount, daemonOnly, uncounted, Goto,
           UnmountFails
    <2>2. CASE UnmountFails
        BY <1>10, <2>2 DEF retry_unmount, daemonOnly, uncounted, Goto, UnmountFails
    <2>3. QED BY <1>10, <2>1, <2>2 DEF retry_unmount
<1>11. ASSUME NEW d \in Daemons, join_mount_thread(d)
      PROVE  SocketInv'
    BY <1>11 DEF join_mount_thread, daemonOnly, uncounted, Goto
<1>12. ASSUME NEW d \in Daemons, wait_for_reclamation(d)
      PROVE  SocketInv'
    BY <1>12 DEF wait_for_reclamation, daemonOnly, uncounted, Goto
<1>13. ASSUME NEW d \in Daemons, remove_socket(d)
      PROVE  SocketInv'
    BY <1>13 DEF remove_socket, Goto, env
<1>14. ASSUME NEW d \in Daemons, run_project_mount(d)
      PROVE  SocketInv'
    BY <1>14, Mounted, Spent DEF run_project_mount, daemonOnly, uncounted, Goto
<1>15. ASSUME NEW d \in Daemons, reclaimer_ends(d)
      PROVE  SocketInv'
    BY <1>15 DEF reclaimer_ends, env
<1>16. ASSUME NEW d \in Daemons, stop_daemon_on_signal(d)
      PROVE  SocketInv'
    BY <1>16, Spent DEF stop_daemon_on_signal
<1>17. ASSUME NEW d \in Daemons, remove_workspace(d)
      PROVE  SocketInv'
    BY <1>17, Spent DEF remove_workspace
<1>18. ASSUME NEW d \in Daemons, Crash(d)
      PROVE  SocketInv'
    BY <1>18, Spent, MovesOn DEF Crash, Goto
<1>19. CASE command_start
    BY <1>19, MovesOn DEF command_start, Report, Goto, cliOnly
<1>20. CASE command_stop
    BY <1>20, MovesOn DEF command_stop, Report, Goto, cliOnly
<1>21. CASE wait_for_socket
    BY <1>21, MovesOn DEF wait_for_socket, Report, cliOnly
<1>22. CASE wait_for_socket_to_close
    BY <1>22, MovesOn DEF wait_for_socket_to_close, Report, cliOnly
<1>23. CASE wait_for_mount_to_close
    BY <1>23, MovesOn DEF default_mount_is_active, wait_for_mount_to_close, Report, cliOnly
<1>24. CASE Hold
    BY <1>24, Spent DEF Hold, tools
<1>25. CASE Release
    BY <1>25 DEF Release, tools
<1>26. CASE Expire
    BY <1>26 DEF Expire
<1>27. CASE UNCHANGED vars
    BY <1>27 DEF vars
<1>28. QED
    BY <1>1, <1>2, <1>3, <1>4, <1>5, <1>6, <1>7, <1>8, <1>9, <1>10, <1>11, <1>12, <1>13,
       <1>14, <1>15, <1>16, <1>17, <1>18, <1>19, <1>20, <1>21, <1>22, <1>23, <1>24, <1>25,
       <1>26, <1>27
       DEF Next, DaemonStep, CliStep

(* Every step keeps the mount of a daemon that stops its own. *)
LEMMA OwnStep ==
    Usual /\ TypeOK /\ StartInv /\ MountInv /\ OwnInv /\ [Next]_vars => OwnInv'
<1> SUFFICES ASSUME Usual, TypeOK, StartInv, MountInv, OwnInv, [Next]_vars PROVE OwnInv'
    OBVIOUS
<1> USE TypeParts, OneMount, NoDaemon DEF Usual, DaemonTypes, CommandTypes, StartInv,
   MountInv, OwnInv, Reachable, Accepts, Unreachable, Phases, Starting, Stopping, Gone
<1>1. ASSUME NEW d \in Daemons, check_stale_mount(d)
      PROVE  OwnInv'
    BY <1>1 DEF default_mount_is_active, check_stale_mount, daemonOnly, uncounted, Goto
<1>2. ASSUME NEW d \in Daemons, clear_stale_mount(d)
      PROVE  OwnInv'
    <2>1. CASE unmount_project_view
        BY <1>2, <2>1, Unmounted DEF clear_stale_mount, daemonOnly, uncounted, Goto,
           UnmountFails
    <2>2. CASE UnmountFails
        BY <1>2, <2>2 DEF clear_stale_mount, daemonOnly, uncounted, Goto, UnmountFails
    <2>3. QED BY <1>2, <2>1, <2>2 DEF clear_stale_mount
<1>3. ASSUME NEW d \in Daemons, open_configured_project(d)
      PROVE  OwnInv'
    BY <1>3, Spent DEF open_configured_project, daemonOnly, uncounted, Goto
<1>4. ASSUME NEW d \in Daemons, wait_for_mount(d)
      PROVE  OwnInv'
    BY <1>4 DEF wait_for_mount, daemonOnly, uncounted, Goto
<1>5. ASSUME NEW d \in Daemons, serve(d)
      PROVE  OwnInv'
    BY <1>5, Spent DEF serve, Goto
<1>6. ASSUME NEW d \in Daemons, dispatch_shutdown(d)
      PROVE  OwnInv'
    BY <1>6, MovesOn DEF dispatch_shutdown, Agrees, Replies, Goto
<1>7. ASSUME NEW d \in Daemons, shutdown_unmount(d)
      PROVE  OwnInv'
    <2>1. CASE unmount_project_view
        <3>1. /\ pc' = [pc EXCEPT ![d] = "closing"] /\ running' = [running EXCEPT ![d] = FALSE]
              /\ cli'.command = "wait_closed" /\ UNCHANGED out
            BY <1>7, <2>1, ShutdownEffect DEF unmount_project_view, UnmountFails
        <3>2. pc[d] = "unmount" /\ cli'.daemon = cli.daemon
              /\ UNCHANGED <<mounting, removals, cached, socket, used>>
            BY <1>7, ShutdownEffect
        <3>3. QED BY <2>1, <3>1, <3>2, Unmounted
    <2>2. CASE UnmountFails
        <3>1. /\ pc' = [pc EXCEPT ![d] = IF running[d] THEN "serve" ELSE "closing"]
              /\ cli'.command = "none" /\ out' = IF held THEN "busy" ELSE "failed"
            BY <1>7, <2>2, ShutdownEffect DEF unmount_project_view, UnmountFails
        <3>2. pc[d] = "unmount" /\ cli'.daemon = cli.daemon /\ UNCHANGED running
              /\ UNCHANGED <<mounting, removals, cached, socket, used, mounts, thread, held>>
            BY <1>7, <2>2, ShutdownEffect DEF unmount_project_view, UnmountFails
        <3>3. QED BY <2>2, <3>1, <3>2 DEF UnmountFails
    <2>3. QED BY <1>7, <2>1, <2>2, ShutdownEffect
<1>8. ASSUME NEW d \in Daemons, close_listener(d)
      PROVE  OwnInv'
    BY <1>8 DEF close_listener, daemonOnly, uncounted, Goto
<1>9. ASSUME NEW d \in Daemons, release_mount(d)
      PROVE  OwnInv'
    BY <1>9 DEF release_mount, daemonOnly, uncounted, Goto
<1>10. ASSUME NEW d \in Daemons, retry_unmount(d)
      PROVE  OwnInv'
    <2>1. CASE unmount_project_view
        BY <1>10, <2>1, Unmounted DEF retry_unmount, daemonOnly, uncounted, Goto,
           UnmountFails
    <2>2. CASE UnmountFails
        BY <1>10, <2>2 DEF retry_unmount, daemonOnly, uncounted, Goto, UnmountFails
    <2>3. QED BY <1>10, <2>1, <2>2 DEF retry_unmount
<1>11. ASSUME NEW d \in Daemons, join_mount_thread(d)
      PROVE  OwnInv'
    BY <1>11 DEF join_mount_thread, daemonOnly, uncounted, Goto
<1>12. ASSUME NEW d \in Daemons, wait_for_reclamation(d)
      PROVE  OwnInv'
    BY <1>12 DEF wait_for_reclamation, daemonOnly, uncounted, Goto
<1>13. ASSUME NEW d \in Daemons, remove_socket(d)
      PROVE  OwnInv'
    BY <1>13 DEF remove_socket, Goto, env
<1>14. ASSUME NEW d \in Daemons, run_project_mount(d)
      PROVE  OwnInv'
    BY <1>14, Mounted, Spent DEF run_project_mount, daemonOnly, uncounted, Goto
<1>15. ASSUME NEW d \in Daemons, reclaimer_ends(d)
      PROVE  OwnInv'
    BY <1>15 DEF reclaimer_ends, env
<1>16. ASSUME NEW d \in Daemons, stop_daemon_on_signal(d)
      PROVE  OwnInv'
    BY <1>16, Spent DEF stop_daemon_on_signal
<1>17. ASSUME NEW d \in Daemons, remove_workspace(d)
      PROVE  OwnInv'
    BY <1>17, Spent DEF remove_workspace
<1>18. ASSUME NEW d \in Daemons, Crash(d)
      PROVE  OwnInv'
    BY <1>18, Spent, MovesOn DEF Crash, Goto
<1>19. CASE command_start
    BY <1>19, MovesOn DEF command_start, Report, Goto, cliOnly
<1>20. CASE command_stop
    BY <1>20, MovesOn DEF command_stop, Report, Goto, cliOnly
<1>21. CASE wait_for_socket
    BY <1>21, MovesOn DEF wait_for_socket, Report, cliOnly
<1>22. CASE wait_for_socket_to_close
    BY <1>22, MovesOn DEF wait_for_socket_to_close, Report, cliOnly
<1>23. CASE wait_for_mount_to_close
    BY <1>23, MovesOn DEF default_mount_is_active, wait_for_mount_to_close, Report, cliOnly
<1>24. CASE Hold
    BY <1>24, Spent DEF Hold, tools
<1>25. CASE Release
    BY <1>25 DEF Release, tools
<1>26. CASE Expire
    BY <1>26 DEF Expire
<1>27. CASE UNCHANGED vars
    BY <1>27 DEF vars
<1>28. QED
    BY <1>1, <1>2, <1>3, <1>4, <1>5, <1>6, <1>7, <1>8, <1>9, <1>10, <1>11, <1>12, <1>13,
       <1>14, <1>15, <1>16, <1>17, <1>18, <1>19, <1>20, <1>21, <1>22, <1>23, <1>24, <1>25,
       <1>26, <1>27
       DEF Next, DaemonStep, CliStep

(* Every step keeps what the waiting command relies on. *)
LEMMA CommandStep ==
    Usual /\ TypeOK /\ BirthInv /\ StartInv /\ CommandInv /\ [Next]_vars => CommandInv'
<1> SUFFICES ASSUME Usual, TypeOK, BirthInv, StartInv, CommandInv, [Next]_vars
             PROVE  CommandInv'
    OBVIOUS
<1> USE TypeParts, NoDaemon DEF Usual, DaemonTypes, MountTypes, CommandTypes, BirthInv,
   StartInv, CommandInv, Accepting, Listens, Reachable, Accepts, Unreachable, Phases,
   Starting, Stopping, Gone, Incidents
<1>1. ASSUME NEW d \in Daemons, check_stale_mount(d)
      PROVE  CommandInv'
    BY <1>1 DEF default_mount_is_active, check_stale_mount, daemonOnly, uncounted, Goto
<1>2. ASSUME NEW d \in Daemons, clear_stale_mount(d)
      PROVE  CommandInv'
    BY <1>2, Unmounted DEF clear_stale_mount, daemonOnly, uncounted, Goto, UnmountFails
<1>3. ASSUME NEW d \in Daemons, open_configured_project(d)
      PROVE  CommandInv'
    BY <1>3, Spent DEF open_configured_project, daemonOnly, uncounted, Goto
<1>4. ASSUME NEW d \in Daemons, wait_for_mount(d)
      PROVE  CommandInv'
    BY <1>4 DEF wait_for_mount, daemonOnly, uncounted, Goto
<1>5. ASSUME NEW d \in Daemons, serve(d)
      PROVE  CommandInv'
    BY <1>5, Spent DEF serve, Goto
<1>6. ASSUME NEW d \in Daemons, dispatch_shutdown(d)
      PROVE  CommandInv'
    BY <1>6, MovesOn DEF dispatch_shutdown, Agrees, Replies, Goto
<1>7. ASSUME NEW d \in Daemons, shutdown_unmount(d)
      PROVE  CommandInv'
    <2>1. CASE unmount_project_view
        <3>1. /\ pc' = [pc EXCEPT ![d] = "closing"] /\ running' = [running EXCEPT ![d] = FALSE]
              /\ cli'.command = "wait_closed" /\ UNCHANGED out
            BY <1>7, <2>1, ShutdownEffect DEF unmount_project_view, UnmountFails
        <3>2. pc[d] = "unmount" /\ cli'.daemon = cli.daemon
              /\ UNCHANGED <<mounting, removals, cached, socket, used>>
            BY <1>7, ShutdownEffect
        <3>3. QED BY <2>1, <3>1, <3>2, Unmounted
    <2>2. CASE UnmountFails
        <3>1. /\ pc' = [pc EXCEPT ![d] = IF running[d] THEN "serve" ELSE "closing"]
              /\ cli'.command = "none" /\ out' = IF held THEN "busy" ELSE "failed"
            BY <1>7, <2>2, ShutdownEffect DEF unmount_project_view, UnmountFails
        <3>2. pc[d] = "unmount" /\ cli'.daemon = cli.daemon /\ UNCHANGED running
              /\ UNCHANGED <<mounting, removals, cached, socket, used, mounts, thread, held>>
            BY <1>7, <2>2, ShutdownEffect DEF unmount_project_view, UnmountFails
        <3>3. QED BY <2>2, <3>1, <3>2 DEF UnmountFails
    <2>3. QED BY <1>7, <2>1, <2>2, ShutdownEffect
<1>8. ASSUME NEW d \in Daemons, close_listener(d)
      PROVE  CommandInv'
    BY <1>8 DEF close_listener, daemonOnly, uncounted, Goto
<1>9. ASSUME NEW d \in Daemons, release_mount(d)
      PROVE  CommandInv'
    BY <1>9 DEF release_mount, daemonOnly, uncounted, Goto
<1>10. ASSUME NEW d \in Daemons, retry_unmount(d)
      PROVE  CommandInv'
    BY <1>10, Unmounted, SMTT(30) DEF retry_unmount, daemonOnly, uncounted, Goto, UnmountFails
<1>11. ASSUME NEW d \in Daemons, join_mount_thread(d)
      PROVE  CommandInv'
    BY <1>11 DEF join_mount_thread, daemonOnly, uncounted, Goto
<1>12. ASSUME NEW d \in Daemons, wait_for_reclamation(d)
      PROVE  CommandInv'
    BY <1>12 DEF wait_for_reclamation, daemonOnly, uncounted, Goto
<1>13. ASSUME NEW d \in Daemons, remove_socket(d)
      PROVE  CommandInv'
    BY <1>13 DEF remove_socket, Goto, env
<1>14. ASSUME NEW d \in Daemons, run_project_mount(d)
      PROVE  CommandInv'
    BY <1>14, Mounted, Spent DEF run_project_mount, daemonOnly, uncounted, Goto
<1>15. ASSUME NEW d \in Daemons, reclaimer_ends(d)
      PROVE  CommandInv'
    BY <1>15 DEF reclaimer_ends, env
<1>16. ASSUME NEW d \in Daemons, stop_daemon_on_signal(d)
      PROVE  CommandInv'
    BY <1>16, Spent DEF stop_daemon_on_signal
<1>17. ASSUME NEW d \in Daemons, remove_workspace(d)
      PROVE  CommandInv'
    BY <1>17, Spent DEF remove_workspace
<1>18. ASSUME NEW d \in Daemons, Crash(d)
      PROVE  CommandInv'
    BY <1>18, Spent, MovesOn DEF Crash, Goto
<1>19. CASE command_start
    BY <1>19, MovesOn DEF command_start, Report, Goto, cliOnly
<1>20. CASE command_stop
    BY <1>20, MovesOn DEF command_stop, Report, Goto, cliOnly
<1>21. CASE wait_for_socket
    BY <1>21, MovesOn DEF wait_for_socket, Report, cliOnly
<1>22. CASE wait_for_socket_to_close
    BY <1>22, MovesOn DEF wait_for_socket_to_close, Report, cliOnly
<1>23. CASE wait_for_mount_to_close
    BY <1>23, MovesOn DEF default_mount_is_active, wait_for_mount_to_close, Report, cliOnly
<1>24. CASE Hold
    BY <1>24, Spent DEF Hold, tools
<1>25. CASE Release
    BY <1>25 DEF Release, tools
<1>26. CASE Expire
    BY <1>26 DEF Expire
<1>27. CASE UNCHANGED vars
    BY <1>27 DEF vars
<1>28. QED
    BY <1>1, <1>2, <1>3, <1>4, <1>5, <1>6, <1>7, <1>8, <1>9, <1>10, <1>11, <1>12, <1>13,
       <1>14, <1>15, <1>16, <1>17, <1>18, <1>19, <1>20, <1>21, <1>22, <1>23, <1>24, <1>25,
       <1>26, <1>27
       DEF Next, DaemonStep, CliStep

(* Nothing comes back after a reported stop. *)
LEMMA StoppedStep ==
        Usual /\ TypeOK /\ StartInv /\ MountInv /\ CommandInv /\ StoppedIsGone /\
        [Next]_vars
        => StoppedIsGone'
<1> SUFFICES ASSUME Usual, TypeOK, StartInv, MountInv, CommandInv, StoppedIsGone,
                    [Next]_vars
             PROVE  StoppedIsGone'
    OBVIOUS
<1> USE TypeParts, OneMount, NoDaemon DEF Usual, DaemonTypes, MountTypes, CommandTypes,
   StartInv, MountInv, CommandInv, StoppedIsGone, Accepting, Listens, Reachable, Accepts,
   Unreachable, Phases, Starting, Stopping, Gone, Reports
<1>1. ASSUME NEW d \in Daemons, check_stale_mount(d)
      PROVE  StoppedIsGone'
    BY <1>1 DEF default_mount_is_active, check_stale_mount, daemonOnly, uncounted, Goto
<1>2. ASSUME NEW d \in Daemons, clear_stale_mount(d)
      PROVE  StoppedIsGone'
    BY <1>2, Unmounted DEF clear_stale_mount, daemonOnly, uncounted, Goto, UnmountFails
<1>3. ASSUME NEW d \in Daemons, open_configured_project(d)
      PROVE  StoppedIsGone'
    BY <1>3, Spent DEF open_configured_project, daemonOnly, uncounted, Goto
<1>4. ASSUME NEW d \in Daemons, wait_for_mount(d)
      PROVE  StoppedIsGone'
    BY <1>4 DEF wait_for_mount, daemonOnly, uncounted, Goto
<1>5. ASSUME NEW d \in Daemons, serve(d)
      PROVE  StoppedIsGone'
    BY <1>5, Spent DEF serve, Goto
<1>6. ASSUME NEW d \in Daemons, dispatch_shutdown(d)
      PROVE  StoppedIsGone'
    BY <1>6, MovesOn DEF dispatch_shutdown, Agrees, Replies, Goto
<1>7. ASSUME NEW d \in Daemons, shutdown_unmount(d)
      PROVE  StoppedIsGone'
    BY <1>7, ShutdownEffect, Unmounted DEF UnmountFails
<1>8. ASSUME NEW d \in Daemons, close_listener(d)
      PROVE  StoppedIsGone'
    BY <1>8 DEF close_listener, daemonOnly, uncounted, Goto
<1>9. ASSUME NEW d \in Daemons, release_mount(d)
      PROVE  StoppedIsGone'
    BY <1>9 DEF release_mount, daemonOnly, uncounted, Goto
<1>10. ASSUME NEW d \in Daemons, retry_unmount(d)
      PROVE  StoppedIsGone'
    BY <1>10, Unmounted DEF retry_unmount, daemonOnly, uncounted, Goto, UnmountFails
<1>11. ASSUME NEW d \in Daemons, join_mount_thread(d)
      PROVE  StoppedIsGone'
    BY <1>11 DEF join_mount_thread, daemonOnly, uncounted, Goto
<1>12. ASSUME NEW d \in Daemons, wait_for_reclamation(d)
      PROVE  StoppedIsGone'
    BY <1>12 DEF wait_for_reclamation, daemonOnly, uncounted, Goto
<1>13. ASSUME NEW d \in Daemons, remove_socket(d)
      PROVE  StoppedIsGone'
    BY <1>13 DEF remove_socket, Goto, env
<1>14. ASSUME NEW d \in Daemons, run_project_mount(d)
      PROVE  StoppedIsGone'
    BY <1>14, Mounted, Spent DEF run_project_mount, daemonOnly, uncounted, Goto
<1>15. ASSUME NEW d \in Daemons, reclaimer_ends(d)
      PROVE  StoppedIsGone'
    BY <1>15 DEF reclaimer_ends, env
<1>16. ASSUME NEW d \in Daemons, stop_daemon_on_signal(d)
      PROVE  StoppedIsGone'
    BY <1>16, Spent DEF stop_daemon_on_signal
<1>17. ASSUME NEW d \in Daemons, remove_workspace(d)
      PROVE  StoppedIsGone'
    BY <1>17, Spent DEF remove_workspace
<1>18. ASSUME NEW d \in Daemons, Crash(d)
      PROVE  StoppedIsGone'
    BY <1>18, Spent, MovesOn DEF Crash, Goto
<1>19. CASE command_start
    BY <1>19, MovesOn DEF command_start, Report, Goto, cliOnly
<1>20. CASE command_stop
    BY <1>20, MovesOn DEF command_stop, Report, Goto, cliOnly
<1>21. CASE wait_for_socket
    BY <1>21, MovesOn DEF wait_for_socket, Report, cliOnly
<1>22. CASE wait_for_socket_to_close
    BY <1>22, MovesOn DEF wait_for_socket_to_close, Report, cliOnly
<1>23. CASE wait_for_mount_to_close
    BY <1>23, MovesOn DEF default_mount_is_active, wait_for_mount_to_close, Report, cliOnly
<1>24. CASE Hold
    BY <1>24, Spent DEF Hold, tools
<1>25. CASE Release
    BY <1>25 DEF Release, tools
<1>26. CASE Expire
    BY <1>26 DEF Expire
<1>27. CASE UNCHANGED vars
    BY <1>27 DEF vars
<1>28. QED
    BY <1>1, <1>2, <1>3, <1>4, <1>5, <1>6, <1>7, <1>8, <1>9, <1>10, <1>11, <1>12, <1>13,
       <1>14, <1>15, <1>16, <1>17, <1>18, <1>19, <1>20, <1>21, <1>22, <1>23, <1>24, <1>25,
       <1>26, <1>27
       DEF Next, DaemonStep, CliStep

(* A refused stop leaves the daemon as it was. *)
LEMMA RefusedStep ==
        Usual /\ TypeOK /\ BirthInv /\ StartInv /\ MountInv /\ SocketInv /\ OwnInv /\
        CommandInv /\ RefusedStopKeepsServing /\ [Next]_vars
        => RefusedStopKeepsServing'
<1> SUFFICES ASSUME Usual, TypeOK, BirthInv, StartInv, MountInv, SocketInv, OwnInv,
                    CommandInv, RefusedStopKeepsServing, [Next]_vars
             PROVE  RefusedStopKeepsServing'
    OBVIOUS
<1> USE TypeParts, OneMount, NoDaemon DEF Usual, DaemonTypes, MountTypes, CommandTypes,
   BirthInv, StartInv, MountInv, SocketInv, OwnInv, CommandInv, RefusedStopKeepsServing,
   Alone, Accepting, Reachable, Accepts, Unreachable, Phases, Starting, Stopping, Gone,
   Incidents, Preparing
<1>1. ASSUME NEW d \in Daemons, check_stale_mount(d)
      PROVE  RefusedStopKeepsServing'
    BY <1>1 DEF default_mount_is_active, check_stale_mount, daemonOnly, uncounted, Goto
<1>2. ASSUME NEW d \in Daemons, clear_stale_mount(d)
      PROVE  RefusedStopKeepsServing'
    <2> SUFFICES ASSUME NEW x \in Daemons, out' = "busy", used'.signal = 0,
                        cli'.daemon = x, Alone(x)'
                 PROVE  FALSE
        OBVIOUS
    <2>1. /\ UNCHANGED <<out, used, cli, socket>>
          /\ \E phase \in {"open", "exit", "join", "check_again"} : Goto(d, phase)
        BY <1>2 DEF clear_stale_mount, daemonOnly, uncounted, Goto
    <2>2. pc[d] \in {"clear", "unmount_again"}
        BY <1>2 DEF clear_stale_mount
    <2>3. d = x /\ Alone(x)
        BY <2>1, <2>2 DEF Goto, Alone
    <2>4. QED BY <2>1, <2>2, <2>3
<1>3. ASSUME NEW d \in Daemons, open_configured_project(d)
      PROVE  RefusedStopKeepsServing'
    BY <1>3, Spent DEF open_configured_project, daemonOnly, uncounted, Goto
<1>4. ASSUME NEW d \in Daemons, wait_for_mount(d)
      PROVE  RefusedStopKeepsServing'
    BY <1>4 DEF wait_for_mount, daemonOnly, uncounted, Goto
<1>5. ASSUME NEW d \in Daemons, serve(d)
      PROVE  RefusedStopKeepsServing'
    BY <1>5, Spent DEF serve, Goto
<1>6. ASSUME NEW d \in Daemons, dispatch_shutdown(d)
      PROVE  RefusedStopKeepsServing'
    BY <1>6, MovesOn DEF dispatch_shutdown, Agrees, Replies, Goto
<1>7. ASSUME NEW d \in Daemons, shutdown_unmount(d)
      PROVE  RefusedStopKeepsServing'
    <2> SUFFICES ASSUME NEW x \in Daemons, out' = "busy", used'.signal = 0,
                        cli'.daemon = x, Alone(x)'
                 PROVE  Reachable(x)' /\ thread'[x] = "loop" /\ mounts' = <<x>>
        OBVIOUS
    <2>1. pc[d] = "unmount" /\ d = x /\ out = "none" /\ UNCHANGED <<used, socket>>
        BY <1>7, ShutdownEffect
    <2>2. /\ UnmountFails /\ pc' = [pc EXCEPT ![d] = IF running[d] THEN "serve" ELSE "closing"]
          /\ held
        BY <1>7, <2>1, ShutdownEffect
    <2>3. pc'[d] = "serve"
        BY <2>1, <2>2
    <2>4. \A e \in Daemons : pc[e] # "exit"
        <3>1. pc \in [Daemons -> Phases]
            OBVIOUS
        <3>2. \A e \in Daemons \ {d} : pc'[e] \in {"unborn", "dead"}
            BY <2>1
        <3>3. \A e \in Daemons \ {d} : pc'[e] = pc[e]
            BY ONLY <2>2, <3>1
        <3>4. QED BY <2>1, <3>2, <3>3
    <2>5. socket = d
        BY <2>1, <2>4
    <2>6. mounts # <<>> /\ mounts[1] = d
        BY <2>1, <2>2, <2>5
    <2>7. thread[d] = "loop" /\ mounts = <<d>>
        BY <2>1, <2>6
    <2>8. QED BY <2>1, <2>2, <2>3, <2>5, <2>7 DEF UnmountFails
<1>8. ASSUME NEW d \in Daemons, close_listener(d)
      PROVE  RefusedStopKeepsServing'
    BY <1>8 DEF close_listener, daemonOnly, uncounted, Goto
<1>9. ASSUME NEW d \in Daemons, release_mount(d)
      PROVE  RefusedStopKeepsServing'
    BY <1>9 DEF release_mount, daemonOnly, uncounted, Goto
<1>10. ASSUME NEW d \in Daemons, retry_unmount(d)
      PROVE  RefusedStopKeepsServing'
    <2> SUFFICES ASSUME NEW x \in Daemons, out' = "busy", used'.signal = 0,
                        cli'.daemon = x, Alone(x)'
                 PROVE  FALSE
        OBVIOUS
    <2>1. /\ UNCHANGED <<out, used, cli, socket>>
          /\ \E phase \in {"open", "exit", "join", "check_again"} : Goto(d, phase)
        BY <1>10 DEF retry_unmount, daemonOnly, uncounted, Goto
    <2>2. pc[d] \in {"clear", "unmount_again"}
        BY <1>10 DEF retry_unmount
    <2>3. d = x /\ Alone(x)
        BY <2>1, <2>2 DEF Goto, Alone
    <2>4. QED BY <2>1, <2>2, <2>3
<1>11. ASSUME NEW d \in Daemons, join_mount_thread(d)
      PROVE  RefusedStopKeepsServing'
    BY <1>11 DEF join_mount_thread, daemonOnly, uncounted, Goto
<1>12. ASSUME NEW d \in Daemons, wait_for_reclamation(d)
      PROVE  RefusedStopKeepsServing'
    BY <1>12 DEF wait_for_reclamation, daemonOnly, uncounted, Goto
<1>13. ASSUME NEW d \in Daemons, remove_socket(d)
      PROVE  RefusedStopKeepsServing'
    BY <1>13 DEF remove_socket, Goto, env
<1>14. ASSUME NEW d \in Daemons, run_project_mount(d)
      PROVE  RefusedStopKeepsServing'
    BY <1>14, Mounted, Spent DEF run_project_mount, daemonOnly, uncounted, Goto
<1>15. ASSUME NEW d \in Daemons, reclaimer_ends(d)
      PROVE  RefusedStopKeepsServing'
    BY <1>15 DEF reclaimer_ends, env
<1>16. ASSUME NEW d \in Daemons, stop_daemon_on_signal(d)
      PROVE  RefusedStopKeepsServing'
    BY <1>16, Spent DEF stop_daemon_on_signal
<1>17. ASSUME NEW d \in Daemons, remove_workspace(d)
      PROVE  RefusedStopKeepsServing'
    BY <1>17, Spent DEF remove_workspace
<1>18. ASSUME NEW d \in Daemons, Crash(d)
      PROVE  RefusedStopKeepsServing'
    BY <1>18, Spent, MovesOn DEF Crash, Goto
<1>19. CASE command_start
    BY <1>19, MovesOn DEF command_start, Report, Goto, cliOnly
<1>20. CASE command_stop
    BY <1>20, MovesOn DEF command_stop, Report, Goto, cliOnly
<1>21. CASE wait_for_socket
    BY <1>21, MovesOn DEF wait_for_socket, Report, cliOnly
<1>22. CASE wait_for_socket_to_close
    BY <1>22, MovesOn DEF wait_for_socket_to_close, Report, cliOnly
<1>23. CASE wait_for_mount_to_close
    BY <1>23, MovesOn DEF default_mount_is_active, wait_for_mount_to_close, Report, cliOnly
<1>24. CASE Hold
    BY <1>24, Spent DEF Hold, tools
<1>25. CASE Release
    BY <1>25 DEF Release, tools
<1>26. CASE Expire
    BY <1>26 DEF Expire
<1>27. CASE UNCHANGED vars
    BY <1>27 DEF vars
<1>28. QED
    BY <1>1, <1>2, <1>3, <1>4, <1>5, <1>6, <1>7, <1>8, <1>9, <1>10, <1>11, <1>12, <1>13,
       <1>14, <1>15, <1>16, <1>17, <1>18, <1>19, <1>20, <1>21, <1>22, <1>23, <1>24, <1>25,
       <1>26, <1>27
       DEF Next, DaemonStep, CliStep

(* The daemon-less Project satisfies the inductive invariant. *)
LEMMA InitInv ==
    Init => IInv
<1> SUFFICES ASSUME Init PROVE IInv
    OBVIOUS
<1> USE LifetimeAssumption, NoDaemon DEF Init
<1>1. DaemonTypes
    BY DEF DaemonTypes, Phases
<1>2. MountTypes
    <2>1. DOMAIN <<>> = {} /\ <<>> \in Seq(Daemons)
        BY EmptySeq
    <2>2. IsInjective(<<>>)
        BY <2>1 DEF IsInjective
    <2>3. QED BY <2>1, <2>2 DEF MountTypes
<1>3. CommandTypes
    BY DEF CommandTypes, Commands, Reports, Incidents
<1>4. BirthInv
    BY DEF BirthInv, Preparing, Incidents
<1>5. StartInv /\ MountInv /\ SocketInv /\ OwnInv
    BY DEF StartInv, MountInv, SocketInv, OwnInv, Starting, Accepting, Reachable
<1>6. CommandInv /\ StoppedIsGone /\ RefusedStopKeepsServing
    BY DEF CommandInv, StoppedIsGone, RefusedStopKeepsServing
<1>7. QED BY <1>1, <1>2, <1>3, <1>4, <1>5, <1>6, TypeParts DEF IInv

(* The inductive invariant holds in every reachable state. *)
THEOREM Invariance == Spec => []IInv
<1>1. IInv /\ [Next]_vars => IInv'
    <2> SUFFICES ASSUME IInv, [Next]_vars PROVE IInv'
        OBVIOUS
    <2>1. TypeOK' /\ BirthInv'
        BY TypeStep, BirthStep DEF IInv
    <2>2. ASSUME Usual
          PROVE  /\ StartInv' /\ MountInv' /\ SocketInv' /\ OwnInv' /\ CommandInv'
                 /\ StoppedIsGone' /\ RefusedStopKeepsServing'
        BY <2>2, StartStep, MountStep, SocketStep, OwnStep, CommandStep, StoppedStep,
           RefusedStep
           DEF IInv
    <2>3. QED BY <2>1, <2>2 DEF IInv, Usual
<1>2. QED BY InitInv, <1>1, PTL DEF Spec

(* Every variable keeps its type, a tool is only in a mount that is there,   *)
(* and no daemon mounts twice, whatever the modes and the timeouts.          *)
THEOREM TypeCorrect == Spec => []TypeOK
<1>1. IInv => TypeOK
    BY DEF IInv
<1>2. QED BY Invariance, <1>1, PTL

(* Among daemons that mount the Project on its default mount point and are   *)
(* waited for, no two recover or serve the Project at the same time, however *)
(* often daemons are started, stopped, signalled or killed.                  *)
THEOREM OneDaemonServes ==
    ASSUME Usual PROVE Spec => []OneServer
<1>1. IInv => OneServer
    <2> SUFFICES ASSUME IInv, NEW d \in Daemons, NEW e \in Daemons, Serves(d), Serves(e), d # e
                 PROVE  FALSE
        BY DEF OneServer
    <2>1. TypeOK /\ StartInv /\ MountInv
        BY DEF IInv
    <2>2. \A f, g \in Daemons : pc[f] = "open" => pc[g] # "open" \/ f = g
        BY <2>1 DEF StartInv, Starting
    <2>3. \A f, g \in Daemons : pc[f] = "open" => ~Reachable(g)
        BY <2>1 DEF StartInv, Starting, Unreachable
    <2>4. \A f, g \in Daemons : thread[g] = "loop" /\ (pc[f] = "open" \/ Reachable(f)) => f = g
        BY <2>1 DEF MountInv
    <2>5. \A f, g \in Daemons : thread[f] = "loop" /\ thread[g] = "loop" => f = g
        BY <2>1 DEF MountInv
    <2>6. \A f, g \in Daemons : Reachable(f) /\ Reachable(g) => f = g
        BY DEF Reachable
    <2>7. QED BY <2>2, <2>3, <2>4, <2>5, <2>6 DEF Serves
<1>2. QED BY Invariance, <1>1, PTL

(* Among such daemons, one that refused a stop because its mount is busy     *)
(* goes on answering and serving, unless a signal came or another daemon is  *)
(* on its exit path.                                                         *)
THEOREM RefusedStopsAreHarmless ==
    ASSUME Usual PROVE Spec => []RefusedStopKeepsServing
<1>1. IInv => RefusedStopKeepsServing
    BY DEF IInv
<1>2. QED BY Invariance, <1>1, PTL

(* Among such daemons, when a stop was reported as done nobody listens on    *)
(* the socket path and nobody serves the mount, until a daemon is started.   *)
THEOREM StopsAreComplete ==
    ASSUME Usual PROVE Spec => []StoppedIsGone
<1>1. IInv => StoppedIsGone
    BY DEF IInv
<1>2. QED BY Invariance, <1>1, PTL
=============================================================================
