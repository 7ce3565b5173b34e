--------------------------- MODULE DaemonLifetime ---------------------------
(***************************************************************************)
(* Starting and stopping the daemon of one Project on Linux: the daemon's  *)
(* main, its mount thread and its control server, the `tribios daemon      *)
(* start | stop` commands of one user, and the tools that hold the mount.  *)
(* Nothing but the control socket and the mount point tells one daemon of  *)
(* another, so those two names are the shared state.                       *)
(*                                                                         *)
(* Time is abstracted to the order of events.  A wait that gives up may do *)
(* so at any time, except the two in Slow: unless Slow names them, the     *)
(* command waits until the daemon it started serves or ends, and the       *)
(* daemon waits until its mount thread mounted or failed.                  *)
(***************************************************************************)
EXTENDS Integers, Sequences, SequencesExt

CONSTANTS DefaultMount, \* the Project is mounted on .tribios/mnt; FALSE after configure --mount
          MaxDaemons, \* bound: daemon processes started
          Modes,      \* the values of `mount` in main: TRUE, and FALSE for --no-mount
          Slow,       \* the waits that may time out early: "start", "mount"
          MaxHolds,   \* bound: how often a tool enters the mount
          MaxIncidents, \* bound: signals, startup errors and sudden deaths together
          MaxRemoves  \* bound: Workspace removals, each starting a reclaimer

ASSUME LifetimeAssumption ==
    /\ DefaultMount \in BOOLEAN
    /\ Modes \subseteq BOOLEAN
    /\ Slow \subseteq {"start", "mount"}
    /\ {MaxDaemons, MaxHolds, MaxIncidents, MaxRemoves} \subseteq Nat

VARIABLES pc,       \* where main of each daemon is
          mounting, \* `mount` of each daemon
          thread,   \* its mount thread: run_project_mount
          running,  \* ControlServer::running_
          removals, \* the reclaimer threads it has running
          mounts,   \* the mounts stacked on the mount point, by the daemon behind each
          cached,   \* the kernel still answers stat for the mount of a dead daemon
          held,     \* a tool has its working directory or an open file in the mount
          socket,   \* the daemon whose socket the socket path names, 0 for none
          cli,      \* the command the user runs and where it is
          out,      \* what the last command reported
          used      \* how often each bounded event happened

vars == <<pc, mounting, thread, running, removals, mounts, cached, held, socket, cli, out, used>>
env == <<cached, cli, out, used>>
Daemons == 1 .. MaxDaemons   \* in the order they are started
None == 0

Starting == {"check", "clear", "open", "mount", "bind"}
Stopping == {"closing", "check_again", "unmount_again", "join", "reclaim", "remove_socket"}
Gone == {"exit", "dead"}
Phases == {"unborn"} \cup Starting \cup {"serve", "asked", "unmount"} \cup Stopping \cup Gone
Reports == {"none", "started", "running", "failed", "stopped", "busy"}
Incidents == {"signal", "fault", "crash"}

(* The counted event e may still happen, and does. *)
Spend(e) ==
    /\ CASE e = "hold" -> used.hold < MaxHolds
         [] e = "remove" -> used.remove < MaxRemoves
         [] OTHER -> used.signal + used.fault + used.crash < MaxIncidents
    /\ used' = [used EXCEPT ![e] = @ + 1]

(***************************************************************************)
(* External: the mount point.  fusermount3 -u takes away the topmost mount *)
(* unless a tool holds it, and the FUSE loop behind it then ends.  A mount *)
(* whose daemon died answers stat until the kernel's cache expires.        *)
(***************************************************************************)
Dead == mounts # <<>> /\ pc[Last(mounts)] = "dead"
mount_is_active == mounts # <<>> /\ (Dead => cached)

(* main's first check and the command's last one look at the default mount   *)
(* point, whatever the Project record says; the others look at the record's. *)
default_mount_is_active == DefaultMount /\ mount_is_active
Ended(d) == [thread EXCEPT ![d] = IF @ = "loop" THEN "ended" ELSE @]

(* A lazy unmount (fusermount3 -u -z) detaches the mount at once, and the    *)
(* daemon goes on serving the tree to whatever holds it.                     *)
MutLazyUnmount == mounts # <<>> /\ mounts' = Front(mounts) /\ UNCHANGED <<thread, held>>

(* unmount_project_view: removes the mount, or gives up: a mount that stays  *)
(* busy through the retry window, or one that another daemon has removed.    *)
unmount_project_view ==
    /\ mounts # <<>> /\ ~held
    /\ mounts' = Front(mounts)
    /\ thread' = Ended(Last(mounts))
    /\ UNCHANGED held
UnmountFails == (mounts = <<>> \/ held) /\ UNCHANGED <<mounts, thread, held>>

(* External: connect(2).  A request is answered by the daemon in its accept  *)
(* loop whose socket the path names.                                         *)
Accepts(d) == pc[d] \in {"serve", "asked", "unmount"}
Reachable(d) == socket = d /\ Accepts(d)
Listens(d) == socket = d /\ (Accepts(d) \/ pc[d] = "closing")
Unreachable == \A d \in Daemons : ~Reachable(d)

Goto(d, phase) == pc' = [pc EXCEPT ![d] = phase]

Init ==
    /\ pc = [d \in Daemons |-> "unborn"]
    /\ mounting = [d \in Daemons |-> FALSE]
    /\ thread = [d \in Daemons |-> "none"]
    /\ running = [d \in Daemons |-> TRUE]
    /\ removals = [d \in Daemons |-> 0]
    /\ mounts = <<>>
    /\ cached = FALSE
    /\ held = FALSE
    /\ socket = None
    /\ cli = [command |-> "none", daemon |-> None]
    /\ out = "none"
    /\ used = [e \in {"hold", "remove"} \cup Incidents |-> 0]
-----------------------------------------------------------------------------
(***************************************************************************)
(* The daemon: main.                                                       *)
(***************************************************************************)
uncounted == <<mounting, running, removals, cached, socket, cli, out>>
daemonOnly == <<uncounted, used>>

(* A mount that is already there is taken for stale. *)
check_stale_mount(d) ==
    /\ pc[d] = "check"
    /\ Goto(d, IF mounting[d] /\ default_mount_is_active THEN "clear" ELSE "open")
    /\ UNCHANGED <<thread, mounts, held, daemonOnly>>

clear_stale_mount(d) ==
    /\ pc[d] = "clear"
    /\ \/ unmount_project_view /\ Goto(d, "open")
       \/ UnmountFails /\ Goto(d, "exit")
    /\ UNCHANGED daemonOnly

(* Opens the storage, which recovers it or refuses to, and starts the mount  *)
(* thread.  Signal handlers are in place from here on.                       *)
open_configured_project(d) ==
    /\ pc[d] = "open"
    /\ \/ /\ Goto(d, IF mounting[d] THEN "mount" ELSE "bind")
          /\ thread' = [thread EXCEPT ![d] = IF mounting[d] THEN "mounting" ELSE "none"]
          /\ UNCHANGED used
       \/ Spend("fault") /\ Goto(d, "exit") /\ UNCHANGED thread
    /\ UNCHANGED <<mounts, held, uncounted>>

(* The mount thread: mounts, over a live mount too, and loops; or fails, as  *)
(* it must on the mount of a dead daemon or without /dev/fuse.               *)
run_project_mount(d) ==
    /\ thread[d] = "mounting"
    /\ \/ /\ ~Dead /\ mounts' = Append(mounts, d)
          /\ thread' = [thread EXCEPT ![d] = "loop"] /\ UNCHANGED used
       \/ /\ IF Dead THEN UNCHANGED used ELSE Spend("fault")
          /\ thread' = [thread EXCEPT ![d] = "ended"] /\ UNCHANGED mounts
    /\ UNCHANGED <<pc, held, uncounted>>

(* Any active mount ends the wait. *)
wait_for_mount(d) ==
    /\ pc[d] = "mount"
    /\ mount_is_active \/ thread[d] = "ended" \/ "mount" \in Slow
    /\ Goto(d, "bind")
    /\ UNCHANGED <<thread, mounts, held, daemonOnly>>

(* ControlServer::serve up to the accept loop: whatever the path named is    *)
(* unlinked.  A signal that came first leaves nothing to accept, and a       *)
(* socket that cannot be created or bound sends main to its exit path.       *)
serve(d) ==
    /\ pc[d] = "bind"
    /\ \/ /\ socket' = d /\ Goto(d, IF running[d] THEN "serve" ELSE "closing")
          /\ UNCHANGED used
       \/ Spend("fault") /\ socket' = None /\ Goto(d, "check_again")
    /\ UNCHANGED <<thread, mounts, cached, held, mounting, running, removals, cli, out>>

(* The shutdown verb unmounts before it agrees.  A refusal is the answer,    *)
(* and the accept loop goes on.                                              *)
Replies(report) ==
    IF report = "ok" THEN cli' = [cli EXCEPT !.command = "wait_closed"] /\ UNCHANGED out
                     ELSE cli' = [cli EXCEPT !.command = "none"] /\ out' = report

Agrees(d) ==
    /\ running' = [running EXCEPT ![d] = FALSE]
    /\ Goto(d, "closing")
    /\ Replies("ok")

dispatch_shutdown(d) ==
    /\ pc[d] = "asked"
    /\ \/ ~(mounting[d] /\ mount_is_active) /\ Agrees(d)
       \/ /\ mounting[d] /\ mount_is_active
          /\ Goto(d, "unmount") /\ UNCHANGED <<running, cli, out>>
    /\ UNCHANGED <<thread, mounts, cached, held, mounting, removals, socket, used>>

(* The order before ADR 0011: stop serving, and only then try to unmount. *)
MutStopsFirst(d) ==
    /\ pc[d] = "unmount"
    /\ \/ unmount_project_view /\ Agrees(d)
       \/ /\ UnmountFails /\ Replies(IF held THEN "busy" ELSE "failed") /\ Goto(d, "closing")
          /\ running' = [running EXCEPT ![d] = FALSE]
    /\ UNCHANGED <<mounting, removals, cached, socket, used>>

shutdown_unmount(d) ==
    /\ pc[d] = "unmount"
    /\ \/ unmount_project_view /\ Agrees(d)
       \/ /\ UnmountFails /\ Replies(IF held THEN "busy" ELSE "failed")
          /\ Goto(d, IF running[d] THEN "serve" ELSE "closing") /\ UNCHANGED running
    /\ UNCHANGED <<mounting, removals, cached, socket, used>>

(* ControlServer::stop, run by the signal handler.  A request that is being  *)
(* dispatched is answered first.                                             *)
stop_daemon_on_signal(d) ==
    /\ pc[d] \in {"mount", "bind", "serve", "asked", "unmount"} \cup Stopping
    /\ Spend("signal")
    /\ running' = [running EXCEPT ![d] = FALSE]
    /\ pc' = [pc EXCEPT ![d] = IF @ = "serve" THEN "closing" ELSE @]
    /\ UNCHANGED <<thread, mounts, cached, held, mounting, removals, socket, cli, out>>

(* The accept loop has ended: close the listening socket.  The path stays. *)
close_listener(d) ==
    /\ pc[d] = "closing"
    /\ Goto(d, "check_again")
    /\ UNCHANGED <<thread, mounts, held, daemonOnly>>

(* main's loop after serve returns: as long as there is a mount, remove it.  *)
release_mount(d) ==
    /\ pc[d] = "check_again"
    /\ Goto(d, IF mounting[d] /\ mount_is_active THEN "unmount_again" ELSE "join")
    /\ UNCHANGED <<thread, mounts, held, daemonOnly>>

(* One attempt, and then wait for a FUSE loop that may never end. *)
MutUnmountsOnce(d) ==
    /\ pc[d] = "unmount_again"
    /\ unmount_project_view \/ UnmountFails
    /\ Goto(d, "join")
    /\ UNCHANGED daemonOnly

retry_unmount(d) ==
    /\ pc[d] = "unmount_again"
    /\ \/ unmount_project_view /\ Goto(d, "join")
       \/ UnmountFails /\ Goto(d, "check_again")
    /\ UNCHANGED daemonOnly

join_mount_thread(d) ==
    /\ pc[d] = "join" /\ thread[d] \in {"none", "ended"}
    /\ Goto(d, "reclaim")
    /\ UNCHANGED <<thread, mounts, held, daemonOnly>>

wait_for_reclamation(d) ==
    /\ pc[d] = "reclaim" /\ removals[d] = 0
    /\ Goto(d, "remove_socket")
    /\ UNCHANGED <<thread, mounts, held, daemonOnly>>

(* Unlinks the path, whichever daemon's socket it names by now. *)
remove_socket(d) ==
    /\ pc[d] = "remove_socket"
    /\ socket' = None
    /\ Goto(d, "exit")
    /\ UNCHANGED <<thread, mounts, held, mounting, running, removals, env>>

(* A removal answers at once; its reclaimer runs on. *)
remove_workspace(d) ==
    /\ pc[d] = "serve" /\ Reachable(d)
    /\ Spend("remove")
    /\ removals' = [removals EXCEPT ![d] = @ + 1]
    /\ UNCHANGED <<pc, thread, mounts, cached, held, mounting, running, socket, cli, out>>

reclaimer_ends(d) ==
    /\ removals[d] > 0 /\ pc[d] # "dead"
    /\ removals' = [removals EXCEPT ![d] = @ - 1]
    /\ UNCHANGED <<pc, thread, mounts, held, mounting, running, socket, env>>

(* The process dies with its threads; the socket path and the mount remain,  *)
(* and a command that waits for its answer gets none.                        *)
Crash(d) ==
    /\ pc[d] \notin {"unborn"} \cup Gone
    /\ Spend("crash")
    /\ Goto(d, "dead")
    /\ thread' = [thread EXCEPT ![d] = IF @ = "none" THEN @ ELSE "ended"]
    /\ removals' = [removals EXCEPT ![d] = 0]
    /\ out' = IF pc[d] \in {"asked", "unmount"} THEN "failed" ELSE "none"
    /\ cli' = IF pc[d] \in {"asked", "unmount"} THEN [cli EXCEPT !.command = "none"] ELSE cli
    /\ cached' = (cached \/ (mounts # <<>> /\ Last(mounts) = d))
    /\ UNCHANGED <<mounts, held, mounting, running, socket>>
-----------------------------------------------------------------------------
(***************************************************************************)
(* The command line, and the tools in the mount.                           *)
(***************************************************************************)
cliOnly == <<thread, mounts, cached, held, running, removals, socket, used>>

Report(report) == cli' = [cli EXCEPT !.command = "none"] /\ out' = report

(* daemon start: nothing is done when a daemon answers; otherwise spawn one. *)
command_start ==
    /\ cli.command = "none"
    /\ \/ /\ ~Unreachable /\ Report("running") /\ UNCHANGED <<pc, mounting>>
       \/ /\ Unreachable
          /\ \E d \in Daemons, mode \in Modes :
              /\ pc[d] = "unborn" /\ \A e \in 1 .. d - 1 : pc[e] # "unborn"
              /\ Goto(d, "check")
              /\ mounting' = [mounting EXCEPT ![d] = mode]
              /\ cli' = [command |-> "wait_started", daemon |-> d]
              /\ out' = "none"
    /\ UNCHANGED cliOnly

wait_for_socket ==
    /\ cli.command = "wait_started"
    /\ \/ ~Unreachable /\ Report("started")
       \/ /\ Unreachable /\ (pc[cli.daemon] \notin Starting \/ "start" \in Slow)
          /\ Report("failed")
    /\ UNCHANGED <<pc, mounting, cliOnly>>

(* daemon stop: the request, and then two waits. *)
command_stop ==
    /\ cli.command = "none"
    /\ \/ \E d \in Daemons :
            /\ Reachable(d) /\ pc[d] = "serve"
            /\ Goto(d, "asked")
            /\ cli' = [command |-> "wait_reply", daemon |-> d]
            /\ out' = "none"
       \/ Unreachable /\ Report("failed") /\ UNCHANGED pc
    /\ UNCHANGED <<mounting, cliOnly>>

(* Believe the reply. *)
MutBelievesReply ==
    /\ cli.command = "wait_closed"
    /\ cli' = [cli EXCEPT !.command = "wait_unmounted"]
    /\ UNCHANGED <<pc, mounting, out, cliOnly>>

(* A connection made while the listener is closing is reset with it. *)
wait_for_socket_to_close ==
    /\ cli.command = "wait_closed"
    /\ \/ /\ \A d \in Daemons : ~Listens(d)
          /\ cli' = [cli EXCEPT !.command = "wait_unmounted"] /\ UNCHANGED out
       \/ ~Unreachable /\ Report("failed")
    /\ UNCHANGED <<pc, mounting, cliOnly>>

wait_for_mount_to_close ==
    /\ cli.command = "wait_unmounted"
    /\ \/ ~default_mount_is_active /\ Report("stopped")
       \/ default_mount_is_active /\ Report("failed")
    /\ UNCHANGED <<pc, mounting, cliOnly>>

tools == <<pc, mounting, thread, running, removals, mounts, cached, socket, cli, out>>

(* A tool enters a mount some daemon serves, and leaves it. *)
Hold ==
    /\ mounts # <<>> /\ ~Dead /\ ~held
    /\ Spend("hold")
    /\ held' = TRUE
    /\ UNCHANGED tools

Release == held /\ held' = FALSE /\ UNCHANGED <<tools, used>>

(* The attributes the kernel cached for the mount of a dead daemon expire. *)
Expire ==
    /\ cached /\ cached' = FALSE
    /\ UNCHANGED <<pc, mounting, thread, running, removals, mounts, held, socket, cli, out, used>>

DaemonStep(d) ==
    \/ check_stale_mount(d) \/ clear_stale_mount(d) \/ open_configured_project(d)
    \/ wait_for_mount(d) \/ serve(d) \/ dispatch_shutdown(d) \/ shutdown_unmount(d)
    \/ close_listener(d) \/ release_mount(d) \/ retry_unmount(d)
    \/ join_mount_thread(d) \/ wait_for_reclamation(d) \/ remove_socket(d)

CliStep == wait_for_socket \/ wait_for_socket_to_close \/ wait_for_mount_to_close

Next ==
    \/ \E d \in Daemons :
        \/ DaemonStep(d) \/ run_project_mount(d) \/ reclaimer_ends(d)
        \/ stop_daemon_on_signal(d) \/ remove_workspace(d) \/ Crash(d)
    \/ command_start \/ command_stop \/ CliStep
    \/ Hold \/ Release \/ Expire

Spec == Init /\ [][Next]_vars

(***************************************************************************)
(* Fairness: every thread and every command keeps running, and a tool that *)
(* holds the mount leaves it in the end.  Users need not run commands, and *)
(* nothing is sent, removed or killed unless somebody does it.             *)
(***************************************************************************)
Fairness ==
    /\ \A d \in Daemons :
        /\ WF_vars(DaemonStep(d))
        /\ WF_vars(run_project_mount(d))
        /\ WF_vars(reclaimer_ends(d))
    /\ WF_vars(CliStep)
    /\ WF_vars(Release)

FairSpec == Spec /\ Fairness
-----------------------------------------------------------------------------
(***************************************************************************)
(* Properties.                                                             *)
(***************************************************************************)

(* Every variable has its type, a tool can only be in a mount that is there, *)
(* and a daemon has mounted at most once.                                    *)
TypeOK ==
    /\ pc \in [Daemons -> Phases]
    /\ mounting \in [Daemons -> BOOLEAN]
    /\ thread \in [Daemons -> {"none", "mounting", "loop", "ended"}]
    /\ running \in [Daemons -> BOOLEAN]
    /\ removals \in [Daemons -> 0 .. MaxRemoves]
    /\ mounts \in Seq(Daemons) /\ IsInjective(mounts)
    /\ cached \in BOOLEAN
    /\ held \in BOOLEAN /\ (held => mounts # <<>>)
    /\ socket \in Daemons \cup {None}
    /\ cli \in [command : {"none", "wait_started", "wait_reply", "wait_closed", "wait_unmounted"},
                daemon : Daemons \cup {None}]
    /\ out \in Reports
    /\ used \in [{"hold", "remove"} \cup Incidents -> Nat]

(* A daemon that recovers the storage, or that takes requests through the    *)
(* control socket or the mount, and so may change it.                        *)
Serves(d) == pc[d] = "open" \/ Reachable(d) \/ thread[d] = "loop"

(* Two daemons never serve one Project at a time, though nothing forbids     *)
(* starting a second one: it cannot get past a mount that is in use, and     *)
(* main gives up the mount before it ends (main.cpp:95-101, 142-147,         *)
(* ADR 0011).  Reclaimers, which outlive the mount, are not counted.  A      *)
(* Project whose mount point was configured is set aside: main's check looks *)
(* at the default one, and lets a second daemon in on the exit path of the   *)
(* first.                                                                    *)
OneServer == DefaultMount => \A d, e \in Daemons : Serves(d) /\ Serves(e) => d = e

(* After a stop that was refused because the mount is busy, the daemon still *)
(* answers on its socket and still serves its mount, so that the stop can be *)
(* retried (control_server.cpp:246-254), unless somebody sent a signal.      *)
(* That is so of a daemon that is alone: one that is still on its exit path  *)
(* releases whatever mount and socket it finds.  It is so of the default     *)
(* mount point: on a configured one a dead daemon's mount is still there     *)
(* when the next one starts, and can be what makes the stop busy.            *)
Alone(d) == \A e \in Daemons \ {d} : pc[e] \in {"unborn", "dead"}
RefusedStopKeepsServing ==
    \A d \in Daemons :
        DefaultMount /\ out = "busy" /\ used.signal = 0 /\ cli.daemon = d /\ Alone(d) =>
            Reachable(d) /\ thread[d] = "loop" /\ mounts = <<d>>

(* When the command has reported "stopped", no daemon listens on the socket  *)
(* path and none serves the mount (cli/main.cpp:285-294).  Of a mount point  *)
(* that was configured the command knows nothing: it waits for the default.  *)
StoppedIsGone ==
    out = "stopped" =>
        \A d \in Daemons : ~Listens(d) /\ (DefaultMount => thread[d] # "loop")

(* A daemon that was told to stop, by a signal or by a request it agreed to, *)
(* ends, however often its mount was busy in between (main.cpp:142-153).  On *)
(* a configured mount point a second daemon may mount over it, and then its  *)
(* loop takes away the mount of the other one and waits for its own forever. *)
ToldToStopEnds == \A d \in Daemons : DefaultMount /\ ~running[d] ~> pc[d] \in Gone
=============================================================================
