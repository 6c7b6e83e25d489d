--------------------------- MODULE EpochLifecycle ---------------------------
(***************************************************************************)
(* The epochs of one server: prism/server/newserver.py and                 *)
(* prism/server/epoch/.                                                    *)
(*                                                                         *)
(* An operator moves the network from epoch to epoch with commands (NEW,   *)
(* NEXT, OFF, FLOOD_EPOCH).  A server queues them and its main loop obeys  *)
(* one at a time; what they start (making a link for the ARK of a new      *)
(* epoch, loading the links of a saved one, serving) goes on in tasks.     *)
(* A server that crashes, or that an exception ends, misses commands and   *)
(* restarts in the epoch its file names.                                   *)
(*                                                                         *)
(* Epochs are numbered in the order in which the operator creates them.    *)
(***************************************************************************)
EXTENDS Integers, Sequences

CONSTANTS
    LastEpoch,   \* bound: the operator creates the epochs 1..LastEpoch
    MaxQueued,   \* bound on the commands that wait
    MaxStops,    \* bound on OFF commands
    MaxFloods,   \* bound on FLOOD_EPOCH commands
    MaxCrashes   \* bound on crashes and links that cannot be made

ASSUME BoundsAssumption ==
    {LastEpoch, MaxQueued, MaxStops, MaxFloods, MaxCrashes} \subseteq Nat

Genesis == 0
Epoch == Genesis .. LastEpoch
NoEpoch == -1
NoKey == 0

VARIABLES
    process,   \* "up", "down", or the exception that ended the server
    current,   \* current_epoch
    epochs,    \* the Epoch objects in memory
    keys,      \* the number of private keys generated so far
    disk,      \* the state store: current-epoch, saved-epoch and router-ls
    queue,     \* epoch_command_queue
    operator,  \* where the network is, as the operator sees it
    announced, \* the keys in the ARKs given to a router to flood, per epoch
    told,      \* history: epochs for which the server obeyed an OFF
    torn,      \* history: a crash came between the two saves of run
    late,      \* history: an epoch was saved as current after a newer one
    newest,    \* history: the newest epoch the server has served
    crashes    \* crashes and failed links so far

vars == <<process, current, epochs, keys, disk, queue, operator, announced,
          told, torn, late, newest, crashes>>
history == <<told, torn, late, newest, crashes>>

State == {"unknown", "PRE_RUN", "RUNNING", "HANDOFF", "OFF"}

(***************************************************************************)
(* An Epoch object: its state; its previous epoch; whether pre_run still   *)
(* makes the link ("linking") or has made the epoch ARK; how far run has   *)
(* come ("loading" in the run of SavedEpoch and GenesisEpoch, "ready" once *)
(* Epoch.run is scheduled, "serving" while run_scope is set); its private  *)
(* key.                                                                    *)
(***************************************************************************)
Object == [state: State, previous: Epoch \union {NoEpoch},
           ark: {"none", "linking", "made"},
           run: {"none", "loading", "ready", "serving", "ended"}, key: Nat]

Nothing == [e \in Epoch |-> [state |-> "unknown", previous |-> NoEpoch,
                             ark |-> "none", run |-> "none", key |-> NoKey]]

\* The epochs in the dictionary of the server.
known == {e \in Epoch : epochs[e].state # "unknown"}

isSaved(e) == disk.saved[e] # NoKey

-----------------------------------------------------------------------------
\* Mutant: a saved epoch gets a new private key.
mut_NewKey(e) ==
    [state |-> "RUNNING", previous |-> NoEpoch, ark |-> "none", run |-> "loading",
     key |-> keys + 1]

\* A saved epoch comes back RUNNING, with its key, and knows no previous epoch.
SavedEpoch(e) ==
    [state |-> "RUNNING", previous |-> NoEpoch, ark |-> "none", run |-> "loading",
     key |-> disk.saved[e]]

\* Genesis is RUNNING from the start.
GenesisEpoch(prev) ==
    [state |-> "RUNNING", previous |-> prev, ark |-> "none", run |-> "loading",
     key |-> keys + 1]

\* Any other epoch starts in PRE_RUN, whose first step is to make a link.
VRFEpoch(prev) ==
    [state |-> "PRE_RUN", previous |-> prev, ark |-> "linking", run |-> "none",
     key |-> keys + 1]

from_seed(e, prev) ==
    IF isSaved(e) THEN SavedEpoch(e)
    ELSE IF e = Genesis THEN GenesisEpoch(prev)
    ELSE VRFEpoch(prev)

\* launch_epoch, which adds the epoch to those in memory and starts it.
launch_epoch(e, prev, others) ==
    /\ current' = e
    /\ epochs' = [others EXCEPT ![e] = from_seed(e, prev)]
    /\ keys' = IF isSaved(e) THEN keys ELSE keys + 1

\* What is in memory goes with the process.
LoseMemory ==
    /\ current' = NoEpoch
    /\ epochs' = Nothing
    /\ queue' = << >>

\* An exception reaches main, which raises it again after a last log message.
Fail(cause) ==
    /\ process' = cause
    /\ LoseMemory

Init ==
    /\ process = "down"
    /\ current = NoEpoch
    /\ epochs = Nothing
    /\ keys = 0
    /\ disk = [current |-> Genesis, saved |-> [e \in Epoch |-> NoKey],
               router |-> [e \in Epoch |-> FALSE]]
    /\ queue = << >>
    /\ operator = [issued |-> Genesis, phase |-> "idle", running |-> Genesis,
                   stops |-> 0, floods |-> 0]
    /\ announced = [e \in Epoch |-> {}]
    /\ told = {}
    /\ torn = FALSE
    /\ late = FALSE
    /\ newest = Genesis
    /\ crashes = 0

\* main_loop starts with the epoch of current-epoch; without that file, Genesis.
Restart ==
    /\ process # "up"
    /\ process' = "up"
    /\ launch_epoch(disk.current, NoEpoch, Nothing)
    /\ UNCHANGED <<disk, queue, operator, announced, history>>

-----------------------------------------------------------------------------
(***************************************************************************)
(* The operator.  NEW and NEXT alternate: the operator waits for the ARKs  *)
(* of a new epoch before the next command.  OFF is for an epoch that is    *)
(* not the one the network runs.  A server that is not up misses commands. *)
(***************************************************************************)
send(order) ==
    IF process = "up"
    THEN Len(queue) < MaxQueued /\ queue' = Append(queue, order)
    ELSE UNCHANGED queue

IssueNew ==
    /\ operator.phase = "idle"
    /\ operator.issued < LastEpoch
    /\ send([type |-> "NEW", epoch |-> operator.issued + 1])
    /\ operator' = [operator EXCEPT !.issued = @ + 1, !.phase = "new"]
    /\ UNCHANGED <<process, current, epochs, keys, disk, announced, history>>

IssueNext ==
    /\ operator.phase = "new"
    /\ send([type |-> "NEXT", epoch |-> NoEpoch])
    /\ operator' = [operator EXCEPT !.phase = "idle", !.running = operator.issued]
    /\ UNCHANGED <<process, current, epochs, keys, disk, announced, history>>

IssueOff(e) ==
    /\ operator.stops < MaxStops
    /\ e <= operator.issued
    /\ e # operator.running
    /\ send([type |-> "OFF", epoch |-> e])
    /\ operator' = [operator EXCEPT !.stops = @ + 1]
    /\ UNCHANGED <<process, current, epochs, keys, disk, announced, history>>

IssueFlood ==
    /\ operator.phase = "new"
    /\ operator.floods < MaxFloods
    /\ send([type |-> "FLOOD_EPOCH", epoch |-> NoEpoch])
    /\ operator' = [operator EXCEPT !.floods = @ + 1]
    /\ UNCHANGED <<process, current, epochs, keys, disk, announced, history>>

-----------------------------------------------------------------------------
(***************************************************************************)
(* main_loop: one command, then a sleep in which scheduled tasks start, so *)
(* that no run is still to be started when the next command is read.       *)
(***************************************************************************)
command(type) ==
    /\ process = "up"
    /\ queue # << >>
    /\ Head(queue).type = type
    /\ \A e \in Epoch : epochs[e].run # "ready"

New ==
    /\ command("NEW")
    /\ launch_epoch(Head(queue).epoch, current, epochs)
    /\ queue' = Tail(queue)
    /\ UNCHANGED <<process, disk, operator, announced, history>>

\* Epoch.shutdown cancels run_scope, if there is one.
shutdown(object) ==
    [object EXCEPT !.run = IF @ = "serving" THEN "ended" ELSE @]

\* Epoch.next_state
next_state(object) ==
    CASE object.state = "PRE_RUN" -> [object EXCEPT !.state = "RUNNING", !.run = "ready"]
      [] object.state = "RUNNING" -> [object EXCEPT !.state = "HANDOFF"]
      [] object.state = "HANDOFF" -> [shutdown(object) EXCEPT !.state = "OFF"]
      [] OTHER -> object

\* Mutant: NEXT advances the current epoch only.
mut_AdvanceCurrent ==
    /\ command("NEXT")
    /\ epochs' = [epochs EXCEPT ![current] = next_state(@)]
    /\ queue' = Tail(queue)
    /\ UNCHANGED <<process, current, keys, disk, operator, announced, history>>

\* NEXT names no epoch and advances all that are not OFF.
Advance ==
    /\ command("NEXT")
    /\ epochs' = [e \in Epoch |-> next_state(epochs[e])]
    /\ queue' = Tail(queue)
    /\ UNCHANGED <<process, current, keys, disk, operator, announced, history>>

\* OFF names an epoch.  The lookup of one the server does not know raises.
Off ==
    /\ command("OFF")
    /\ LET e == Head(queue).epoch IN
       IF e \in known
       THEN /\ epochs' = [epochs EXCEPT ![e] = shutdown(@)]
            /\ told' = told \union {e}
            /\ queue' = Tail(queue)
            /\ UNCHANGED <<process, current>>
       ELSE Fail("unknown epoch") /\ UNCHANGED told
    /\ UNCHANGED <<keys, disk, operator, announced, torn, late, newest, crashes>>

\* Epoch.flood_ark of the previous epoch, for all epochs of a set.
flood_ark(es) ==
    announced' = [e \in Epoch |-> IF e \in es THEN announced[e] \union {epochs[e].key}
                                              ELSE announced[e]]

\* FLOOD_EPOCH; EARKStore.initiate asserts that there is an ARK to flood.
FloodEpoch ==
    /\ command("FLOOD_EPOCH")
    /\ LET targets == {e \in known : epochs[e].state = "PRE_RUN"
                                     /\ epochs[e].previous # NoEpoch} IN
       IF \A e \in targets : epochs[e].ark = "made"
       THEN /\ flood_ark(targets)
            /\ queue' = Tail(queue)
            /\ UNCHANGED <<process, current, epochs>>
       ELSE /\ Fail("no ARK")
            /\ \E done \in SUBSET {e \in targets : epochs[e].ark = "made"} : flood_ark(done)
    /\ UNCHANGED <<keys, disk, operator, history>>

-----------------------------------------------------------------------------
(***************************************************************************)
(* pre_run makes the link on which servers of the epoch are asked for      *)
(* links, and the ARK that gives its address; the previous epoch floods it.*)
(* shutdown does not stop this task.                                       *)
(***************************************************************************)
PreRun(e) ==
    /\ epochs[e].ark = "linking"
    /\ epochs' = [epochs EXCEPT ![e].ark = "made"]
    /\ flood_ark(IF epochs[e].previous = NoEpoch THEN {} ELSE {e})
    /\ UNCHANGED <<process, current, keys, disk, queue, operator, history>>

\* create_link returns None, and make_epoch_ark asks None for its address.
NoLink(e) ==
    /\ epochs[e].ark = "linking"
    /\ crashes < MaxCrashes
    /\ Fail("no link")
    /\ crashes' = crashes + 1
    /\ UNCHANGED <<keys, disk, operator, announced, told, torn, late, newest>>

\* SavedEpoch.run loads the state of its router; if there is none, load_state
\* logs a warning and then fails.
LoadFails(e) ==
    /\ epochs[e].run = "loading"
    /\ isSaved(e)
    /\ ~disk.router[e]
    /\ Fail("no router state")
    /\ UNCHANGED <<keys, disk, operator, announced, history>>

\* Mutant: SavedEpoch.run does not go on to Epoch.run.
mut_LoadedOnly(e) ==
    \/ epochs[e].run = "ready"
    \/ epochs[e].run = "loading" /\ ~isSaved(e)

\* The links of a saved epoch or of Genesis are loaded, or there are none to load.
isLoaded(e) ==
    \/ epochs[e].run = "ready"
    \/ epochs[e].run = "loading" /\ (isSaved(e) => disk.router[e])

\* Mutant: run names the previous epoch in current-epoch.
mut_ServePrevious(e) ==
    /\ isLoaded(e)
    /\ disk' = [disk EXCEPT !.current = epochs[e].previous, !.saved[e] = epochs[e].key]
    /\ epochs' = [epochs EXCEPT ![e].run = "serving"]
    /\ late' = (late \/ e < newest)
    /\ newest' = IF e > newest THEN e ELSE newest
    /\ UNCHANGED <<process, current, keys, queue, operator, announced, told, torn, crashes>>

\* Mutant: run saves the epoch and does not name it in current-epoch.
mut_ServeUnnamed(e) ==
    /\ isLoaded(e)
    /\ disk' = [disk EXCEPT !.saved[e] = epochs[e].key]
    /\ epochs' = [epochs EXCEPT ![e].run = "serving"]
    /\ late' = (late \/ e < newest)
    /\ newest' = IF e > newest THEN e ELSE newest
    /\ UNCHANGED <<process, current, keys, queue, operator, announced, told, torn, crashes>>

\* Epoch.run: save current-epoch, save saved-epoch, enter run_scope.
Serve(e) ==
    /\ isLoaded(e)
    /\ disk' = [disk EXCEPT !.current = e, !.saved[e] = epochs[e].key]
    /\ epochs' = [epochs EXCEPT ![e].run = "serving"]
    /\ late' = (late \/ e < newest)
    /\ newest' = IF e > newest THEN e ELSE newest
    /\ UNCHANGED <<process, current, keys, queue, operator, announced, told, torn, crashes>>

\* LinkStateRouter.maintenance_loop saves the state of one router now and then.
SaveRouter(e) ==
    /\ epochs[e].run = "serving"
    /\ disk' = [disk EXCEPT !.router[e] = TRUE]
    /\ UNCHANGED <<process, current, epochs, keys, queue, operator, announced, history>>

Crash ==
    /\ process = "up"
    /\ crashes < MaxCrashes
    /\ process' = "down"
    /\ LoseMemory
    /\ crashes' = crashes + 1
    /\ UNCHANGED <<keys, disk, operator, announced, told, torn, late, newest>>

\* A crash between the two saves of run.
CrashInSave(e) ==
    /\ isLoaded(e)
    /\ crashes < MaxCrashes
    /\ process' = "down"
    /\ LoseMemory
    /\ disk' = [disk EXCEPT !.current = e]
    /\ torn' = (torn \/ ~isSaved(e))
    /\ late' = (late \/ e < newest)
    /\ crashes' = crashes + 1
    /\ UNCHANGED <<keys, operator, announced, told, newest>>

Next ==
    \/ Restart \/ Crash
    \/ IssueNew \/ IssueNext \/ IssueFlood
    \/ New \/ Advance \/ Off \/ FloodEpoch
    \/ \E e \in Epoch : \/ IssueOff(e)
                        \/ PreRun(e) \/ NoLink(e)
                        \/ LoadFails(e) \/ Serve(e) \/ CrashInSave(e)
                        \/ SaveRouter(e)

\* Servers are started again, the main loop reads its queue and started tasks
\* go on; nothing says that a router saves before the server crashes.
Fairness ==
    /\ WF_vars(Restart)
    /\ WF_vars(New) /\ WF_vars(Advance) /\ WF_vars(Off) /\ WF_vars(FloodEpoch)
    /\ \A e \in Epoch : WF_vars(PreRun(e)) /\ WF_vars(Serve(e))

Spec == Init /\ [][Next]_vars
FairSpec == Spec /\ Fairness

-----------------------------------------------------------------------------
TypeOK ==
    /\ process \in {"up", "down", "unknown epoch", "no ARK", "no link", "no router state"}
    /\ current \in Epoch \union {NoEpoch}
    /\ epochs \in [Epoch -> Object]
    /\ keys \in Nat
    /\ disk \in [current: Epoch, saved: [Epoch -> Nat],
                 router: [Epoch -> BOOLEAN]]
    /\ queue \in Seq([type: {"NEW", "NEXT", "OFF", "FLOOD_EPOCH"},
                      epoch: Epoch \union {NoEpoch}])
    /\ operator \in [issued: Epoch, phase: {"idle", "new"}, running: Epoch,
                     stops: Nat, floods: Nat]
    /\ announced \in [Epoch -> SUBSET Nat]
    /\ told \subseteq Epoch
    /\ torn \in BOOLEAN /\ late \in BOOLEAN
    /\ newest \in Epoch
    /\ crashes \in Nat

\* The life cycles of the epochs of a server are staggered: it never prepares
\* two epochs at a time, nor runs two, nor hands two off, whatever commands it
\* missed and whatever it restarted in (next_state advances all epochs at once).
Staggered ==
    ~torn => \A s \in {"PRE_RUN", "RUNNING", "HANDOFF"} :
                \A e, f \in known : epochs[e].state = s /\ epochs[f].state = s => e = f

\* A server serves an epoch with the key that was flooded in its ARK, also
\* after restarts (the key is saved before run_scope is entered; an EARKStore
\* keeps the first ARK of a pseudonym, so that a second key would not be known).
KeysAsAnnounced ==
    \A e \in known : epochs[e].run = "serving" /\ ~torn => announced[e] \subseteq {epochs[e].key}

\* A server restarts in the newest epoch it has served, unless an older one
\* was still loading its links when that one started: run saves current-epoch
\* whenever it starts, and load_epoch reads it.
ResumesNewest ==
    [][process # "up" /\ process' = "up" => current' = newest \/ late \/ torn]_vars

\* A server that is not up serves again, whatever ended it, unless it crashed
\* in an epoch before its router had saved, or between the two saves of run.
Recovers ==
    process # "up" ~> \/ \E e \in Epoch : epochs[e].run = "serving"
                      \/ isSaved(disk.current) /\ ~disk.router[disk.current]
                      \/ torn

\* "Instructs the specified epoch to end immediately" (command.py:29): an epoch
\* for which a server has obeyed an OFF is not served any more.
EndsWhenTold == \A e \in told : epochs[e].run # "serving"

\* "Triggers immediate flooding of EARKs" (command.py:31): the command floods
\* the ARKs of new epochs, and does not end the server.
FloodsWhenTold == process # "no ARK"
=============================================================================
