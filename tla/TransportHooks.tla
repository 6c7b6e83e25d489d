--------------------------- MODULE TransportHooks ---------------------------
(***************************************************************************)
(* How packages that RACE hands to a node reach the tasks that wait for    *)
(* them: the queue of incoming packages and its task, which drops repeats; *)
(* the hooks; and the pool of packages that no hook matched, with the task *)
(* that tries them again.  common/transport/transport.py, deduplicate.py,  *)
(* rib/connection/CommsTransport.py.                                       *)
(*                                                                         *)
(* The tasks take turns: a task gives way only in hook.put, after the      *)
(* package is in the hook's channel, and between rounds of its loop.  Each *)
(* action is what a task does up to there.  hook_task gives way between    *)
(* packages too, which adds turns the code does not have.  Records of      *)
(* packages seen are kept for longer than copies take (msg_seen_ttl).      *)
(***************************************************************************)
EXTENDS Naturals, Sequences

CONSTANTS
    Hook, Package,
    Matches,        \* pairs <<h, p>> such that h.match(p)
    MaxCopies,      \* bound on the copies of a package that arrive
    None            \* no package

ASSUME HooksAssumption ==
    /\ Matches \subseteq Hook \X Package
    /\ MaxCopies \in Nat \ {0}
    /\ None \notin Package

VARIABLES
    network,                    \* copies of a package still to arrive
    incoming_package_queue,     \* what processEncPkg queued
    seen,                       \* packages package_task took for new
    hooks,                      \* the registered hooks, in their order
    status,                     \* a hook is new, scanning, registered or removed
    scan,                       \* packages a scanning hook has still to look at
    held,                       \* package it has put and will take from the pool
    message_pool,               \* packages that no hook has matched
    package_task, hook_task,    \* the check in progress, or Idle
    sweep,                      \* packages hook_task has still to look at
    put,                        \* how often a package was put to a hook
    dropped                     \* packages dropped from the pool as too old

registering == <<hooks, status, scan, held>>
vars == <<network, incoming_package_queue, seen, registering, message_pool,
          package_task, hook_task, sweep, put, dropped>>

----------------------------------------------------------------------------
(***************************************************************************)
(* _check_hooks walks over the list by position, while others change it.   *)
(***************************************************************************)

Idle == [pkg |-> None, next |-> 1, due |-> {}]

InList(h) == \E i \in 1..Len(hooks) : hooks[i] = h

\* Mutant: the walk starts behind the first hook.
mut_AheadSecond(check) ==
    {i \in (check.next + 1)..Len(hooks) : <<hooks[i], check.pkg>> \in Matches}

\* Positions from next on at which a hook matches.
Ahead(check) ==
    {i \in check.next..Len(hooks) : <<hooks[i], check.pkg>> \in Matches}

\* due notes who was registered and matched when the check began.
Begin(p) == [pkg |-> p, next |-> 1,
             due |-> {h \in Hook : InList(h) /\ <<h, p>> \in Matches}]

Put(h, p) == put' = [put EXCEPT ![h][p] = @ + 1]

\* The check goes on to the hook at position i, and waits there.
PutAt(check, i) ==
    /\ i \in Ahead(check) /\ \A j \in Ahead(check) : i <= j
    /\ Put(hooks[i], check.pkg)

After(check, i) == [check EXCEPT !.next = i + 1]

Without(list, h) ==
    LET at == CHOOSE i \in 1..Len(list) : list[i] = h
    IN  [i \in 1..(Len(list) - 1) |-> IF i < at THEN list[i] ELSE list[i + 1]]

----------------------------------------------------------------------------

Init ==
    /\ network = [p \in Package |-> MaxCopies]
    /\ incoming_package_queue = <<>>
    /\ seen = {}
    /\ hooks = <<>>
    /\ status = [h \in Hook |-> "new"]
    /\ scan = [h \in Hook |-> {}]
    /\ held = [h \in Hook |-> None]
    /\ message_pool = {}
    /\ package_task = Idle /\ hook_task = Idle
    /\ sweep = {}
    /\ put = [h \in Hook |-> [p \in Package |-> 0]]
    /\ dropped = {}

(***************************************************************************)
(* Packages arrive, on a thread of RACE's.                                 *)
(***************************************************************************)

\* Mutant: a copy is handed on without end.
mut_Unguarded(p) ==
    /\ incoming_package_queue = <<>>
    /\ network' = [network EXCEPT ![p] = @ - 1]
    /\ incoming_package_queue' = Append(incoming_package_queue, p)
    /\ UNCHANGED <<seen, registering, message_pool, package_task, hook_task,
                   sweep, put, dropped>>

processEncPkg(p) ==
    /\ network[p] > 0
    /\ network' = [network EXCEPT ![p] = @ - 1]
    /\ incoming_package_queue' = Append(incoming_package_queue, p)
    /\ UNCHANGED <<seen, registering, message_pool, package_task, hook_task,
                   sweep, put, dropped>>

\* A copy is lost on the way, corrupt, from before the start, or comes over a
\* connection that is not known (any more): an error for RACE, if anything.
refusePkg(p) ==
    /\ network[p] > 0
    /\ network' = [network EXCEPT ![p] = @ - 1]
    /\ UNCHANGED <<incoming_package_queue, seen, registering, message_pool,
                   package_task, hook_task, sweep, put, dropped>>

----------------------------------------------------------------------------
(***************************************************************************)
(* package_task, with submit_to_hooks.                                     *)
(***************************************************************************)

\* Mutant: nothing is remembered.
mut_NoMemory(p) == TRUE

is_msg_new(p) == p \notin seen

ReceiveOld ==
    /\ package_task = Idle /\ incoming_package_queue # <<>>
    /\ ~is_msg_new(Head(incoming_package_queue))
    /\ incoming_package_queue' = Tail(incoming_package_queue)
    /\ UNCHANGED <<network, seen, registering, message_pool, package_task,
                   hook_task, sweep, put, dropped>>

\* A new package is checked at once: it goes to the first hook that matches,
\* or into the pool.
ReceiveNew ==
    /\ package_task = Idle /\ incoming_package_queue # <<>>
    /\ LET p == Head(incoming_package_queue)
       IN  /\ is_msg_new(p)
           /\ seen' = seen \cup {p}
           /\ \/ /\ Ahead(Begin(p)) = {}
                 /\ message_pool' = message_pool \cup {p}
                 /\ UNCHANGED <<package_task, put>>
              \/ \E i \in 1..Len(hooks) :
                     /\ PutAt(Begin(p), i)
                     /\ package_task' = After(Begin(p), i)
                     /\ UNCHANGED message_pool
    /\ incoming_package_queue' = Tail(incoming_package_queue)
    /\ UNCHANGED <<network, registering, hook_task, sweep, dropped>>

\* Mutant: the package goes to the pool whether a hook matched or not.
mut_SubmitToPool ==
    /\ package_task # Idle
    /\ \/ /\ Ahead(package_task) = {}
          /\ package_task' = Idle
          /\ message_pool' = message_pool \cup {package_task.pkg}
          /\ UNCHANGED put
       \/ \E i \in 1..Len(hooks) :
              /\ PutAt(package_task, i)
              /\ package_task' = After(package_task, i)
              /\ UNCHANGED message_pool
    /\ UNCHANGED <<network, incoming_package_queue, seen, registering,
                   hook_task, sweep, dropped>>

\* The check goes on, and ends after the last hook.
SubmitOn ==
    /\ package_task # Idle
    /\ \/ /\ Ahead(package_task) = {}
          /\ package_task' = Idle
          /\ UNCHANGED put
       \/ \E i \in 1..Len(hooks) :
              /\ PutAt(package_task, i)
              /\ package_task' = After(package_task, i)
    /\ UNCHANGED <<network, incoming_package_queue, seen, registering,
                   message_pool, hook_task, sweep, dropped>>

----------------------------------------------------------------------------
(***************************************************************************)
(* _hook_task.                                                             *)
(***************************************************************************)

StartSweep ==
    /\ hook_task = Idle /\ sweep = {} /\ message_pool # {}
    /\ sweep' = message_pool
    /\ UNCHANGED <<network, incoming_package_queue, seen, registering,
                   message_pool, package_task, hook_task, put, dropped>>

\* Mutant: what no hook matches is taken out of the pool.
mut_SweepOut(p) ==
    /\ hook_task = Idle /\ p \in sweep
    /\ p \notin message_pool \/ Ahead(Begin(p)) = {}
    /\ sweep' = sweep \ {p}
    /\ message_pool' = message_pool \ {p}
    /\ UNCHANGED <<network, incoming_package_queue, seen, registering,
                   package_task, hook_task, put, dropped>>

\* Somebody has taken the package meanwhile, or no hook matches it still.
SweepPast(p) ==
    /\ hook_task = Idle /\ p \in sweep
    /\ p \notin message_pool \/ Ahead(Begin(p)) = {}
    /\ sweep' = sweep \ {p}
    /\ UNCHANGED <<network, incoming_package_queue, seen, registering,
                   message_pool, package_task, hook_task, put, dropped>>

\* dt_hold_package_sec have passed since the package came.
SweepOld(p) ==
    /\ hook_task = Idle /\ p \in sweep /\ p \in message_pool
    /\ sweep' = sweep \ {p}
    /\ message_pool' = message_pool \ {p}
    /\ dropped' = dropped \cup {p}
    /\ UNCHANGED <<network, incoming_package_queue, seen, registering,
                   package_task, hook_task, put>>

SweepPut(p) ==
    /\ hook_task = Idle /\ p \in sweep /\ p \in message_pool
    /\ \E i \in 1..Len(hooks) :
           /\ PutAt(Begin(p), i)
           /\ hook_task' = After(Begin(p), i)
    /\ UNCHANGED <<network, incoming_package_queue, seen, registering,
                   message_pool, package_task, sweep, dropped>>

SweepOn ==
    /\ hook_task # Idle
    /\ \/ /\ Ahead(hook_task) = {}
          /\ hook_task' = Idle
          /\ message_pool' = message_pool \ {hook_task.pkg}
          /\ sweep' = sweep \ {hook_task.pkg}
          /\ UNCHANGED put
       \/ \E i \in 1..Len(hooks) :
              /\ PutAt(hook_task, i)
              /\ hook_task' = After(hook_task, i)
              /\ UNCHANGED <<message_pool, sweep>>
    /\ UNCHANGED <<network, incoming_package_queue, seen, registering,
                   package_task, dropped>>

----------------------------------------------------------------------------
(***************************************************************************)
(* Tasks register hooks and remove them.                                   *)
(***************************************************************************)

\* The scan of a hook over the packages in rest, with pool the pool it finds:
\* it puts one that matches, or is at its end and the hook joins the list.
Scan(h, rest, pool) ==
    LET found == {p \in rest \cap pool : <<h, p>> \in Matches}
    IN  /\ message_pool' = pool
        /\ \/ /\ found = {}
              /\ hooks' = Append(hooks, h)
              /\ status' = [status EXCEPT ![h] = "registered"]
              /\ scan' = [scan EXCEPT ![h] = {}]
              /\ held' = [held EXCEPT ![h] = None]
              /\ UNCHANGED put
           \/ \E p \in found :
                  /\ Put(h, p)
                  /\ status' = [status EXCEPT ![h] = "scanning"]
                  /\ scan' = [scan EXCEPT ![h] = rest \ {p}]
                  /\ held' = [held EXCEPT ![h] = p]
                  /\ UNCHANGED hooks

register_hook(h) ==
    /\ status[h] = "new"
    /\ Scan(h, message_pool, message_pool)
    /\ UNCHANGED <<network, incoming_package_queue, seen, package_task,
                   hook_task, sweep, dropped>>

RegisterOn(h) ==
    /\ status[h] = "scanning"
    /\ Scan(h, scan[h], message_pool \ {held[h]})
    /\ UNCHANGED <<network, incoming_package_queue, seen, package_task,
                   hook_task, sweep, dropped>>

\* The task is cancelled while its hook scans: the next put raises.
CancelRegister(h) ==
    /\ status[h] = "scanning"
    /\ status' = [status EXCEPT ![h] = "removed"]
    /\ scan' = [scan EXCEPT ![h] = {}]
    /\ held' = [held EXCEPT ![h] = None]
    /\ message_pool' = message_pool \ {held[h]}
    /\ UNCHANGED <<network, incoming_package_queue, seen, hooks, package_task,
                   hook_task, sweep, put, dropped>>

remove_hook(h) ==
    /\ InList(h)
    /\ status' = [status EXCEPT ![h] = "removed"]
    /\ hooks' = Without(hooks, h)
    /\ UNCHANGED <<network, incoming_package_queue, seen, scan, held,
                   message_pool, package_task, hook_task, sweep, put, dropped>>

----------------------------------------------------------------------------

Next ==
    \/ \E p \in Package : processEncPkg(p) \/ refusePkg(p)
    \/ ReceiveOld \/ ReceiveNew \/ SubmitOn
    \/ StartSweep \/ SweepOn
    \/ \E p \in Package : SweepPast(p) \/ SweepOld(p) \/ SweepPut(p)
    \/ \E h \in Hook : register_hook(h) \/ RegisterOn(h) \/ CancelRegister(h)
                       \/ remove_hook(h)

Spec == Init /\ [][Next]_vars

\* The three tasks run as long as the node does, and so does a task that
\* registers a hook; the sweep takes up every package of a round.
Fairness ==
    /\ WF_vars(ReceiveOld) /\ WF_vars(ReceiveNew) /\ WF_vars(SubmitOn)
    /\ WF_vars(StartSweep) /\ WF_vars(SweepOn)
    /\ \A p \in Package : WF_vars(SweepPast(p) \/ SweepPut(p))
    /\ \A h \in Hook : WF_vars(RegisterOn(h))

FairSpec == Spec /\ Fairness

----------------------------------------------------------------------------
(***************************************************************************)
(* Properties.                                                             *)
(***************************************************************************)

Delivered(p) == \E h \in Hook : put[h][p] > 0
Waiting(p) == \/ p \in message_pool
              \/ \E i \in 1..Len(incoming_package_queue) :
                     incoming_package_queue[i] = p

\* The types of the variables.
TypeOK ==
    /\ network \in [Package -> 0..MaxCopies]
    /\ incoming_package_queue \in Seq(Package)
    /\ seen \subseteq Package /\ message_pool \subseteq Package
    /\ sweep \subseteq Package /\ dropped \subseteq Package
    /\ hooks \in Seq(Hook)
    /\ status \in [Hook -> {"new", "scanning", "registered", "removed"}]
    /\ scan \in [Hook -> SUBSET Package]
    /\ held \in [Hook -> Package \cup {None}]
    /\ \A check \in {package_task, hook_task} :
           check \in [pkg : Package \cup {None}, next : Nat, due : SUBSET Hook]
    /\ put \in [Hook -> [Package -> Nat]]

\* A package that was taken in reaches a hook, or is in the pool, or was
\* dropped there as too old: it does not get lost between the tasks, however
\* the scan of a hook, the sweep and the submission overlap, and whatever
\* hooks come and go meanwhile (submit_to_hooks, register_hook).
NothingVanishes ==
    \A p \in seen : Delivered(p) \/ p \in message_pool \/ p \in dropped

\* "Consumes the package": one that reached a hook does not stay in the pool
\* for hooks to come, once the tasks that put it are done with it.
PoolIsUndelivered ==
    \A p \in message_pool : Delivered(p) =>
        hook_task.pkg = p \/ \E h \in Hook : held[h] = p

\* A package that one hook matches is put to it once, by its own scan, by the
\* sweep or by the submission.  (One that two hooks match may reach a hook
\* twice: its scan puts the package and gives way, the sweep puts the package
\* to the other hook and gives way, the scan ends and the hook joins the list
\* that the sweep goes on with.)
OnceEach ==
    \A h \in Hook, p \in Package :
        put[h][p] > 1 => \E g \in Hook \ {h} : <<g, p>> \in Matches

\* A package that waits in the queue or in the pool while a hook that matches
\* it is registered is delivered, grows too old, or outlasts the hook.
WaitingIsDelivered ==
    \A h \in Hook, p \in Package :
        (<<h, p>> \in Matches /\ InList(h) /\ Waiting(p))
            ~> (Delivered(p) \/ p \in dropped \/ ~InList(h))

\* transport.py:270: "Submit incoming package to all registered hooks."
SubmittedToAll ==
    [][ package_task.pkg # None /\ package_task'.pkg = None
            => \A h \in package_task.due :
                   InList(h) => put[h][package_task.pkg] > 0 ]_vars

=============================================================================
