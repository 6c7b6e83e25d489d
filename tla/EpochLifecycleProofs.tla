------------------------ MODULE EpochLifecycleProofs ------------------------
(***************************************************************************)
(* Theorems about EpochLifecycle, for any number of epochs, commands that  *)
(* wait, stops, floods and crashes.                                        *)
(*                                                                         *)
(* The argument: the commands that wait name epochs in the order of their  *)
(* creation, newer than all that the server has met, and a NEXT comes      *)
(* between two NEW.  So a NEW meets no epoch in PRE_RUN and brings one     *)
(* without a saved key; and NEXT moves all epochs on by one state, which   *)
(* keeps them apart.  A server that is not up has nothing in memory, and   *)
(* unless a crash tore the two saves of run apart, the epoch it restarts   *)
(* in has a saved key or is Genesis, which is never flooded.               *)
(***************************************************************************)
EXTENDS EpochLifecycle, SequenceTheorems, TLAPS

Order == [type: {"NEW", "NEXT", "OFF", "FLOOD_EPOCH"}, epoch: Epoch \union {NoEpoch}]

(* The server has met the epoch: it is in memory, on disk, or was flooded. *)
Met(e) == e \in known \/ isSaved(e) \/ disk.current = e \/ announced[e] # {}

(* What is in memory goes with the process.                                *)
DownIsEmpty == process # "up" => epochs = Nothing /\ queue = << >>

(* What runs, or makes a link, is known; what is known has a key.          *)
KnownHasKey ==
    \A e \in Epoch :
        /\ epochs[e].run # "none" \/ epochs[e].ark # "none" => e \in known
        /\ e \in known => epochs[e].key # NoKey

(* NEW names epochs that the operator has created and the server has not   *)
(* met, in their order.                                                    *)
NewIsNew ==
    /\ \A e \in Epoch : Met(e) => e <= operator.issued
    /\ \A i \in 1..Len(queue) : queue[i].type = "NEW" =>
           /\ queue[i].epoch \in Epoch /\ queue[i].epoch <= operator.issued
           /\ \A e \in Epoch : Met(e) => e < queue[i].epoch
           /\ \A j \in 1..Len(queue) :
                  j < i /\ queue[j].type = "NEW" => queue[j].epoch < queue[i].epoch

Preparing == \E e \in known : epochs[e].state = "PRE_RUN"

(* A NEXT waits before each NEW that follows another, or comes while an    *)
(* epoch is in PRE_RUN.                                                    *)
NextBetween ==
    /\ \A i, j \in 1..Len(queue) :
           j < i /\ queue[j].type = "NEW" /\ queue[i].type = "NEW" =>
               \E k \in 1..Len(queue) : j < k /\ k < i /\ queue[k].type = "NEXT"
    /\ \A j \in 1..Len(queue) :
           operator.phase = "idle" /\ queue[j].type = "NEW" =>
               \E k \in 1..Len(queue) : j < k /\ queue[k].type = "NEXT"
    /\ ~torn /\ Preparing =>
           /\ \A i \in 1..Len(queue) : queue[i].type = "NEW" =>
                  \E k \in 1..Len(queue) : k < i /\ queue[k].type = "NEXT"
           /\ operator.phase = "idle" =>
                  \E k \in 1..Len(queue) : queue[k].type = "NEXT"

(* The epoch to restart in has a key on disk, or is Genesis.               *)
CurrentIsSaved == ~torn => disk.current = Genesis \/ isSaved(disk.current)

(* Genesis needs no link, and nobody floods its ARK.                       *)
GenesisIsQuiet ==
    /\ announced[Genesis] = {}
    /\ epochs[Genesis].ark = "none" /\ epochs[Genesis].state # "PRE_RUN"

(* The keys in memory, on disk and in the ARKs agree.                      *)
KeysAgree ==
    ~torn => \A e \in Epoch :
        /\ e \in known => announced[e] \subseteq {epochs[e].key}
        /\ isSaved(e) => announced[e] \subseteq {disk.saved[e]}
        /\ e \in known /\ isSaved(e) => disk.saved[e] = epochs[e].key

(* The file names the newest epoch that served.                            *)
FileIsNewest ==
    /\ \A e \in Epoch : isSaved(e) => e <= newest
    /\ ~torn /\ ~late => disk.current = newest

-----------------------------------------------------------------------------
(***************************************************************************)
(* Type correctness.                                                       *)
(***************************************************************************)

LEMMA EpochNumbers ==
    /\ Epoch \subseteq Int /\ Genesis \in Epoch /\ NoEpoch \notin Epoch
    /\ \A e \in Epoch : Genesis <= e
  BY BoundsAssumption DEF Epoch, Genesis, NoEpoch

LEMMA NothingType ==
    /\ Nothing \in [Epoch -> Object]
    /\ \A e \in Epoch : Nothing[e] = [state |-> "unknown", previous |-> NoEpoch,
                                      ark |-> "none", run |-> "none", key |-> NoKey]
  BY DEF Nothing, Object, State, NoKey

LEMMA SeedType ==
    ASSUME TypeOK, NEW e \in Epoch, NEW prev \in Epoch \union {NoEpoch}
    PROVE  from_seed(e, prev) \in Object
  <1>0. keys \in Nat /\ disk.saved \in [Epoch -> Nat]
    BY DEF TypeOK
  <1>1. keys + 1 \in Nat /\ disk.saved[e] \in Nat
    BY <1>0
  <1>2. SavedEpoch(e) \in Object
    BY <1>1 DEF SavedEpoch, Object, State
  <1>3. GenesisEpoch(prev) \in Object
    BY <1>1 DEF GenesisEpoch, Object, State
  <1>4. VRFEpoch(prev) \in Object
    BY <1>1 DEF VRFEpoch, Object, State
  <1> QED BY <1>2, <1>3, <1>4 DEF from_seed

LEMMA NextStateType ==
    ASSUME NEW object \in Object
    PROVE  next_state(object) \in Object /\ shutdown(object) \in Object
  BY DEF next_state, shutdown, Object, State

LEMMA TypeInit == Init => TypeOK
  <1> SUFFICES ASSUME Init PROVE TypeOK
    OBVIOUS
  <1>1. queue \in Seq(Order)
    BY DEF Init
  <1> QED BY <1>1, EpochNumbers, NothingType DEF Init, TypeOK, NoKey, Order

LEMMA LaunchType ==
    ASSUME TypeOK, NEW e \in Epoch, NEW prev \in Epoch \union {NoEpoch},
           NEW others \in [Epoch -> Object], launch_epoch(e, prev, others)
    PROVE  current' \in Epoch /\ epochs' \in [Epoch -> Object] /\ keys' \in Nat
  <1>1. from_seed(e, prev) \in Object
    BY SeedType
  <1>0. keys \in Nat
    BY DEF TypeOK
  <1>2. keys \in Nat /\ keys + 1 \in Nat
    BY <1>0
  <1>3. epochs' = [others EXCEPT ![e] = from_seed(e, prev)]
    BY DEF launch_epoch
  <1>4. epochs' \in [Epoch -> Object]
    BY <1>1, <1>3
  <1> QED BY <1>2, <1>4 DEF launch_epoch

(* What waits before and after a command is read or added.                 *)
LEMMA QueueType ==
    ASSUME TypeOK
    PROVE  /\ queue \in Seq(Order)
           /\ Len(queue) \in Nat
           /\ \A i \in 1..Len(queue) : queue[i] \in Order
           /\ queue # << >> => /\ Head(queue) = queue[1] /\ Head(queue) \in Order
                               /\ 1 \in 1..Len(queue)
                               /\ Tail(queue) \in Seq(Order)
                               /\ Len(Tail(queue)) = Len(queue) - 1
                               /\ \A i \in 1..Len(Tail(queue)) :
                                      Tail(queue)[i] = queue[i + 1]
  <1>1. queue \in Seq(Order)
    BY DEF TypeOK, Order
  <1> HIDE DEF Order
  <1>2. Len(queue) \in Nat /\ \A i \in 1..Len(queue) : queue[i] \in Order
    BY <1>1, ElementOfSeq, LenProperties
  <1>3. ASSUME queue # << >>
        PROVE  /\ Head(queue) = queue[1] /\ Head(queue) \in Order
               /\ Tail(queue) \in Seq(Order)
               /\ Len(Tail(queue)) = Len(queue) - 1
               /\ \A i \in 1..Len(Tail(queue)) : Tail(queue)[i] = queue[i + 1]
    BY <1>1, <1>3, HeadTailProperties
  <1>4. queue # << >> => 1 \in 1..Len(queue)
    BY <1>1, <1>2, EmptySeq
  <1> QED BY <1>1, <1>2, <1>3, <1>4

LEMMA SendType ==
    ASSUME TypeOK, NEW order \in Order, send(order)
    PROVE  /\ queue' \in Seq(Order)
           /\ \/ queue' = queue /\ process # "up"
              \/ /\ Len(queue') = Len(queue) + 1
                 /\ queue'[Len(queue')] = order
                 /\ \A i \in 1..Len(queue) : queue'[i] = queue[i]
  <1>1. queue \in Seq(Order)
    BY QueueType
  <1> QED BY <1>1, AppendProperties DEF send

LEMMA FailType ==
    ASSUME TypeOK, NEW cause, Fail(cause)
    PROVE  /\ current' \in Epoch \union {NoEpoch} /\ epochs' \in [Epoch -> Object]
           /\ queue' \in Seq(Order) /\ process' = cause /\ epochs' = Nothing /\ queue' = << >>
  BY NothingType DEF Fail, LoseMemory

LEMMA FloodType ==
    ASSUME TypeOK, NEW es, flood_ark(es)
    PROVE  announced' \in [Epoch -> SUBSET Nat]
  <1>1. \A e \in Epoch : epochs[e].key \in Nat
    BY DEF TypeOK, Object
  <1> QED BY <1>1 DEF flood_ark, TypeOK

LEMMA TypeStep == TypeOK /\ NewIsNew /\ [Next]_vars => TypeOK'
  <1> SUFFICES ASSUME TypeOK, NewIsNew, [Next]_vars PROVE TypeOK'
    OBVIOUS
  <1> USE EpochNumbers
  <1>0. queue \in Seq(Order) /\ (queue # << >> => Head(queue) \in Order /\ Tail(queue) \in Seq(Order))
    BY QueueType
  <1>a. Seq(Order) = Seq([type: {"NEW", "NEXT", "OFF", "FLOOD_EPOCH"}, epoch: Epoch \union {NoEpoch}])
    BY DEF Order
  <1>b. /\ operator \in [issued: Epoch, phase: {"idle", "new"}, running: Epoch, stops: Nat, floods: Nat]
        /\ crashes \in Nat /\ epochs \in [Epoch -> Object]
    BY DEF TypeOK
  <1>c. /\ operator.issued \in Epoch /\ operator.stops + 1 \in Nat
        /\ operator.floods + 1 \in Nat /\ crashes + 1 \in Nat
    BY <1>b
  <1>1. CASE Restart
    <2>1. launch_epoch(disk.current, NoEpoch, Nothing)
      BY <1>1 DEF Restart
    <2>2. current' \in Epoch /\ epochs' \in [Epoch -> Object] /\ keys' \in Nat
      BY <2>1, LaunchType, NothingType DEF TypeOK
    <2> QED BY <1>1, <2>2 DEF Restart, TypeOK, history
  <1>2. CASE Crash
    BY <1>2, NothingType, <1>a, <1>c, SMTT(30) DEF Crash, LoseMemory, TypeOK
  <1>3. CASE IssueNew
    <2>0. operator.issued + 1 \in Epoch
      BY <1>3, <1>c, BoundsAssumption DEF IssueNew, Epoch, Genesis
    <2>1. [type |-> "NEW", epoch |-> operator.issued + 1] \in Order
      BY <2>0 DEF Order
    <2>2. queue' \in Seq(Order)
      BY <1>3, <2>1, SendType DEF IssueNew
    <2>3. operator' \in [issued: Epoch, phase: {"idle", "new"}, running: Epoch, stops: Nat, floods: Nat]
      BY <1>3, <2>0, <1>b DEF IssueNew
    <2> QED BY <1>3, <2>2, <2>3, <1>a DEF IssueNew, TypeOK, history
  <1>4. CASE IssueNext
    <2>1. [type |-> "NEXT", epoch |-> NoEpoch] \in Order
      BY DEF Order
    <2>2. queue' \in Seq(Order)
      BY <1>4, <2>1, SendType DEF IssueNext
    <2> QED BY <1>4, <2>2, <1>a DEF IssueNext, TypeOK, history
  <1>5. CASE IssueFlood
    <2>1. [type |-> "FLOOD_EPOCH", epoch |-> NoEpoch] \in Order
      BY DEF Order
    <2>2. queue' \in Seq(Order)
      BY <1>5, <2>1, SendType DEF IssueFlood
    <2>3. operator' \in [issued: Epoch, phase: {"idle", "new"}, running: Epoch, stops: Nat, floods: Nat]
      BY <1>5, <1>b, <1>c DEF IssueFlood
    <2> QED BY <1>5, <2>2, <2>3, <1>a DEF IssueFlood, TypeOK, history
  <1>6. ASSUME NEW e \in Epoch, IssueOff(e)
        PROVE  TypeOK'
    <2>1. [type |-> "OFF", epoch |-> e] \in Order
      BY DEF Order
    <2>2. queue' \in Seq(Order)
      BY <1>6, <2>1, SendType DEF IssueOff
    <2>3. operator' \in [issued: Epoch, phase: {"idle", "new"}, running: Epoch, stops: Nat, floods: Nat]
      BY <1>6, <1>b, <1>c DEF IssueOff
    <2> QED BY <1>6, <2>2, <2>3, <1>a DEF IssueOff, TypeOK, history
  <1>7. CASE New
    <2>0. queue # << >> /\ Head(queue).type = "NEW"
      BY <1>7 DEF New, command
    <2>1. Head(queue).epoch \in Epoch /\ Tail(queue) \in Seq(Order)
      BY <2>0, QueueType DEF NewIsNew
    <2>2. launch_epoch(Head(queue).epoch, current, epochs) /\ current \in Epoch \union {NoEpoch}
      BY <1>7 DEF New, TypeOK
    <2>3. current' \in Epoch /\ epochs' \in [Epoch -> Object] /\ keys' \in Nat
      BY <2>1, <2>2, <1>b, LaunchType
    <2> QED BY <1>7, <2>1, <2>3, <1>a DEF New, TypeOK, history
  <1>8. CASE Advance
    <2>1. epochs' \in [Epoch -> Object]
      BY <1>8, <1>b, NextStateType DEF Advance
    <2> QED BY <1>8, <2>1, <1>0, <1>a DEF Advance, command, TypeOK, history
  <1>9. CASE Off
    <2>1. CASE Head(queue).epoch \in known
      <3>0. PICK e \in Epoch : e = Head(queue).epoch
        BY <2>1 DEF known
      <3>1. epochs' = [epochs EXCEPT ![e] = shutdown(@)] /\ told' = told \union {e}
        BY <1>9, <2>1, <3>0 DEF Off
      <3>2. epochs[e] \in Object
        BY <1>b
      <3>3. epochs' \in [Epoch -> Object] /\ told' \subseteq Epoch
        BY <3>1, <3>2, <1>b, NextStateType DEF TypeOK
      <3> QED BY <1>9, <2>1, <3>3, <1>0, <1>a DEF Off, command, TypeOK
    <2>2. CASE Head(queue).epoch \notin known
      <3>1. Fail("unknown epoch")
        BY <1>9, <2>2 DEF Off
      <3> QED BY <1>9, <2>2, <3>1, FailType, <1>a DEF Off, TypeOK
    <2> QED BY <2>1, <2>2
  <1>10. CASE FloodEpoch
    <2> DEFINE targets == {e \in known : epochs[e].state = "PRE_RUN"
                                          /\ epochs[e].previous # NoEpoch}
    <2>1. announced' \in [Epoch -> SUBSET Nat]
      BY <1>10, FloodType DEF FloodEpoch
    <2>2. CASE \A e \in targets : epochs[e].ark = "made"
      BY <1>10, <2>1, <2>2, <1>0, <1>a DEF FloodEpoch, command, TypeOK, history
    <2>3. CASE ~ \A e \in targets : epochs[e].ark = "made"
      <3>1. Fail("no ARK")
        BY <1>10, <2>3 DEF FloodEpoch
      <3> QED BY <1>10, <3>1, <2>1, FailType, <1>a DEF FloodEpoch, TypeOK, history
    <2> QED BY <2>2, <2>3
  <1>11. ASSUME NEW e \in Epoch, PreRun(e)
         PROVE  TypeOK'
    <2>1. announced' \in [Epoch -> SUBSET Nat]
      BY <1>11, FloodType DEF PreRun
    <2>2. epochs' \in [Epoch -> Object]
      BY <1>11, <1>b DEF PreRun, Object
    <2> QED BY <1>11, <2>1, <2>2 DEF PreRun, TypeOK, history
  <1>12. ASSUME NEW e \in Epoch, NoLink(e)
         PROVE  TypeOK'
    BY <1>12, FailType, <1>a, <1>c DEF NoLink, TypeOK
  <1>13. ASSUME NEW e \in Epoch, LoadFails(e)
         PROVE  TypeOK'
    BY <1>13, FailType, <1>a DEF LoadFails, TypeOK, history
  <1>14. ASSUME NEW e \in Epoch, Serve(e)
         PROVE  TypeOK'
    <2>1. epochs' \in [Epoch -> Object]
      BY <1>14, <1>b DEF Serve, Object
    <2>2. epochs[e].key \in Nat
      BY <1>b DEF Object
    <2>3. disk' \in [current: Epoch, saved: [Epoch -> Nat], router: [Epoch -> BOOLEAN]]
      BY <1>14, <2>2 DEF Serve, TypeOK
    <2> QED BY <1>14, <2>1, <2>3 DEF Serve, TypeOK
  <1>15. ASSUME NEW e \in Epoch, SaveRouter(e)
         PROVE  TypeOK'
    BY <1>15 DEF SaveRouter, TypeOK, history
  <1>16. ASSUME NEW e \in Epoch, CrashInSave(e)
         PROVE  TypeOK'
    <2>1. /\ epochs' = Nothing /\ queue' = << >> /\ current' = NoEpoch /\ process' = "down"
          /\ torn' \in BOOLEAN /\ late' \in BOOLEAN /\ crashes' = crashes + 1
      BY <1>16 DEF CrashInSave, LoseMemory
    <2>2. disk' \in [current: Epoch, saved: [Epoch -> Nat], router: [Epoch -> BOOLEAN]]
      BY <1>16 DEF CrashInSave, TypeOK
    <2>3. UNCHANGED <<keys, operator, announced, told, newest>>
      BY <1>16 DEF CrashInSave
    <2>4. queue' \in Seq(Order) /\ epochs' \in [Epoch -> Object]
      BY <2>1, NothingType
    <2>5. torn' \in BOOLEAN /\ late' \in BOOLEAN
      BY <2>1
    <2>6. /\ keys' \in Nat /\ announced' \in [Epoch -> SUBSET Nat] /\ told' \subseteq Epoch
          /\ newest' \in Epoch /\ crashes' \in Nat
          /\ operator' \in [issued: Epoch, phase: {"idle", "new"}, running: Epoch, stops: Nat, floods: Nat]
      BY <2>1, <2>3, <1>c DEF TypeOK
    <2>7. process' = "down" /\ current' = NoEpoch
      BY <2>1
    <2> QED BY <2>2, <2>4, <2>5, <2>6, <2>7, <1>a DEF TypeOK
  <1>17. CASE UNCHANGED vars
    BY <1>17 DEF vars, TypeOK
  <1> QED BY <1>1, <1>2, <1>3, <1>4, <1>5, <1>6, <1>7, <1>8, <1>9, <1>10, <1>11,
             <1>12, <1>13, <1>14, <1>15, <1>16, <1>17 DEF Next

-----------------------------------------------------------------------------
(***************************************************************************)
(* What a step does to the epochs in memory, to the files, to the ARKs and *)
(* to the commands that wait.                                              *)
(***************************************************************************)

(* The epochs that stay in memory keep their states and keys, and need no     *)
(* link where they needed none.                                            *)
Kept == \A e \in Epoch : e \in known' => /\ e \in known
                                         /\ epochs'[e].state = epochs[e].state
                                         /\ epochs'[e].key = epochs[e].key
                                         /\ epochs[e].ark = "none" => epochs'[e].ark = "none"

LEMMA NothingKnown == epochs' = Nothing => known' = {}
  BY NothingType DEF known

LEMMA NextStateKeeps ==
    ASSUME NEW object \in Object
    PROVE  /\ next_state(object).key = object.key
           /\ next_state(object).ark = object.ark
           /\ next_state(object).state =
                  (CASE object.state = "PRE_RUN" -> "RUNNING"
                     [] object.state = "RUNNING" -> "HANDOFF"
                     [] object.state = "HANDOFF" -> "OFF"
                     [] OTHER -> object.state)
           /\ next_state(object).run # "none" => \/ object.run # "none"
                                                \/ object.state = "PRE_RUN"
           /\ shutdown(object).key = object.key /\ shutdown(object).ark = object.ark
           /\ shutdown(object).state = object.state
           /\ shutdown(object).run # "none" => object.run # "none"
  BY DEF next_state, shutdown, Object, State

LEMMA OffShutsDown ==
    ASSUME TypeOK, Off, Head(queue).epoch \in known
    PROVE  \E e \in known : epochs' = [epochs EXCEPT ![e] = shutdown(@)]
  BY DEF Off

LEMMA FloodOrFail ==
    ASSUME FloodEpoch
    PROVE  \/ queue' = Tail(queue) /\ UNCHANGED <<process, current, epochs>>
           \/ Fail("no ARK")
  <1> DEFINE targets == {e \in known : epochs[e].state = "PRE_RUN"
                                        /\ epochs[e].previous # NoEpoch}
  <1>1. CASE \A e \in targets : epochs[e].ark = "made"
    BY <1>1 DEF FloodEpoch
  <1>2. CASE ~ \A e \in targets : epochs[e].ark = "made"
    BY <1>2 DEF FloodEpoch
  <1> QED BY <1>1, <1>2

LEMMA EpochsStep ==
    ASSUME TypeOK, [Next]_vars
    PROVE  Restart \/ New \/ Advance \/ Kept
  <1> SUFFICES ASSUME ~Restart, ~New, ~Advance PROVE Kept
    OBVIOUS
  <1>a. epochs \in [Epoch -> Object]
    BY DEF TypeOK
  <1>1. ASSUME epochs' = epochs PROVE Kept
    BY <1>1 DEF Kept, known
  <1>2. ASSUME epochs' = Nothing PROVE Kept
    BY <1>2, NothingKnown DEF Kept
  <1>3. CASE Off
    <2>1. CASE Head(queue).epoch \in known
      <3>1. PICK e \in known : epochs' = [epochs EXCEPT ![e] = shutdown(@)]
        BY <1>3, <2>1, OffShutsDown
      <3>2. e \in Epoch /\ epochs[e] \in Object
        BY <1>a DEF known
      <3>3. /\ epochs'[e].key = epochs[e].key /\ epochs'[e].state = epochs[e].state
            /\ epochs'[e].ark = epochs[e].ark
        BY <3>1, <3>2, <1>a, NextStateKeeps
      <3>4. \A f \in Epoch : f # e => epochs'[f] = epochs[f]
        BY <3>1, <1>a
      <3> QED BY <3>2, <3>3, <3>4 DEF Kept, known
    <2>2. CASE Head(queue).epoch \notin known
      BY <1>2, <1>3, <2>2 DEF Off, Fail, LoseMemory
    <2> QED BY <2>1, <2>2
  <1>4. CASE FloodEpoch
    BY <1>1, <1>2, <1>4 DEF FloodEpoch, Fail, LoseMemory
  <1>5. ASSUME NEW e \in Epoch, PreRun(e)
        PROVE  Kept
    BY <1>5, <1>a DEF PreRun, Kept, known, Object
  <1>6. ASSUME NEW e \in Epoch, Serve(e)
        PROVE  Kept
    BY <1>6, <1>a DEF Serve, Kept, known, Object
  <1>7. ASSUME NEW e \in Epoch, NoLink(e) \/ LoadFails(e) \/ CrashInSave(e)
        PROVE  Kept
    BY <1>2, <1>7 DEF NoLink, LoadFails, CrashInSave, Fail, LoseMemory
  <1>8. ASSUME NEW e \in Epoch, IssueOff(e) \/ SaveRouter(e)
        PROVE  Kept
    BY <1>1, <1>8 DEF IssueOff, SaveRouter
  <1>9. CASE Crash
    BY <1>2, <1>9 DEF Crash, LoseMemory
  <1>10. CASE IssueNew \/ IssueNext \/ IssueFlood \/ UNCHANGED vars
    BY <1>1, <1>10 DEF IssueNew, IssueNext, IssueFlood, vars
  <1> QED BY <1>3, <1>4, <1>5, <1>6, <1>7, <1>8, <1>9, <1>10 DEF Next

(* The files change where run saves, in an epoch that is in memory.        *)
LEMMA SaveStep ==
    ASSUME TypeOK, KnownHasKey, [Next]_vars
    PROVE  /\ \/ /\ disk'.current = disk.current /\ disk'.saved = disk.saved
                 /\ UNCHANGED <<torn, late, newest>>
              \/ \E e \in known : Serve(e) \/ CrashInSave(e)
           /\ torn => torn'
  <1>1. ASSUME NEW e \in Epoch, Serve(e) \/ CrashInSave(e)
        PROVE  e \in known /\ (torn => torn')
    BY <1>1 DEF Serve, CrashInSave, isLoaded, KnownHasKey, TypeOK
  <1>2. CASE Restart
    BY <1>2 DEF Restart, history
  <1>3. CASE Crash
    BY <1>3 DEF Crash
  <1>4. CASE IssueNew \/ IssueNext \/ IssueFlood
    BY <1>4 DEF IssueNew, IssueNext, IssueFlood, history
  <1>5. CASE New \/ Advance
    BY <1>5 DEF New, Advance, history
  <1>10. CASE Off
    BY <1>10 DEF Off
  <1>9. CASE FloodEpoch
    BY <1>9 DEF FloodEpoch, history
  <1>6. ASSUME NEW e \in Epoch, IssueOff(e) \/ PreRun(e) \/ NoLink(e) \/ LoadFails(e)
        PROVE  UNCHANGED <<disk, torn, late, newest>>
    BY <1>6 DEF IssueOff, PreRun, NoLink, LoadFails, history
  <1>7. ASSUME NEW e \in Epoch, SaveRouter(e)
        PROVE  /\ disk'.current = disk.current /\ disk'.saved = disk.saved
               /\ UNCHANGED <<torn, late, newest>>
    BY <1>7 DEF SaveRouter, history, TypeOK
  <1>8. CASE UNCHANGED vars
    BY <1>8 DEF vars
  <1> QED BY <1>1, <1>2, <1>3, <1>4, <1>5, <1>6, <1>7, <1>8, <1>9, <1>10 DEF Next

(* Only the ARKs of epochs in memory are flooded, and never that of Genesis. *)
Announces ==
    \A e \in Epoch :
        \/ announced'[e] = announced[e]
        \/ e \in known /\ e # Genesis /\ announced'[e] = announced[e] \union {epochs[e].key}

LEMMA AnnounceStep ==
    ASSUME TypeOK, KnownHasKey, GenesisIsQuiet, [Next]_vars
    PROVE  /\ Announces
           /\ announced' = announced \/ FloodEpoch \/ \E e \in Epoch : PreRun(e)
  <1>a. announced \in [Epoch -> SUBSET Nat]
    BY DEF TypeOK
  <1>1. ASSUME NEW es \in SUBSET (known \ {Genesis}), flood_ark(es)
        PROVE  Announces
    BY <1>1, <1>a DEF flood_ark, Announces
  <1>2. ASSUME announced' = announced
        PROVE  Announces
    BY <1>2 DEF Announces
  <1>3. CASE FloodEpoch
    <2> DEFINE targets == {e \in known : epochs[e].state = "PRE_RUN"
                                          /\ epochs[e].previous # NoEpoch}
    <2>1. targets \subseteq known \ {Genesis}
      BY DEF GenesisIsQuiet
    <2>2. \E es \in SUBSET targets : flood_ark(es)
      <3>1. CASE \A e \in targets : epochs[e].ark = "made"
        BY <1>3, <3>1 DEF FloodEpoch
      <3>2. CASE ~ \A e \in targets : epochs[e].ark = "made"
        <4>1. \E done \in SUBSET {e \in targets : epochs[e].ark = "made"} : flood_ark(done)
          BY <1>3, <3>2 DEF FloodEpoch
        <4> QED BY <4>1
      <3> QED BY <3>1, <3>2
    <2> QED BY <1>1, <1>3, <2>1, <2>2
  <1>4. ASSUME NEW e \in Epoch, PreRun(e)
        PROVE  Announces
    <2>1. e \in known \ {Genesis}
      BY <1>4 DEF PreRun, KnownHasKey, GenesisIsQuiet
    <2>2. flood_ark({}) \/ flood_ark({e})
      BY <1>4 DEF PreRun
    <2> QED BY <1>1, <2>1, <2>2
  <1>5. CASE Restart \/ Crash \/ IssueNew \/ IssueNext \/ IssueFlood \/ New \/ Advance \/ Off
    BY <1>2, <1>5 DEF Restart, Crash, IssueNew, IssueNext, IssueFlood, New, Advance, Off
  <1>6. ASSUME NEW e \in Epoch, IssueOff(e) \/ NoLink(e) \/ LoadFails(e) \/ Serve(e)
                                \/ CrashInSave(e) \/ SaveRouter(e)
        PROVE  announced' = announced
    BY <1>6 DEF IssueOff, NoLink, LoadFails, Serve, CrashInSave, SaveRouter
  <1>7. CASE UNCHANGED vars
    BY <1>2, <1>7 DEF vars
  <1> QED BY <1>2, <1>3, <1>4, <1>5, <1>6, <1>7 DEF Next, Restart, Crash, IssueNew, IssueNext,
             IssueFlood, New, Advance, Off, vars

(* A command is read from the head of the queue, or added at its end.      *)
Takes ==
    /\ queue # << >>
    /\ Len(queue') = Len(queue) - 1
    /\ \A i \in 1..Len(queue') : queue'[i] = queue[i + 1]
    /\ operator' = operator

Posts(order) ==
    \/ queue' = queue /\ process # "up"
    \/ /\ Len(queue') = Len(queue) + 1
       /\ queue'[Len(queue')] = order
       /\ \A i \in 1..Len(queue) : queue'[i] = queue[i]

PostsOther ==
    /\ \E order \in Order : order.type \notin {"NEW", "NEXT"} /\ Posts(order)
    /\ operator'.issued = operator.issued /\ operator'.phase = operator.phase

TakesOther == Takes /\ queue[1].type \notin {"NEW", "NEXT"}

LEMMA QueueStep ==
    ASSUME TypeOK, [Next]_vars
    PROVE  \/ UNCHANGED <<queue, operator>>
           \/ queue' = << >> /\ epochs' = Nothing /\ operator' = operator
           \/ IssueNew /\ Posts([type |-> "NEW", epoch |-> operator.issued + 1])
           \/ IssueNext /\ Posts([type |-> "NEXT", epoch |-> NoEpoch])
           \/ PostsOther
           \/ New /\ Takes /\ queue[1].type = "NEW"
           \/ Advance /\ Takes /\ queue[1].type = "NEXT"
           \/ TakesOther
  <1>a. /\ operator \in [issued: Epoch, phase: {"idle", "new"}, running: Epoch, stops: Nat, floods: Nat]
    BY DEF TypeOK
  <1>b. ASSUME queue # << >>, queue' = Tail(queue), operator' = operator
        PROVE  Takes
    BY <1>b, QueueType DEF Takes
  <1>c. \A order \in Order : send(order) => Posts(order)
    BY SendType DEF Posts
  <1>d. \A type : command(type) => queue # << >> /\ Head(queue) = queue[1] /\ queue[1].type = type
    BY QueueType DEF command
  <1>1. CASE IssueNew
    <2>1. operator.issued + 1 \in Epoch
      BY <1>1, <1>a, BoundsAssumption DEF IssueNew, Epoch, Genesis
    <2>2. [type |-> "NEW", epoch |-> operator.issued + 1] \in Order
      BY <2>1 DEF Order
    <2> QED BY <1>1, <1>c, <2>2 DEF IssueNew
  <1>2. CASE IssueNext
    <2>1. [type |-> "NEXT", epoch |-> NoEpoch] \in Order
      BY DEF Order
    <2> QED BY <1>2, <1>c, <2>1 DEF IssueNext
  <1>3. CASE IssueFlood
    <2>1. [type |-> "FLOOD_EPOCH", epoch |-> NoEpoch] \in Order
      BY DEF Order
    <2>2. operator'.issued = operator.issued /\ operator'.phase = operator.phase
      BY <1>3, <1>a DEF IssueFlood
    <2> QED BY <1>3, <1>c, <2>1, <2>2 DEF IssueFlood, PostsOther
  <1>4. ASSUME NEW e \in Epoch, IssueOff(e)
        PROVE  PostsOther
    <2>1. [type |-> "OFF", epoch |-> e] \in Order
      BY DEF Order
    <2>2. operator'.issued = operator.issued /\ operator'.phase = operator.phase
      BY <1>4, <1>a DEF IssueOff
    <2> QED BY <1>4, <1>c, <2>1, <2>2 DEF IssueOff, PostsOther
  <1>5. CASE New
    BY <1>5, <1>b, <1>d DEF New
  <1>6. CASE Advance
    BY <1>6, <1>b, <1>d DEF Advance
  <1>7. CASE Off
    BY <1>7, <1>b, <1>d, ZenonT(60) DEF Off, Fail, LoseMemory, TakesOther
  <1>8. CASE FloodEpoch
    <2>1. operator' = operator /\ command("FLOOD_EPOCH")
      BY <1>8 DEF FloodEpoch, history
    <2>2. queue' = Tail(queue) \/ (queue' = << >> /\ epochs' = Nothing)
      BY <1>8, FloodOrFail DEF Fail, LoseMemory
    <2> QED BY <2>1, <2>2, <1>b, <1>d DEF TakesOther
  <1>9. CASE Restart \/ Crash
    BY <1>9 DEF Restart, Crash, LoseMemory
  <1>10. ASSUME NEW e \in Epoch, PreRun(e) \/ Serve(e) \/ SaveRouter(e)
         PROVE  UNCHANGED <<queue, operator>>
    BY <1>10 DEF PreRun, Serve, SaveRouter
  <1>11. ASSUME NEW e \in Epoch, NoLink(e) \/ LoadFails(e) \/ CrashInSave(e)
         PROVE  queue' = << >> /\ epochs' = Nothing /\ operator' = operator
    BY <1>11 DEF NoLink, LoadFails, CrashInSave, Fail, LoseMemory
  <1>12. CASE UNCHANGED vars
    BY <1>12 DEF vars
  <1> QED BY <1>1, <1>2, <1>3, <1>4, <1>5, <1>6, <1>7, <1>8, <1>9, <1>10, <1>11, <1>12 DEF Next

-----------------------------------------------------------------------------
(***************************************************************************)
(* The invariants, one after the other.                                    *)
(***************************************************************************)

LEMMA DownStep ==
    ASSUME TypeOK, DownIsEmpty, KnownHasKey, [Next]_vars
    PROVE  DownIsEmpty'
  <1>a. process # "up" => \A e \in Epoch : epochs[e].ark = "none" /\ epochs[e].run = "none"
    BY NothingType DEF DownIsEmpty
  <1>1. CASE UNCHANGED <<process, epochs, queue>>
    BY <1>1 DEF DownIsEmpty
  <1>2. ASSUME epochs' = Nothing, queue' = << >>
        PROVE  DownIsEmpty'
    BY <1>2 DEF DownIsEmpty
  <1>3. CASE Restart
    BY <1>3 DEF Restart, DownIsEmpty
  <1>4. CASE Crash
    BY <1>2, <1>4 DEF Crash, LoseMemory
  <1>5. CASE IssueNew \/ IssueNext \/ IssueFlood
    BY <1>5 DEF IssueNew, IssueNext, IssueFlood, send, DownIsEmpty
  <1>6. CASE New \/ Advance
    BY <1>6 DEF New, Advance, command, DownIsEmpty
  <1>7. CASE Off
    BY <1>7, <1>2 DEF Off, command, Fail, LoseMemory, DownIsEmpty
  <1>8. CASE FloodEpoch
    <2>1. process = "up"
      BY <1>8 DEF FloodEpoch, command
    <2>2. process' = process \/ (epochs' = Nothing /\ queue' = << >>)
      BY <1>8, FloodOrFail DEF Fail, LoseMemory
    <2> QED BY <2>1, <2>2, <1>2 DEF DownIsEmpty
  <1>9. ASSUME NEW e \in Epoch, IssueOff(e)
        PROVE  DownIsEmpty'
    BY <1>9 DEF IssueOff, send, DownIsEmpty
  <1>10. ASSUME NEW e \in Epoch, NoLink(e) \/ LoadFails(e) \/ CrashInSave(e)
         PROVE  DownIsEmpty'
    BY <1>10, <1>2 DEF NoLink, LoadFails, CrashInSave, Fail, LoseMemory
  <1>11. ASSUME NEW e \in Epoch, PreRun(e) \/ Serve(e)
         PROVE  DownIsEmpty'
    BY <1>11, <1>a DEF PreRun, Serve, isLoaded, DownIsEmpty
  <1>12. ASSUME NEW e \in Epoch, SaveRouter(e)
         PROVE  DownIsEmpty'
    BY <1>12, <1>1 DEF SaveRouter
  <1>13. CASE UNCHANGED vars
    BY <1>13, <1>1 DEF vars
  <1> QED BY <1>3, <1>4, <1>5, <1>6, <1>7, <1>8, <1>9, <1>10, <1>11, <1>12, <1>13 DEF Next

(* A NEW names an epoch that the server has not met: it has no key yet,    *)
(* and is not Genesis.                                                     *)
LEMMA NewLaunches ==
    ASSUME TypeOK, NewIsNew, New
    PROVE  \E h \in Epoch :
               /\ h = Head(queue).epoch /\ h # Genesis /\ ~Met(h)
               /\ epochs' = [epochs EXCEPT ![h] = VRFEpoch(current)]
               /\ UNCHANGED <<process, disk, announced, operator>>
  <1>1. /\ queue # << >> /\ Head(queue).type = "NEW"
        /\ launch_epoch(Head(queue).epoch, current, epochs)
        /\ UNCHANGED <<process, disk, announced, operator>>
    BY DEF New, command
  <1>2. PICK h \in Epoch : h = Head(queue).epoch
    BY <1>1, QueueType DEF NewIsNew
  <1>3. \A e \in Epoch : Met(e) => e < h
    BY <1>1, <1>2, QueueType DEF NewIsNew
  <1>4. Met(disk.current) /\ disk.current \in Epoch
    BY DEF Met, TypeOK
  <1>6. h \in Int /\ disk.current \in Int /\ Genesis <= disk.current
    BY <1>4, EpochNumbers
  <1>7. ~Met(h)
    BY <1>3, <1>6
  <1>5. h # Genesis
    BY <1>3, <1>4, <1>6 DEF Genesis
  <1> QED BY <1>1, <1>2, <1>5, <1>7 DEF launch_epoch, from_seed, Met

LEMMA KeyStep ==
    ASSUME TypeOK, KnownHasKey, NewIsNew, [Next]_vars
    PROVE  KnownHasKey'
  <1>a. epochs \in [Epoch -> Object] /\ keys \in Nat /\ disk.saved \in [Epoch -> Nat]
    BY DEF TypeOK
  <1>b. keys + 1 # NoKey
    BY <1>a DEF NoKey
  <1>1. ASSUME epochs' = epochs PROVE KnownHasKey'
    BY <1>1 DEF KnownHasKey, known
  <1>2. ASSUME epochs' = Nothing PROVE KnownHasKey'
    BY <1>2, NothingType DEF KnownHasKey, known
  <1>3. CASE Restart
    <2>1. epochs' = [Nothing EXCEPT ![disk.current] = from_seed(disk.current, NoEpoch)]
          /\ disk.current \in Epoch
      BY <1>3 DEF Restart, launch_epoch, TypeOK
    <2>2. /\ from_seed(disk.current, NoEpoch).state # "unknown"
          /\ from_seed(disk.current, NoEpoch).key # NoKey
      BY <1>b DEF from_seed, isSaved, SavedEpoch, GenesisEpoch, VRFEpoch
    <2> QED BY <2>1, <2>2, NothingType DEF KnownHasKey, known
  <1>4. CASE New
    <2>1. PICK h \in Epoch : epochs' = [epochs EXCEPT ![h] = VRFEpoch(current)]
      BY <1>4, NewLaunches
    <2>2. VRFEpoch(current).state # "unknown" /\ VRFEpoch(current).key # NoKey
      BY <1>b DEF VRFEpoch
    <2> QED BY <2>1, <2>2, <1>a DEF KnownHasKey, known
  <1>5. CASE Advance
    <2>1. \A e \in Epoch : epochs'[e] = next_state(epochs[e])
      BY <1>5 DEF Advance
    <2>2. SUFFICES ASSUME NEW e \in Epoch
                   PROVE  /\ epochs'[e].run # "none" \/ epochs'[e].ark # "none" => e \in known'
                          /\ e \in known' => epochs'[e].key # NoKey
      BY DEF KnownHasKey
    <2>3. epochs[e] \in Object
      BY <1>a
    <2>4. epochs[e].state = "unknown" <=> epochs'[e].state = "unknown"
      BY <2>1, <2>3, NextStateKeeps
    <2> QED BY <2>1, <2>3, <2>4, NextStateKeeps DEF KnownHasKey, known
  <1>6. CASE Off
    <2>1. CASE Head(queue).epoch \in known
      <3>1. PICK e \in known : epochs' = [epochs EXCEPT ![e] = shutdown(@)]
        BY <1>6, <2>1, OffShutsDown
      <3>2. e \in Epoch /\ epochs[e] \in Object
        BY <1>a DEF known
      <3>3. epochs'[e].key = epochs[e].key /\ epochs'[e].state = epochs[e].state
        BY <3>1, <3>2, <1>a, NextStateKeeps
      <3>4. \A f \in Epoch : f # e => epochs'[f] = epochs[f]
        BY <3>1, <1>a
      <3> QED BY <3>2, <3>3, <3>4 DEF KnownHasKey, known
    <2>2. CASE Head(queue).epoch \notin known
      BY <1>2, <1>6, <2>2 DEF Off, Fail, LoseMemory
    <2> QED BY <2>1, <2>2
  <1>7. CASE FloodEpoch
    BY <1>1, <1>2, <1>7, FloodOrFail DEF Fail, LoseMemory
  <1>8. ASSUME NEW e \in Epoch, PreRun(e)
        PROVE  KnownHasKey'
    BY <1>8, <1>a DEF PreRun, KnownHasKey, known, Object
  <1>9. ASSUME NEW e \in Epoch, Serve(e)
        PROVE  KnownHasKey'
    <2>1. e \in known
      BY <1>9 DEF Serve, isLoaded, KnownHasKey
    <2>2. epochs' = [epochs EXCEPT ![e].run = "serving"]
      BY <1>9 DEF Serve
    <2> QED BY <2>1, <2>2, <1>a DEF KnownHasKey, known, Object
  <1>10. ASSUME NEW e \in Epoch, NoLink(e) \/ LoadFails(e) \/ CrashInSave(e)
         PROVE  KnownHasKey'
    BY <1>2, <1>10 DEF NoLink, LoadFails, CrashInSave, Fail, LoseMemory
  <1>11. ASSUME NEW e \in Epoch, IssueOff(e) \/ SaveRouter(e)
         PROVE  KnownHasKey'
    BY <1>1, <1>11 DEF IssueOff, SaveRouter
  <1>12. CASE Crash
    BY <1>2, <1>12 DEF Crash, LoseMemory
  <1>13. CASE IssueNew \/ IssueNext \/ IssueFlood \/ UNCHANGED vars
    BY <1>1, <1>13 DEF IssueNew, IssueNext, IssueFlood, vars
  <1> QED BY <1>3, <1>4, <1>5, <1>6, <1>7, <1>8, <1>9, <1>10, <1>11, <1>12, <1>13 DEF Next

(* What Restart brings back: one epoch, with its saved key if it has one.  *)
LEMMA RestartLaunches ==
    ASSUME TypeOK, Restart
    PROVE  \E e \in Epoch :
               /\ e = disk.current
               /\ known' = {e}
               /\ isSaved(e) => epochs'[e].key = disk.saved[e] /\ epochs'[e].state = "RUNNING"
               /\ isSaved(e) \/ e = Genesis => /\ epochs'[e].ark = "none"
                                              /\ epochs'[e].state = "RUNNING"
               /\ \A f \in Epoch : f # e => epochs'[f] = Nothing[f]
               /\ current' = e
               /\ UNCHANGED <<disk, announced, operator, torn, late, newest, queue>>
  <1>1. /\ disk.current \in Epoch
        /\ epochs' = [Nothing EXCEPT ![disk.current] = from_seed(disk.current, NoEpoch)]
        /\ current' = disk.current
        /\ UNCHANGED <<disk, announced, operator, torn, late, newest, queue>>
    BY DEF Restart, launch_epoch, TypeOK, history
  <1>2. from_seed(disk.current, NoEpoch).state # "unknown"
    BY DEF from_seed, SavedEpoch, GenesisEpoch, VRFEpoch
  <1>3. known' = {disk.current}
    BY <1>1, <1>2, NothingType DEF known
  <1>4. isSaved(disk.current) => /\ epochs'[disk.current].key = disk.saved[disk.current]
                                 /\ epochs'[disk.current].state = "RUNNING"
    BY <1>1, NothingType DEF from_seed, SavedEpoch
  <1>5. isSaved(disk.current) \/ disk.current = Genesis =>
            epochs'[disk.current].ark = "none" /\ epochs'[disk.current].state = "RUNNING"
    BY <1>1, NothingType DEF from_seed, SavedEpoch, GenesisEpoch
  <1>6. \A f \in Epoch : f # disk.current => epochs'[f] = Nothing[f]
    BY <1>1, NothingType
  <1> QED BY <1>1, <1>3, <1>4, <1>5, <1>6

LEMMA CurrentStep ==
    ASSUME TypeOK, KnownHasKey, CurrentIsSaved, [Next]_vars
    PROVE  CurrentIsSaved'
  <1>1. ASSUME NEW e \in known, Serve(e)
        PROVE  CurrentIsSaved'
    <2>1. e \in Epoch /\ epochs[e].key # NoKey
      BY DEF known, KnownHasKey
    <2> QED BY <1>1, <2>1 DEF Serve, CurrentIsSaved, isSaved, TypeOK
  <1>2. ASSUME NEW e \in known, CrashInSave(e)
        PROVE  CurrentIsSaved'
    BY <1>2 DEF CrashInSave, CurrentIsSaved, isSaved, TypeOK
  <1>3. ASSUME disk'.current = disk.current, disk'.saved = disk.saved, torn' = torn
        PROVE  CurrentIsSaved'
    BY <1>3 DEF CurrentIsSaved, isSaved
  <1> QED BY <1>1, <1>2, <1>3, SaveStep

LEMMA FileStep ==
    ASSUME TypeOK, KnownHasKey, FileIsNewest, [Next]_vars
    PROVE  FileIsNewest'
  <1>a. newest \in Int /\ newest \in Epoch /\ disk.saved \in [Epoch -> Nat]
    BY EpochNumbers DEF TypeOK
  <1>1. ASSUME NEW e \in known, Serve(e)
        PROVE  FileIsNewest'
    <2>1. e \in Epoch /\ e \in Int
      BY EpochNumbers DEF known
    <2>2. /\ disk'.current = e
          /\ disk'.saved = [disk.saved EXCEPT ![e] = epochs[e].key]
          /\ late' = (late \/ e < newest) /\ torn' = torn
          /\ newest' = IF e > newest THEN e ELSE newest
      BY <1>1, <2>1 DEF Serve, TypeOK
    <2>3. ASSUME NEW f \in Epoch, isSaved(f)'
          PROVE  f <= newest'
      <3>1. f \in Int
        BY EpochNumbers
      <3>2. CASE f = e
        BY <1>a, <2>1, <2>2, <3>2
      <3>3. CASE f # e
        BY <1>a, <2>1, <2>2, <2>3, <3>1, <3>3 DEF isSaved, FileIsNewest
      <3> QED BY <3>2, <3>3
    <2>4. ~torn' /\ ~late' => ~(e < newest) /\ e \in Int /\ newest \in Int
      BY <1>a, <2>1, <2>2
    <2>5. ~(e < newest) => newest' = e
      BY <1>a, <2>1, <2>2
    <2>6. ~torn' /\ ~late' => disk'.current = newest'
      BY <2>2, <2>4, <2>5
    <2> QED BY <2>3, <2>6 DEF FileIsNewest
  <1>2. ASSUME NEW e \in known, CrashInSave(e)
        PROVE  FileIsNewest'
    <2>1. e \in Epoch /\ e \in Int
      BY EpochNumbers DEF known
    <2>2. /\ disk'.current = e /\ disk'.saved = disk.saved
          /\ late' = (late \/ e < newest) /\ torn' = (torn \/ ~isSaved(e)) /\ newest' = newest
      BY <1>2 DEF CrashInSave, TypeOK
    <2>3. ~torn' /\ ~late' => e <= newest /\ ~(e < newest)
      BY <2>1, <2>2 DEF FileIsNewest
    <2>4. e <= newest /\ ~(e < newest) => e = newest
      BY <1>a, <2>1
    <2>5. ~torn' /\ ~late' => disk'.current = newest'
      BY <2>2, <2>3, <2>4
    <2>6. \A f \in Epoch : isSaved(f)' => f <= newest'
      BY <2>2 DEF FileIsNewest, isSaved
    <2> QED BY <2>5, <2>6 DEF FileIsNewest
  <1>3. ASSUME disk'.current = disk.current, disk'.saved = disk.saved, UNCHANGED <<torn, late, newest>>
        PROVE  FileIsNewest'
    BY <1>3 DEF FileIsNewest, isSaved
  <1> QED BY <1>1, <1>2, <1>3, SaveStep

LEMMA GenesisStep ==
    ASSUME TypeOK, KnownHasKey, KnownHasKey', NewIsNew, GenesisIsQuiet, [Next]_vars
    PROVE  GenesisIsQuiet'
  <1>a. Genesis \in Epoch /\ epochs \in [Epoch -> Object]
    BY EpochNumbers DEF TypeOK
  <1>b. announced'[Genesis] = {}
    BY <1>a, AnnounceStep DEF Announces, GenesisIsQuiet
  <1>1. SUFFICES epochs'[Genesis].ark = "none" /\ epochs'[Genesis].state # "PRE_RUN"
    BY <1>b DEF GenesisIsQuiet
  <1>2. CASE Restart
    BY <1>2, <1>a, RestartLaunches, NothingType
  <1>3. CASE New
    BY <1>3, <1>a, NewLaunches DEF GenesisIsQuiet
  <1>4. CASE Advance
    <2>1. epochs'[Genesis] = next_state(epochs[Genesis]) /\ epochs[Genesis] \in Object
      BY <1>4, <1>a DEF Advance
    <2> QED BY <2>1, NextStateKeeps DEF GenesisIsQuiet
  <1>5. CASE Kept
    <2>1. CASE Genesis \in known'
      BY <1>5, <1>a, <2>1 DEF Kept, GenesisIsQuiet
    <2>2. CASE Genesis \notin known'
      BY <1>a, <2>2 DEF KnownHasKey, known
    <2> QED BY <2>1, <2>2
  <1> QED BY <1>2, <1>3, <1>4, <1>5, EpochsStep

(* Only a NEW makes a server meet an epoch.                                *)
LEMMA MetStep ==
    ASSUME TypeOK, KnownHasKey, GenesisIsQuiet, NewIsNew, [Next]_vars, NEW e \in Epoch, Met(e)'
    PROVE  Met(e) \/ (New /\ e = Head(queue).epoch)
  <1>a. epochs \in [Epoch -> Object] /\ disk.saved \in [Epoch -> Nat]
    BY DEF TypeOK
  <1>1. ASSUME announced'[e] # {}
        PROVE  Met(e)
    BY <1>1, AnnounceStep DEF Announces, Met
  <1>2. ASSUME isSaved(e)' \/ disk'.current = e
        PROVE  Met(e)
    <2>1. ASSUME NEW f \in known, Serve(f) \/ CrashInSave(f)
          PROVE  Met(e)
      <3>1. f \in Epoch
        BY DEF known
      <3>2. disk'.current = f /\ (e # f => disk'.saved[e] = disk.saved[e])
        <4>1. CASE Serve(f)
          BY <4>1, <3>1, <1>a DEF Serve, TypeOK
        <4>2. CASE CrashInSave(f)
          BY <4>2, <3>1, <1>a DEF CrashInSave, TypeOK
        <4> QED BY <2>1, <4>1, <4>2
      <3> QED BY <1>2, <3>2 DEF Met, isSaved
    <2> QED BY <1>2, <2>1, SaveStep DEF Met, isSaved
  <1>3. ASSUME e \in known'
        PROVE  Met(e) \/ (New /\ e = Head(queue).epoch)
    <2>1. CASE Restart
      BY <1>3, <2>1, RestartLaunches DEF Met
    <2>2. CASE New
      <3>1. PICK h \in Epoch : h = Head(queue).epoch /\ epochs' = [epochs EXCEPT ![h] = VRFEpoch(current)]
        BY <2>2, NewLaunches
      <3> QED BY <1>3, <2>2, <3>1, <1>a DEF Met, known
    <2>3. CASE Advance
      <3>1. epochs'[e] = next_state(epochs[e]) /\ epochs[e] \in Object
        BY <2>3, <1>a DEF Advance
      <3> QED BY <1>3, <3>1, NextStateKeeps DEF Met, known
    <2>4. CASE Kept
      BY <1>3, <2>4 DEF Kept, Met
    <2> QED BY <2>1, <2>2, <2>3, <2>4, EpochsStep
  <1> QED BY <1>1, <1>2, <1>3 DEF Met

LEMMA KeysStep ==
    ASSUME TypeOK, KnownHasKey, GenesisIsQuiet, NewIsNew, CurrentIsSaved, KeysAgree, [Next]_vars
    PROVE  KeysAgree'
  <1> SUFFICES ASSUME ~torn', NEW e \in Epoch
               PROVE  /\ e \in known' => announced'[e] \subseteq {epochs'[e].key}
                      /\ isSaved(e)' => announced'[e] \subseteq {disk'.saved[e]}
                      /\ e \in known' /\ isSaved(e)' => disk'.saved[e] = epochs'[e].key
    BY DEF KeysAgree
  <1>a. ~torn
    BY SaveStep
  <1>b. epochs \in [Epoch -> Object] /\ disk.saved \in [Epoch -> Nat]
    BY DEF TypeOK
  <1>c. /\ e \in known => announced[e] \subseteq {epochs[e].key}
        /\ isSaved(e) => announced[e] \subseteq {disk.saved[e]}
        /\ e \in known /\ isSaved(e) => disk.saved[e] = epochs[e].key
    BY <1>a DEF KeysAgree
  <1>d. \/ announced'[e] = announced[e]
        \/ e \in known /\ announced'[e] = announced[e] \union {epochs[e].key}
    BY AnnounceStep DEF Announces
  <1>e. \/ disk'.saved[e] = disk.saved[e]
        \/ e \in known /\ disk'.saved[e] = epochs[e].key
    <2>1. ASSUME NEW f \in known, Serve(f)
          PROVE  \/ disk'.saved[e] = disk.saved[e]
                 \/ e \in known /\ disk'.saved[e] = epochs[e].key
      BY <2>1, <1>b DEF Serve, TypeOK
    <2>2. ASSUME NEW f \in known, CrashInSave(f)
          PROVE  disk'.saved[e] = disk.saved[e]
      BY <2>2 DEF CrashInSave, TypeOK
    <2> QED BY <2>1, <2>2, SaveStep
  <1>f. isSaved(e)' => announced'[e] \subseteq {disk'.saved[e]}
    BY <1>c, <1>d, <1>e DEF isSaved
  <1>1. ASSUME e \in known, epochs'[e].key = epochs[e].key
        PROVE  /\ announced'[e] \subseteq {epochs'[e].key}
               /\ isSaved(e)' => disk'.saved[e] = epochs'[e].key
    BY <1>1, <1>c, <1>d, <1>e DEF isSaved
  <1>2. CASE Restart
    <2>1. UNCHANGED <<announced, disk>> /\ (e \in known' => e = disk.current)
      BY <1>2, RestartLaunches
    <2>2. e = disk.current => isSaved(e) \/ e = Genesis
      BY <1>a DEF CurrentIsSaved
    <2>3. isSaved(e) /\ e = disk.current => epochs'[e].key = disk.saved[e]
      BY <1>2, RestartLaunches
    <2>4. announced[Genesis] = {}
      BY DEF GenesisIsQuiet
    <2> QED BY <1>c, <1>f, <2>1, <2>2, <2>3, <2>4 DEF isSaved
  <1>3. CASE New
    <2>1. PICK h \in Epoch : ~Met(h) /\ epochs' = [epochs EXCEPT ![h] = VRFEpoch(current)]
                              /\ UNCHANGED <<announced, disk>>
      BY <1>3, NewLaunches
    <2>2. CASE e = h
      BY <1>f, <2>1, <2>2 DEF Met, isSaved
    <2>3. CASE e # h
      BY <1>1, <1>b, <1>f, <2>1, <2>3 DEF known
    <2> QED BY <2>2, <2>3
  <1>4. CASE Advance
    <2>1. epochs'[e] = next_state(epochs[e]) /\ epochs[e] \in Object
      BY <1>4, <1>b DEF Advance
    <2>2. epochs'[e].key = epochs[e].key /\ (e \in known' => e \in known)
      BY <2>1, NextStateKeeps DEF known
    <2> QED BY <1>1, <1>f, <2>2
  <1>5. CASE Kept
    <2>1. e \in known' => e \in known /\ epochs'[e].key = epochs[e].key
      BY <1>5 DEF Kept
    <2> QED BY <1>1, <1>f, <2>1
  <1> QED BY <1>2, <1>3, <1>4, <1>5, EpochsStep

LEMMA StaggeredStep ==
    ASSUME TypeOK, KnownHasKey, NewIsNew, NextBetween, Staggered, [Next]_vars
    PROVE  Staggered'
  <1> SUFFICES ASSUME ~torn', NEW s \in {"PRE_RUN", "RUNNING", "HANDOFF"},
                      NEW e \in known', NEW f \in known',
                      epochs'[e].state = s, epochs'[f].state = s
               PROVE  e = f
    BY DEF Staggered
  <1>a. ~torn
    BY SaveStep
  <1>b. epochs \in [Epoch -> Object] /\ e \in Epoch /\ f \in Epoch
    BY DEF TypeOK, known
  <1>c. \A t \in {"PRE_RUN", "RUNNING", "HANDOFF"} : \A g, h \in known :
            epochs[g].state = t /\ epochs[h].state = t => g = h
    BY <1>a DEF Staggered
  <1>1. CASE Restart
    BY <1>1, RestartLaunches
  <1>2. CASE New
    <2>1. PICK h \in Epoch : epochs' = [epochs EXCEPT ![h] = VRFEpoch(current)]
      BY <1>2, NewLaunches
    <2>2. queue # << >> /\ 1 \in 1..Len(queue) /\ queue[1].type = "NEW" /\ Len(queue) \in Nat
      BY <1>2, QueueType DEF New, command
    <2>3. ~Preparing
      BY <1>a, <2>2 DEF NextBetween
    <2>4. epochs'[h].state = "PRE_RUN"
      BY <2>1, <1>b DEF VRFEpoch
    <2>5. \A g \in Epoch : g # h /\ g \in known' =>
              g \in known /\ epochs'[g].state = epochs[g].state /\ epochs[g].state # "PRE_RUN"
      BY <2>1, <2>3, <1>b DEF Preparing, known
    <2> QED BY <1>b, <1>c, <2>4, <2>5
  <1>3. CASE Advance
    <2>1. \A g \in Epoch : epochs'[g] = next_state(epochs[g]) /\ epochs[g] \in Object
      BY <1>3, <1>b DEF Advance
    <2>2. e \in known /\ f \in known
      BY <2>1, <1>b, NextStateKeeps DEF known
    <2>3. s # "PRE_RUN"
      BY <2>1, <1>b, NextStateKeeps DEF Object, State
    <2>4. \A g \in Epoch : /\ epochs'[g].state = "RUNNING" => epochs[g].state = "PRE_RUN"
                           /\ epochs'[g].state = "HANDOFF" => epochs[g].state = "RUNNING"
      BY <2>1, NextStateKeeps DEF Object, State
    <2> QED BY <1>b, <1>c, <2>2, <2>3, <2>4
  <1>4. CASE Kept
    BY <1>4, <1>b, <1>c DEF Kept
  <1> QED BY <1>1, <1>2, <1>3, <1>4, EpochsStep

LEMMA NewTakes ==
    ASSUME TypeOK, New
    PROVE  Takes /\ queue[1].type = "NEW" /\ Head(queue) = queue[1]
  <1>1. queue # << >> /\ Head(queue).type = "NEW" /\ queue' = Tail(queue) /\ operator' = operator
    BY DEF New, command
  <1> QED BY <1>1, QueueType DEF Takes

LEMMA NewStep ==
    ASSUME TypeOK, TypeOK', KnownHasKey, GenesisIsQuiet, NewIsNew, [Next]_vars
    PROVE  NewIsNew'
  <1>a. Len(queue) \in Nat /\ operator.issued \in Epoch /\ operator'.issued \in Epoch
    BY QueueType DEF TypeOK
  <1>b. /\ \A e \in Epoch : Met(e) => e <= operator.issued
        /\ \A i \in 1..Len(queue) : queue[i].type = "NEW" =>
               /\ queue[i].epoch \in Epoch /\ queue[i].epoch <= operator.issued
               /\ \A e \in Epoch : Met(e) => e < queue[i].epoch
               /\ \A j \in 1..Len(queue) :
                      j < i /\ queue[j].type = "NEW" => queue[j].epoch < queue[i].epoch
    BY DEF NewIsNew
  <1>c. \A e \in Epoch : Met(e)' => Met(e) \/ (New /\ e = queue[1].epoch)
    BY MetStep, NewTakes
  <1>d. New => Takes /\ queue[1].type = "NEW" /\ 1 \in 1..Len(queue)
    BY NewTakes, QueueType DEF Takes
  <1>e. \A e \in Epoch : Met(e)' => e <= operator.issued
    BY <1>b, <1>c, <1>d
  <1>1. ASSUME operator'.issued = operator.issued, queue' = << >>
        PROVE  NewIsNew'
    BY <1>1, <1>e DEF NewIsNew
  <1>2. ASSUME operator'.issued = operator.issued, queue' = queue
        PROVE  NewIsNew'
    <2>1. ~New
      BY <1>2, <1>a, <1>d DEF Takes
    <2>2. \A e \in Epoch : Met(e)' => Met(e)
      BY <2>1, <1>c
    <2> QED BY <1>2, <1>b, <2>2 DEF NewIsNew
  <1>3. ASSUME NEW order, Posts(order), operator'.issued = operator.issued, order.type # "NEW"
        PROVE  NewIsNew'
    <2>1. CASE queue' = queue
      BY <1>2, <1>3, <2>1
    <2>2. CASE /\ Len(queue') = Len(queue) + 1
               /\ queue'[Len(queue')] = order
               /\ \A i \in 1..Len(queue) : queue'[i] = queue[i]
      <3>1. ~New
        BY <2>2, <1>a, <1>d DEF Takes
      <3>2. \A e \in Epoch : Met(e)' => Met(e)
        BY <3>1, <1>c
      <3>3. \A i \in 1..Len(queue') : queue'[i].type = "NEW" =>
                i \in 1..Len(queue) /\ queue'[i] = queue[i]
        BY <1>3, <2>2, <1>a
      <3> QED BY <1>3, <1>b, <3>2, <3>3 DEF NewIsNew
    <2> QED BY <1>3, <2>1, <2>2 DEF Posts
  <1>4. ASSUME Takes
        PROVE  NewIsNew'
    <2>1. operator'.issued = operator.issued
      BY <1>4 DEF Takes
    <2>2. \A i \in 1..Len(queue') : i + 1 \in 1..Len(queue) /\ queue'[i] = queue[i + 1] /\ 1 < i + 1
      BY <1>4, <1>a DEF Takes
    <2>3. ASSUME NEW i \in 1..Len(queue'), queue'[i].type = "NEW"
          PROVE  /\ queue'[i].epoch \in Epoch /\ queue'[i].epoch <= operator'.issued
                 /\ \A e \in Epoch : Met(e)' => e < queue'[i].epoch
                 /\ \A j \in 1..Len(queue') :
                        j < i /\ queue'[j].type = "NEW" => queue'[j].epoch < queue'[i].epoch
      <3>1. i + 1 \in 1..Len(queue) /\ queue[i + 1].type = "NEW" /\ queue'[i] = queue[i + 1]
        BY <2>2, <2>3
      <3>2. queue'[i].epoch \in Epoch /\ queue'[i].epoch <= operator'.issued
        BY <3>1, <2>1, <1>b
      <3>3. \A e \in Epoch : Met(e)' => e < queue'[i].epoch
        BY <3>1, <2>2, <1>b, <1>c, <1>d
      <3>4. ASSUME NEW j \in 1..Len(queue'), j < i, queue'[j].type = "NEW"
            PROVE  queue'[j].epoch < queue'[i].epoch
        <4>1. j + 1 \in 1..Len(queue) /\ queue'[j] = queue[j + 1]
          BY <2>2
        <4>2. j + 1 < i + 1
          BY <3>4
        <4> QED BY <3>1, <3>4, <4>1, <4>2, <1>b
      <3> QED BY <3>2, <3>3, <3>4
    <2> QED BY <1>e, <2>1, <2>3 DEF NewIsNew
  <1>5. ASSUME IssueNew, Posts([type |-> "NEW", epoch |-> operator.issued + 1])
        PROVE  NewIsNew'
    <2> DEFINE new == operator.issued + 1
    <2>1. operator'.issued = new /\ new \in Epoch /\ new \in Int /\ operator.issued \in Int
      <3>1. operator.issued \in Int
        BY <1>a, EpochNumbers
      <3>2. operator' = [operator EXCEPT !.issued = @ + 1, !.phase = "new"]
        BY <1>5 DEF IssueNew
      <3>3. operator'.issued = new
        BY <3>2 DEF TypeOK
      <3> QED BY <3>1, <3>3, <1>a
    <2>2. \A e \in Epoch : e \in Int
      BY EpochNumbers
    <2>3. ~New
      BY <1>5, <1>a, <1>d DEF Takes, Posts
    <2>4. \A e \in Epoch : Met(e)' => Met(e)
      BY <2>3, <1>c
    <2>5. \A e \in Epoch : Met(e)' => e <= operator'.issued /\ e < new
      BY <1>e, <2>1, <2>2
    <2>6. CASE queue' = queue
      <3>1. \A i \in 1..Len(queue) : queue[i].type = "NEW" => queue[i].epoch <= new
        BY <1>b, <2>1, <2>2
      <3> QED BY <2>1, <2>4, <2>5, <2>6, <3>1, <1>b DEF NewIsNew
    <2>7. CASE /\ Len(queue') = Len(queue) + 1
               /\ queue'[Len(queue')] = [type |-> "NEW", epoch |-> new]
               /\ \A i \in 1..Len(queue) : queue'[i] = queue[i]
      <3>1. ASSUME NEW i \in 1..Len(queue'), queue'[i].type = "NEW"
            PROVE  /\ queue'[i].epoch \in Epoch /\ queue'[i].epoch <= operator'.issued
                   /\ \A e \in Epoch : Met(e)' => e < queue'[i].epoch
                   /\ \A j \in 1..Len(queue') :
                          j < i /\ queue'[j].type = "NEW" => queue'[j].epoch < queue'[i].epoch
        <4>1. \A j \in 1..Len(queue') : j < i => j \in 1..Len(queue) /\ queue'[j] = queue[j]
          BY <2>7, <1>a
        <4>2. CASE i = Len(queue')
          <5>1. queue'[i].epoch = new
            BY <2>7, <4>2
          <5>2. \A j \in 1..Len(queue) : queue[j].type = "NEW" => queue[j].epoch < new
            BY <1>b, <2>1, <2>2
          <5> QED BY <2>1, <2>5, <4>1, <5>1, <5>2
        <4>3. CASE i # Len(queue')
          <5>1. i \in 1..Len(queue) /\ queue'[i] = queue[i]
            BY <2>7, <4>3, <1>a
          <5>2. queue[i].epoch <= new
            BY <3>1, <5>1, <1>b, <2>1, <2>2
          <5> QED BY <3>1, <4>1, <5>1, <5>2, <2>1, <2>4, <1>b
        <4> QED BY <4>2, <4>3
      <3> QED BY <2>5, <3>1 DEF NewIsNew
    <2> QED BY <1>5, <2>6, <2>7 DEF Posts
  <1>6. CASE PostsOther
    BY <1>3, <1>6 DEF PostsOther
  <1>7. CASE IssueNext /\ Posts([type |-> "NEXT", epoch |-> NoEpoch])
    <2>1. operator'.issued = operator.issued
      BY <1>7 DEF IssueNext, TypeOK
    <2> QED BY <1>3, <1>7, <2>1
  <1> QED BY <1>1, <1>2, <1>4, <1>5, <1>6, <1>7, QueueStep DEF TakesOther

LEMMA PreparingStep ==
    ASSUME TypeOK, KnownHasKey, CurrentIsSaved, [Next]_vars, ~torn', Preparing'
    PROVE  ~torn /\ (New \/ (Preparing /\ ~Advance))
  <1>a. ~torn /\ epochs \in [Epoch -> Object]
    BY SaveStep DEF TypeOK
  <1>b. PICK e \in known' : epochs'[e].state = "PRE_RUN"
    BY DEF Preparing
  <1>c. e \in Epoch
    BY <1>b DEF known
  <1>1. CASE Restart
    BY <1>1, <1>a, <1>b, RestartLaunches DEF CurrentIsSaved
  <1>2. CASE Advance
    <2>1. epochs'[e] = next_state(epochs[e]) /\ epochs[e] \in Object
      BY <1>2, <1>a, <1>c DEF Advance
    <2> QED BY <1>b, <2>1, NextStateKeeps
  <1>3. CASE Kept /\ ~Advance
    BY <1>3, <1>a, <1>b, <1>c DEF Kept, Preparing
  <1> QED BY <1>1, <1>2, <1>3, <1>a, EpochsStep

LEMMA AdvanceTakes ==
    ASSUME TypeOK, Advance
    PROVE  Takes /\ queue[1].type = "NEXT"
  <1>1. queue # << >> /\ Head(queue).type = "NEXT" /\ queue' = Tail(queue) /\ operator' = operator
    BY DEF Advance, command
  <1> QED BY <1>1, QueueType DEF Takes

LEMMA BetweenStep ==
    ASSUME TypeOK, KnownHasKey, DownIsEmpty, CurrentIsSaved, NextBetween, [Next]_vars
    PROVE  NextBetween'
  <1>a. Len(queue) \in Nat
    BY QueueType
  <1>b. /\ \A i, j \in 1..Len(queue) :
               j < i /\ queue[j].type = "NEW" /\ queue[i].type = "NEW" =>
                   \E k \in 1..Len(queue) : j < k /\ k < i /\ queue[k].type = "NEXT"
        /\ \A j \in 1..Len(queue) :
               operator.phase = "idle" /\ queue[j].type = "NEW" =>
                   \E k \in 1..Len(queue) : j < k /\ queue[k].type = "NEXT"
        /\ ~torn /\ Preparing =>
               /\ \A i \in 1..Len(queue) : queue[i].type = "NEW" =>
                      \E k \in 1..Len(queue) : k < i /\ queue[k].type = "NEXT"
               /\ operator.phase = "idle" =>
                      \E k \in 1..Len(queue) : queue[k].type = "NEXT"
    BY DEF NextBetween
  <1>c. New \/ Advance => Takes
    BY NewTakes, AdvanceTakes
  <1>d. ~torn' /\ Preparing' => ~torn /\ (New \/ (Preparing /\ ~Advance))
    BY PreparingStep
  <1>1. ASSUME queue' = queue, operator'.phase = operator.phase
        PROVE  NextBetween'
    <2>1. ~New /\ ~Advance
      BY <1>1, <1>a, <1>c DEF Takes
    <2> QED BY <1>1, <1>b, <1>d, <2>1 DEF NextBetween
  <1>2. CASE queue' = << >> /\ epochs' = Nothing
    <2>1. ~Preparing'
      BY <1>2, NothingKnown DEF Preparing
    <2> QED BY <1>2, <2>1 DEF NextBetween
  <1>3. ASSUME queue' = queue, process # "up", IssueNew \/ IssueNext
        PROVE  NextBetween'
    <2>1. queue' = << >> /\ epochs' = Nothing
      BY <1>3 DEF DownIsEmpty, IssueNew, IssueNext
    <2> QED BY <1>2, <2>1
  <1>4. ASSUME NEW order, operator'.phase \in {"idle", "new"},
               Len(queue') = Len(queue) + 1, queue'[Len(queue')] = order,
               \A i \in 1..Len(queue) : queue'[i] = queue[i],
               order.type = "NEW" => operator.phase = "idle" /\ operator'.phase = "new",
               operator'.phase = "idle" => order.type = "NEXT" \/ operator.phase = "idle"
        PROVE  NextBetween'
    <2>1. ~New /\ ~Advance
      BY <1>4, <1>a, <1>c DEF Takes
    <2>2. /\ \A i \in 1..Len(queue') : i \in 1..Len(queue) \/ i = Len(queue')
          /\ \A i \in 1..Len(queue) : i \in 1..Len(queue') /\ i < Len(queue') /\ queue'[i] = queue[i]
          /\ Len(queue') \in 1..Len(queue') /\ Len(queue') \in Nat
      BY <1>4, <1>a
    <2>3. ASSUME NEW i \in 1..Len(queue'), NEW j \in 1..Len(queue'),
                 j < i, queue'[j].type = "NEW", queue'[i].type = "NEW"
          PROVE  \E k \in 1..Len(queue') : j < k /\ k < i /\ queue'[k].type = "NEXT"
      <3>0. j \in 1..Len(queue) /\ queue[j].type = "NEW"
        BY <2>2, <2>3
      <3>1. CASE i \in 1..Len(queue)
        <4>1. \E k \in 1..Len(queue) : j < k /\ k < i /\ queue[k].type = "NEXT"
          BY <1>b, <2>2, <2>3, <3>0, <3>1
        <4> QED BY <2>2, <4>1
      <3>2. CASE i = Len(queue')
        <4>1. operator.phase = "idle"
          BY <1>4, <2>3, <3>2
        <4>2. \E k \in 1..Len(queue) : j < k /\ queue[k].type = "NEXT"
          BY <1>b, <3>0, <4>1
        <4> QED BY <2>2, <3>2, <4>2
      <3> QED BY <2>2, <3>1, <3>2
    <2>4. ASSUME NEW j \in 1..Len(queue'), operator'.phase = "idle", queue'[j].type = "NEW"
          PROVE  \E k \in 1..Len(queue') : j < k /\ queue'[k].type = "NEXT"
      <3>1. order.type # "NEW"
        BY <1>4, <2>4
      <3>2. j \in 1..Len(queue) /\ queue[j].type = "NEW"
        BY <1>4, <2>2, <2>4, <3>1
      <3>3. CASE order.type = "NEXT"
        BY <1>4, <2>2, <3>2, <3>3
      <3>4. CASE operator.phase = "idle"
        <4>1. \E k \in 1..Len(queue) : j < k /\ queue[k].type = "NEXT"
          BY <1>b, <3>2, <3>4
        <4> QED BY <2>2, <4>1
      <3> QED BY <1>4, <2>4, <3>3, <3>4
    <2>5. ASSUME ~torn', Preparing'
          PROVE  /\ \A i \in 1..Len(queue') : queue'[i].type = "NEW" =>
                        \E k \in 1..Len(queue') : k < i /\ queue'[k].type = "NEXT"
                 /\ operator'.phase = "idle" =>
                        \E k \in 1..Len(queue') : queue'[k].type = "NEXT"
      <3>0. ~torn /\ Preparing
        BY <1>d, <2>1, <2>5
      <3>1. ASSUME NEW i \in 1..Len(queue'), queue'[i].type = "NEW"
            PROVE  \E k \in 1..Len(queue') : k < i /\ queue'[k].type = "NEXT"
        <4>1. CASE i \in 1..Len(queue)
          <5>1. \E k \in 1..Len(queue) : k < i /\ queue[k].type = "NEXT"
            BY <1>b, <2>2, <3>0, <3>1, <4>1
          <5> QED BY <2>2, <5>1
        <4>2. CASE i = Len(queue')
          <5>1. operator.phase = "idle"
            BY <1>4, <3>1, <4>2
          <5>2. \E k \in 1..Len(queue) : queue[k].type = "NEXT"
            BY <1>b, <3>0, <5>1
          <5> QED BY <2>2, <4>2, <5>2
        <4> QED BY <2>2, <4>1, <4>2
      <3>2. ASSUME operator'.phase = "idle"
            PROVE  \E k \in 1..Len(queue') : queue'[k].type = "NEXT"
        <4>1. CASE order.type = "NEXT"
          BY <1>4, <2>2, <4>1
        <4>2. CASE operator.phase = "idle"
          BY <1>b, <2>2, <3>0, <4>2
        <4> QED BY <1>4, <3>2, <4>1, <4>2
      <3> QED BY <3>1, <3>2
    <2> QED BY <2>3, <2>4, <2>5 DEF NextBetween
  <1>5. CASE IssueNew /\ Posts([type |-> "NEW", epoch |-> operator.issued + 1])
    <2>1. operator.phase = "idle" /\ operator'.phase = "new"
      BY <1>5 DEF IssueNew, TypeOK
    <2> QED BY <1>3, <1>4, <1>5, <2>1 DEF Posts
  <1>6. CASE IssueNext /\ Posts([type |-> "NEXT", epoch |-> NoEpoch])
    <2>1. operator'.phase = "idle"
      BY <1>6 DEF IssueNext, TypeOK
    <2> QED BY <1>3, <1>4, <1>6, <2>1 DEF Posts
  <1>7. CASE PostsOther
    <2>1. PICK order \in Order : order.type \notin {"NEW", "NEXT"} /\ Posts(order)
      BY <1>7 DEF PostsOther
    <2>2. operator'.phase = operator.phase /\ operator.phase \in {"idle", "new"}
      BY <1>7 DEF PostsOther, TypeOK
    <2> QED BY <1>1, <1>4, <2>1, <2>2 DEF Posts
  <1>8. ASSUME Takes, New \/ Advance \/ queue[1].type # "NEXT"
        PROVE  NextBetween'
    <2>0. operator'.phase = operator.phase
      BY <1>8 DEF Takes
    <2>1. /\ \A i \in 1..Len(queue') : i + 1 \in 1..Len(queue) /\ queue'[i] = queue[i + 1] /\ 1 < i + 1
          /\ \A k \in 1..Len(queue) : k # 1 => k - 1 \in 1..Len(queue') /\ queue'[k - 1] = queue[k]
          /\ 1 \in 1..Len(queue)
      BY <1>8, <1>a, QueueType DEF Takes
    <2>2. ASSUME NEW i \in 1..Len(queue'), NEW j \in 1..Len(queue'),
                 j < i, queue'[j].type = "NEW", queue'[i].type = "NEW"
          PROVE  \E k \in 1..Len(queue') : j < k /\ k < i /\ queue'[k].type = "NEXT"
      <3>1. /\ j + 1 < i + 1 /\ i + 1 \in 1..Len(queue) /\ j + 1 \in 1..Len(queue)
            /\ queue[j + 1].type = "NEW" /\ queue[i + 1].type = "NEW"
        BY <2>1, <2>2
      <3>2. PICK k \in 1..Len(queue) : j + 1 < k /\ k < i + 1 /\ queue[k].type = "NEXT"
        BY <1>b, <3>1
      <3>3. k # 1 /\ j < k - 1 /\ k - 1 < i
        BY <3>2
      <3> QED BY <2>1, <3>2, <3>3
    <2>3. ASSUME NEW j \in 1..Len(queue'), operator'.phase = "idle", queue'[j].type = "NEW"
          PROVE  \E k \in 1..Len(queue') : j < k /\ queue'[k].type = "NEXT"
      <3>1. PICK k \in 1..Len(queue) : j + 1 < k /\ queue[k].type = "NEXT"
        BY <1>b, <2>0, <2>1, <2>3
      <3>2. k # 1 /\ j < k - 1
        BY <3>1
      <3> QED BY <2>1, <3>1, <3>2
    <2>4. ASSUME ~torn', Preparing'
          PROVE  /\ \A i \in 1..Len(queue') : queue'[i].type = "NEW" =>
                        \E k \in 1..Len(queue') : k < i /\ queue'[k].type = "NEXT"
                 /\ operator'.phase = "idle" =>
                        \E k \in 1..Len(queue') : queue'[k].type = "NEXT"
      <3>1. CASE New
        <4>1. queue[1].type = "NEW"
          BY <3>1, NewTakes
        <4>2. ASSUME NEW i \in 1..Len(queue'), queue'[i].type = "NEW"
              PROVE  \E k \in 1..Len(queue') : k < i /\ queue'[k].type = "NEXT"
          <5>1. PICK k \in 1..Len(queue) : 1 < k /\ k < i + 1 /\ queue[k].type = "NEXT"
            BY <1>b, <2>1, <4>1, <4>2
          <5>2. k # 1 /\ k - 1 < i
            BY <5>1
          <5> QED BY <2>1, <5>1, <5>2
        <4>3. ASSUME operator'.phase = "idle"
              PROVE  \E k \in 1..Len(queue') : queue'[k].type = "NEXT"
          <5>1. PICK k \in 1..Len(queue) : 1 < k /\ queue[k].type = "NEXT"
            BY <1>b, <2>0, <2>1, <4>1, <4>3
          <5> QED BY <2>1, <5>1
        <4> QED BY <4>2, <4>3
      <3>2. CASE ~New
        <4>1. ~torn /\ Preparing /\ ~Advance
          BY <1>d, <2>4, <3>2
        <4>2. queue[1].type # "NEXT"
          BY <1>8, <3>2, <4>1
        <4>3. ASSUME NEW i \in 1..Len(queue'), queue'[i].type = "NEW"
              PROVE  \E k \in 1..Len(queue') : k < i /\ queue'[k].type = "NEXT"
          <5>1. PICK k \in 1..Len(queue) : k < i + 1 /\ queue[k].type = "NEXT"
            BY <1>b, <2>1, <4>1, <4>3
          <5>2. k # 1 /\ k - 1 < i
            BY <4>2, <5>1
          <5> QED BY <2>1, <5>1, <5>2
        <4>4. ASSUME operator'.phase = "idle"
              PROVE  \E k \in 1..Len(queue') : queue'[k].type = "NEXT"
          <5>1. PICK k \in 1..Len(queue) : queue[k].type = "NEXT"
            BY <1>b, <2>0, <4>1, <4>4
          <5> QED BY <2>1, <4>2, <5>1
        <4> QED BY <4>3, <4>4
      <3> QED BY <3>1, <3>2
    <2> QED BY <2>2, <2>3, <2>4 DEF NextBetween
  <1> QED BY <1>1, <1>2, <1>5, <1>6, <1>7, <1>8, QueueStep DEF TakesOther

-----------------------------------------------------------------------------
(***************************************************************************)
(* The inductive invariant, and the theorems.                              *)
(***************************************************************************)
IInv == /\ TypeOK /\ DownIsEmpty /\ KnownHasKey /\ NewIsNew /\ NextBetween
        /\ CurrentIsSaved /\ GenesisIsQuiet /\ KeysAgree /\ FileIsNewest /\ Staggered

LEMMA InvInit == Init => IInv
  <1> SUFFICES ASSUME Init PROVE IInv
    OBVIOUS
  <1>1. TypeOK
    BY TypeInit
  <1>2. /\ queue = << >> /\ epochs = Nothing /\ known = {}
        /\ disk.current = Genesis /\ newest = Genesis /\ operator.issued = Genesis
        /\ \A e \in Epoch : announced[e] = {} /\ ~isSaved(e)
    BY NothingType DEF Init, known, isSaved
  <1>3. DownIsEmpty /\ CurrentIsSaved /\ FileIsNewest /\ GenesisIsQuiet
    BY <1>2, NothingType, EpochNumbers DEF DownIsEmpty, CurrentIsSaved, FileIsNewest, GenesisIsQuiet
  <1>4. KnownHasKey /\ KeysAgree /\ Staggered
    BY <1>2, NothingType DEF KnownHasKey, KeysAgree, Staggered
  <1>5. NewIsNew
    <2>1. \A e \in Epoch : Met(e) => e <= operator.issued
      BY <1>2 DEF Met, Genesis
    <2> QED BY <1>2, <2>1 DEF NewIsNew
  <1>6. NextBetween
    BY <1>2 DEF NextBetween, Preparing
  <1> QED BY <1>1, <1>3, <1>4, <1>5, <1>6 DEF IInv

LEMMA InvStep == IInv /\ [Next]_vars => IInv'
  <1> SUFFICES ASSUME IInv, [Next]_vars PROVE IInv'
    OBVIOUS
  <1> USE DEF IInv
  <1>1. TypeOK' /\ KnownHasKey' /\ DownIsEmpty' /\ CurrentIsSaved' /\ FileIsNewest'
    BY TypeStep, KeyStep, DownStep, CurrentStep, FileStep
  <1>2. GenesisIsQuiet' /\ NewIsNew'
    BY <1>1, GenesisStep, NewStep
  <1>3. NextBetween' /\ KeysAgree' /\ Staggered'
    BY BetweenStep, KeysStep, StaggeredStep
  <1> QED BY <1>1, <1>2, <1>3

(* The named parts hold together in every state that a server reaches.     *)
THEOREM Invariant == Spec => []IInv
  BY InvInit, InvStep, PTL DEF Spec

(* The state of a server has its type: no step of its main loop, of its    *)
(* tasks or of a crash leaves an object, a file or a queue malformed.      *)
THEOREM TypeCorrect == Spec => []TypeOK
  <1>1. IInv => TypeOK
    BY DEF IInv
  <1> QED BY <1>1, Invariant, PTL

(* However many epochs the operator creates, whatever commands a server    *)
(* misses and wherever it restarts, it prepares, runs and hands off one    *)
(* epoch each at a time.                                                   *)
THEOREM OneEpochPerState == Spec => []Staggered
  <1>1. IInv => Staggered
    BY DEF IInv
  <1> QED BY <1>1, Invariant, PTL

(* An epoch is served with the key of its ARK, also after restarts.        *)
THEOREM ServesWithAnnouncedKey == Spec => []KeysAsAnnounced
  <1>1. IInv => KeysAsAnnounced
    BY DEF IInv, KeysAgree, KeysAsAnnounced, known
  <1> QED BY <1>1, Invariant, PTL

(* A restart finds the newest epoch that the server has served.            *)
THEOREM RestartsInNewest == Spec => ResumesNewest
  <1>1. IInv /\ [Next]_vars => [process # "up" /\ process' = "up" => current' = newest \/ late \/ torn]_vars
    <2> SUFFICES ASSUME IInv, [Next]_vars, process # "up", process' = "up"
                 PROVE  current' = newest \/ late \/ torn
      OBVIOUS
    <2>1. Restart
      <3>1. \A e \in Epoch : epochs[e].ark = "none" /\ epochs[e].run = "none"
        BY NothingType DEF IInv, DownIsEmpty
      <3>2. ASSUME NEW type PROVE ~command(type)
        BY DEF command
      <3>3. ~New /\ ~Advance /\ ~Off /\ ~FloodEpoch
        BY <3>2 DEF New, Advance, Off, FloodEpoch
      <3>4. ~Crash /\ ~IssueNew /\ ~IssueNext /\ ~IssueFlood
        BY DEF Crash, IssueNew, IssueNext, IssueFlood
      <3>5. ASSUME NEW e \in Epoch
            PROVE  /\ ~IssueOff(e) /\ ~PreRun(e) /\ ~NoLink(e) /\ ~LoadFails(e)
                   /\ ~Serve(e) /\ ~CrashInSave(e) /\ ~SaveRouter(e)
        BY <3>1 DEF IssueOff, PreRun, NoLink, LoadFails, Serve, CrashInSave, SaveRouter, isLoaded
      <3>6. process' # process
        OBVIOUS
      <3> QED BY <3>3, <3>4, <3>5, <3>6 DEF Next, vars
    <2>2. current' = disk.current
      BY <2>1 DEF Restart, launch_epoch
    <2> QED BY <2>2 DEF IInv, FileIsNewest
  <1> QED BY <1>1, Invariant, PTL DEF Spec, ResumesNewest

=============================================================================
