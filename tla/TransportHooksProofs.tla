----------------------- MODULE TransportHooksProofs -----------------------
(***************************************************************************)
(* Theorems about TransportHooks, for every set of hooks and packages,     *)
(* whatever hooks match, and any number of copies.                         *)
(*                                                                         *)
(* The argument: a package that a task has in hand was put to a hook       *)
(* already, so taking it out of the pool afterwards mislays nothing; and   *)
(* only packages never seen before enter the pool, none of which has been  *)
(* put to anybody, so what is in the pool and was put is in hand.  A hook  *)
(* is in the list once, and a walk that has put a package to a hook has    *)
(* left it behind: removals only move it further back.                     *)
(***************************************************************************)
EXTENDS TransportHooks, SequenceTheorems, TLAPS

(* A check in progress is about a package that it has put to a hook.       *)
InHand(check) ==
    check # Idle => /\ check.pkg \in Package
                    /\ Delivered(check.pkg)

(* So is what a scanning hook holds; the others hold nothing.              *)
HeldInHand ==
    \A h \in Hook :
        IF status[h] = "scanning"
        THEN held[h] \in Package /\ Delivered(held[h])
        ELSE held[h] = None

(* Only packages that were seen are in the pool or were put to a hook, and *)
(* what package_task submits is not in the pool.                           *)
SeenFirst ==
    /\ message_pool \subseteq seen
    /\ \A p \in Package : Delivered(p) => p \in seen
    /\ package_task.pkg \notin message_pool

(* What is known of packages in hand and in the pool.                      *)
PoolInv ==
    /\ InHand(package_task)
    /\ InHand(hook_task)
    /\ HeldInHand
    /\ SeenFirst
    /\ NothingVanishes
    /\ PoolIsUndelivered

(* A hook in the list is registered.                                       *)
ListedIsRegistered ==
    \A i \in 1..Len(hooks) : status[hooks[i]] = "registered"

(* No hook is in the list twice.                                           *)
ListedOnce ==
    \A i, j \in 1..Len(hooks) : hooks[i] = hooks[j] => i = j

(* The hook has joined, and is behind the check or gone from the list.     *)
Passed(check, h) ==
    /\ status[h] \in {"registered", "removed"}
    /\ \A i \in 1..Len(hooks) : hooks[i] = h => i < check.next

(* No other hook matches the package.                                      *)
OnlyMatch(h, p) == \A g \in Hook \ {h} : <<g, p>> \notin Matches

(* How often a package has been put to the only hook that matches it.      *)
PutOnce ==
    \A h \in Hook, p \in Package : OnlyMatch(h, p) =>
        /\ put[h][p] <= 1
        /\ put[h][p] = 1 => p \notin message_pool \/ held[h] = p \/ hook_task.pkg = p
        /\ package_task.pkg = p => Passed(package_task, h)
        /\ hook_task.pkg = p => Passed(hook_task, h)

OrderInv ==
    /\ ListedIsRegistered
    /\ ListedOnce
    /\ PutOnce

IInv ==
    /\ TypeOK
    /\ PoolInv
    /\ OrderInv

-----------------------------------------------------------------------------
(* The records of checks: Idle, a new one, one that went on.               *)
Check == [pkg : Package \cup {None}, next : Nat, due : SUBSET Hook]

LEMMA CheckTypes ==
    /\ Idle \in Check /\ Idle.pkg = None
    /\ \A p \in Package : /\ Begin(p) \in Check
                          /\ Begin(p).pkg = p
                          /\ Begin(p).next = 1
    /\ \A check \in Check, i \in Nat :
          /\ After(check, i) \in Check
          /\ After(check, i).pkg = check.pkg
          /\ After(check, i).next = i + 1
  <1>1. Idle \in Check /\ Idle.pkg = None
    BY DEF Check, Idle
  <1>2. ASSUME NEW p \in Package
        PROVE  Begin(p) \in Check /\ Begin(p).pkg = p /\ Begin(p).next = 1
    <2> DEFINE all == {h \in Hook : InList(h) /\ <<h, p>> \in Matches}
    <2>1. Begin(p) = [pkg |-> p, next |-> 1, due |-> all]
      BY DEF Begin
    <2>2. all \in SUBSET Hook
      OBVIOUS
    <2> HIDE DEF all
    <2>3. \A d \in SUBSET Hook :
              [pkg |-> p, next |-> 1, due |-> d] \in Check
      BY DEF Check
    <2>4. Begin(p) \in Check
      BY <2>1, <2>2, <2>3
    <2>5. Begin(p).pkg = p /\ Begin(p).next = 1
      BY DEF Begin
    <2>6. QED
      BY <2>4, <2>5
  <1>3. ASSUME NEW check \in Check, NEW i \in Nat
        PROVE  /\ After(check, i) \in Check
               /\ After(check, i).pkg = check.pkg
               /\ After(check, i).next = i + 1
    BY DEF Check, After
  <1>4. QED
    BY <1>1, <1>2, <1>3

(* Putting a package to a hook counts it there and nowhere else.           *)
LEMMA PutCounts ==
    ASSUME TypeOK, NEW h \in Hook, NEW p \in Package, Put(h, p)
    PROVE  /\ put' \in [Hook -> [Package -> Nat]]
           /\ put'[h][p] = put[h][p] + 1
           /\ \A g \in Hook, q \in Package :
                 g # h \/ q # p => put'[g][q] = put[g][q]
           /\ Delivered(p)'
           /\ \A q \in Package : Delivered(q) => Delivered(q)'
           /\ \A q \in Package \ {p} : Delivered(q)' => Delivered(q)
  <1>1. put \in [Hook -> [Package -> Nat]] /\ put' = [put EXCEPT ![h][p] = @ + 1]
    BY DEF TypeOK, Put
  <1>2. /\ put' \in [Hook -> [Package -> Nat]]
        /\ put'[h][p] = put[h][p] + 1
        /\ \A g \in Hook, q \in Package : g # h \/ q # p => put'[g][q] = put[g][q]
    BY <1>1
  <1>3. \A q \in Package : Delivered(q)' <=> \E g \in Hook : put'[g][q] > 0
    BY DEF Delivered
  <1>4. put'[h][p] > 0 /\ \A g \in Hook, q \in Package : put[g][q] > 0 => put'[g][q] > 0
    BY <1>1, <1>2
  <1>5. \A q \in Package \ {p}, g \in Hook : put'[g][q] = put[g][q]
    BY <1>2
  <1>6. QED
    BY <1>2, <1>3, <1>4, <1>5 DEF Delivered

(* A check goes on to a hook in the list that matches its package.         *)
LEMMA PutAtFacts ==
    ASSUME TypeOK, NEW check \in Check, NEW i \in 1..Len(hooks), PutAt(check, i)
    PROVE  /\ hooks[i] \in Hook
           /\ check.pkg \in Package
           /\ <<hooks[i], check.pkg>> \in Matches
           /\ check.next <= i
           /\ Put(hooks[i], check.pkg)
  BY HooksAssumption DEF PutAt, Ahead, TypeOK

LEMMA PutAtTypes ==
    ASSUME TypeOK, NEW check \in Check, NEW i \in 1..Len(hooks), PutAt(check, i)
    PROVE  /\ After(check, i) \in Check
           /\ put' \in [Hook -> [Package -> Nat]]
  <1>1. i \in Nat
    OBVIOUS
  <1>2. After(check, i) \in Check
    BY <1>1, CheckTypes
  <1>3. put' \in [Hook -> [Package -> Nat]]
    BY PutAtFacts, PutCounts
  <1>4. QED
    BY <1>2, <1>3

(* A check that goes on has put its package.                               *)
LEMMA WalkFacts ==
    ASSUME TypeOK, NEW check \in Check, NEW i \in 1..Len(hooks), PutAt(check, i)
    PROVE  /\ After(check, i).pkg = check.pkg
           /\ check.pkg \in Package
           /\ \A q \in Package : Delivered(q) \/ q = check.pkg => Delivered(q)'
           /\ \A q \in Package : Delivered(q)' => Delivered(q) \/ q = check.pkg
  <1>1. i \in Nat
    OBVIOUS
  <1>2. After(check, i).pkg = check.pkg
    BY <1>1, CheckTypes
  <1>3. hooks[i] \in Hook /\ check.pkg \in Package /\ Put(hooks[i], check.pkg)
    BY PutAtFacts
  <1>4. PICK p \in Package : p = check.pkg
    BY <1>3
  <1>5. Put(hooks[i], p)
    BY <1>3, <1>4
  <1>6. /\ Delivered(p)'
        /\ \A q \in Package : Delivered(q) => Delivered(q)'
        /\ \A q \in Package \ {p} : Delivered(q)' => Delivered(q)
    BY <1>3, <1>5, PutCounts
  <1>7. \A q \in Package : Delivered(q) \/ q = p => Delivered(q)'
    <2> SUFFICES ASSUME NEW q \in Package, Delivered(q) \/ q = p PROVE Delivered(q)'
      OBVIOUS
    <2>1. CASE q = p
      BY <1>6, <2>1 DEF Delivered
    <2>2. QED
      BY <1>6, <2>1
  <1>8. QED
    BY <1>2, <1>3, <1>4, <1>6, <1>7

(* Removing a hook leaves the other hooks in their order, each where it    *)
(* was or one further up.                                                  *)
LEMMA WithoutFacts ==
    ASSUME TypeOK, NEW h
    PROVE  /\ Without(hooks, h) \in Seq(Hook)
           /\ \A i \in 1..Len(Without(hooks, h)) :
                 \/ i \in 1..Len(hooks) /\ Without(hooks, h)[i] = hooks[i]
                 \/ i + 1 \in 1..Len(hooks) /\ Without(hooks, h)[i] = hooks[i + 1]
  <1> DEFINE at == CHOOSE i \in 1..Len(hooks) : hooks[i] = h
             f == Without(hooks, h)
             n == IF Len(hooks) = 0 THEN 0 ELSE Len(hooks) - 1
  <1>1. n \in Nat /\ Len(hooks) \in Nat /\ hooks \in [1..Len(hooks) -> Hook]
    BY LenProperties DEF TypeOK
  <1>2. 1..(Len(hooks) - 1) = 1..n
    BY <1>1
  <1>3. f = [i \in 1..n |-> IF i < at THEN hooks[i] ELSE hooks[i + 1]]
    BY <1>2 DEF Without
  <1>4. \A i \in 1..n : i \in 1..Len(hooks) /\ i + 1 \in 1..Len(hooks)
    BY <1>1
  <1> HIDE DEF at, n
  <1>5. f \in [1..n -> Hook]
    BY <1>1, <1>3, <1>4
  <1>6. f \in Seq(Hook) /\ Len(f) = n
    BY <1>1, <1>5, SeqDef, LenProperties
  <1>7. QED
    BY <1>3, <1>4, <1>6

(* The steps of a scan.                                                    *)
LEMMA ScanCases ==
    ASSUME NEW h \in Hook, NEW rest, NEW pool, Scan(h, rest, pool)
    PROVE  /\ message_pool' = pool
           /\ \/ /\ hooks' = Append(hooks, h)
                 /\ status' = [status EXCEPT ![h] = "registered"]
                 /\ scan' = [scan EXCEPT ![h] = {}]
                 /\ held' = [held EXCEPT ![h] = None]
                 /\ UNCHANGED put
              \/ \E p \in rest \cap pool :
                 /\ <<h, p>> \in Matches
                 /\ Put(h, p)
                 /\ status' = [status EXCEPT ![h] = "scanning"]
                 /\ scan' = [scan EXCEPT ![h] = rest \ {p}]
                 /\ held' = [held EXCEPT ![h] = p]
                 /\ UNCHANGED hooks
  BY DEF Scan

-----------------------------------------------------------------------------
LEMMA TypeStep == TypeOK /\ [Next]_vars => TypeOK'
  <1> SUFFICES ASSUME TypeOK, [Next]_vars PROVE TypeOK'
    OBVIOUS
  <1> USE HooksAssumption
  <1>0. package_task \in Check /\ hook_task \in Check
    BY DEF TypeOK, Check
  <1>1. ASSUME NEW p \in Package, processEncPkg(p) \/ refusePkg(p)
        PROVE  TypeOK'
    <2>1. network' \in [Package -> 0..MaxCopies]
      <3>1. network[p] \in 0..MaxCopies /\ network[p] > 0
        BY <1>1 DEF TypeOK, processEncPkg, refusePkg
      <3>2. network[p] - 1 \in 0..MaxCopies
        BY <3>1
      <3>3. network' = [network EXCEPT ![p] = @ - 1]
        BY <1>1 DEF processEncPkg, refusePkg
      <3>4. network \in [Package -> 0..MaxCopies]
        BY DEF TypeOK
      <3>5. QED
        BY <3>2, <3>3, <3>4
    <2>2. CASE processEncPkg(p)
      <3>1. incoming_package_queue' \in Seq(Package)
        BY <2>2, AppendProperties DEF TypeOK, processEncPkg
      <3>2. QED
        BY <2>1, <2>2, <3>1 DEF TypeOK, processEncPkg, registering
    <2>3. CASE refusePkg(p)
      BY <2>1, <2>3 DEF TypeOK, refusePkg, registering
    <2>4. QED
      BY <1>1, <2>2, <2>3
  <1>2. CASE ReceiveOld
    BY <1>2, HeadTailProperties DEF TypeOK, ReceiveOld, registering
  <1>3. CASE ReceiveNew
    <2> DEFINE p == Head(incoming_package_queue)
    <2>1. p \in Package /\ Tail(incoming_package_queue) \in Seq(Package)
      BY <1>3, HeadTailProperties DEF ReceiveNew, TypeOK
    <2>2. package_task' \in Check /\ put' \in [Hook -> [Package -> Nat]]
          /\ message_pool' \subseteq Package
      <3>1. CASE UNCHANGED <<package_task, put>> /\ message_pool' = message_pool \cup {p}
        BY <1>0, <2>1, <3>1 DEF TypeOK
      <3>2. ASSUME NEW i \in 1..Len(hooks), PutAt(Begin(p), i),
                   package_task' = After(Begin(p), i), UNCHANGED message_pool
            PROVE  package_task' \in Check /\ put' \in [Hook -> [Package -> Nat]]
                   /\ message_pool' \subseteq Package
        <4> HIDE DEF p
        <4>1. Begin(p) \in Check
          BY <2>1, CheckTypes
        <4>2. package_task' \in Check /\ put' \in [Hook -> [Package -> Nat]]
          BY <3>2, <4>1, PutAtTypes
        <4>3. message_pool' \subseteq Package
          BY <3>2 DEF TypeOK
        <4>4. QED
          BY <4>2, <4>3
      <3>3. QED
        BY <1>3, <3>1, <3>2 DEF ReceiveNew
    <2>3. QED
      BY <1>3, <2>1, <2>2 DEF ReceiveNew, TypeOK, registering, Check
  <1>4. CASE SubmitOn
    <2>1. package_task' \in Check /\ put' \in [Hook -> [Package -> Nat]]
      <3>1. CASE package_task' = Idle /\ UNCHANGED put
        BY <3>1, CheckTypes DEF TypeOK
      <3>2. ASSUME NEW i \in 1..Len(hooks), PutAt(package_task, i),
                   package_task' = After(package_task, i)
            PROVE  package_task' \in Check /\ put' \in [Hook -> [Package -> Nat]]
        BY <1>0, <3>2, PutAtTypes
      <3>3. QED
        BY <1>4, <3>1, <3>2 DEF SubmitOn
    <2>2. QED
      BY <1>4, <2>1 DEF SubmitOn, TypeOK, registering, Check
  <1>5. CASE StartSweep
    BY <1>5 DEF StartSweep, TypeOK, registering
  <1>6. CASE SweepOn
    <2>1. hook_task' \in Check /\ put' \in [Hook -> [Package -> Nat]]
      <3>1. CASE hook_task' = Idle /\ UNCHANGED put
        BY <3>1, CheckTypes DEF TypeOK
      <3>2. ASSUME NEW i \in 1..Len(hooks), PutAt(hook_task, i),
                   hook_task' = After(hook_task, i)
            PROVE  hook_task' \in Check /\ put' \in [Hook -> [Package -> Nat]]
        BY <1>0, <3>2, PutAtTypes
      <3>3. QED
        BY <1>6, <3>1, <3>2 DEF SweepOn
    <2>2. QED
      BY <1>6, <2>1 DEF SweepOn, TypeOK, registering, Check
  <1>7. ASSUME NEW p \in Package, SweepPast(p) \/ SweepOld(p)
        PROVE  TypeOK'
    BY <1>7 DEF SweepPast, SweepOld, TypeOK, registering
  <1>8. ASSUME NEW p \in Package, SweepPut(p)
        PROVE  TypeOK'
    <2>1. hook_task' \in Check /\ put' \in [Hook -> [Package -> Nat]]
      BY <1>8, CheckTypes, PutAtTypes DEF SweepPut
    <2>2. QED
      BY <1>8, <2>1 DEF SweepPut, TypeOK, registering, Check
  <1>9. ASSUME NEW h \in Hook, register_hook(h) \/ RegisterOn(h)
        PROVE  TypeOK'
    <2>1. PICK rest \in SUBSET Package, pool \in SUBSET Package :
              Scan(h, rest, pool)
      BY <1>9 DEF register_hook, RegisterOn, TypeOK
    <2> DEFINE Typed == /\ hooks' \in Seq(Hook)
                        /\ status' \in [Hook -> {"new", "scanning", "registered", "removed"}]
                        /\ scan' \in [Hook -> SUBSET Package]
                        /\ held' \in [Hook -> Package \cup {None}]
                        /\ put' \in [Hook -> [Package -> Nat]]
    <2>2. message_pool' \subseteq Package /\ Typed
      <3>1. ASSUME hooks' = Append(hooks, h),
                   status' = [status EXCEPT ![h] = "registered"],
                   scan' = [scan EXCEPT ![h] = {}],
                   held' = [held EXCEPT ![h] = None],
                   UNCHANGED put
            PROVE  Typed
        <4>1. hooks' \in Seq(Hook)
          BY <3>1, AppendProperties DEF TypeOK
        <4>2. QED
          BY <3>1, <4>1 DEF TypeOK
      <3>2. ASSUME NEW p \in rest \cap pool, Put(h, p),
                   status' = [status EXCEPT ![h] = "scanning"],
                   scan' = [scan EXCEPT ![h] = rest \ {p}],
                   held' = [held EXCEPT ![h] = p],
                   UNCHANGED hooks
            PROVE  Typed
        <4>1. put' \in [Hook -> [Package -> Nat]]
          BY <3>2, PutCounts
        <4>2. QED
          BY <3>2, <4>1 DEF TypeOK
      <3>3. message_pool' \subseteq Package
        BY <2>1, ScanCases
      <3> HIDE DEF Typed
      <3>4. QED
        BY <2>1, <3>1, <3>2, <3>3, ScanCases
    <2>3. QED
      BY <1>9, <2>2 DEF register_hook, RegisterOn, TypeOK
  <1>10. ASSUME NEW h \in Hook, CancelRegister(h)
         PROVE  TypeOK'
    BY <1>10 DEF CancelRegister, TypeOK
  <1>11. ASSUME NEW h \in Hook, remove_hook(h)
         PROVE  TypeOK'
    BY <1>11, WithoutFacts DEF remove_hook, TypeOK
  <1>12. CASE UNCHANGED vars
    BY <1>12 DEF vars, registering, TypeOK
  <1>13. QED
    BY <1>1, <1>2, <1>3, <1>4, <1>5, <1>6, <1>7, <1>8, <1>9, <1>10, <1>11, <1>12
       DEF Next

(* Every reachable state is well typed: hooks and packages stay what they  *)
(* are, also in the list that remove_hook shortens under a walk.           *)
THEOREM TypeCorrect == Spec => []TypeOK
  <1>1. Init => TypeOK
    BY HooksAssumption DEF Init, TypeOK, Idle, registering
  <1>2. QED
    BY <1>1, TypeStep, PTL DEF Spec

-----------------------------------------------------------------------------
(* A step that puts nothing delivers nothing.                              *)
LEMMA PutKept == UNCHANGED put => \A p \in Package : Delivered(p)' <=> Delivered(p)
  BY DEF Delivered

(* Every step keeps what is known of packages in hand and in the pool.     *)
LEMMA PoolStep ==
    ASSUME TypeOK, PoolInv, ListedIsRegistered, [Next]_vars
    PROVE  PoolInv'
  <1> USE HooksAssumption DEF PoolInv
  <1>0. package_task \in Check /\ hook_task \in Check
    BY DEF TypeOK, Check
  <1>1. ASSUME NEW p \in Package, processEncPkg(p) \/ refusePkg(p)
        PROVE  PoolInv'
    BY <1>1, PutKept DEF processEncPkg, refusePkg, registering, InHand, HeldInHand,
       SeenFirst, NothingVanishes, PoolIsUndelivered, Delivered
  <1>2. CASE ReceiveOld
    BY <1>2 DEF ReceiveOld, registering, InHand, HeldInHand,
       SeenFirst, NothingVanishes, PoolIsUndelivered, Delivered
  <1>3. CASE ReceiveNew
    <2>1. PICK p \in Package : p = Head(incoming_package_queue)
      BY <1>3, HeadTailProperties DEF ReceiveNew, TypeOK
    <2>2. /\ p \notin seen /\ seen' = seen \cup {p}
          /\ package_task = Idle
          /\ UNCHANGED <<registering, hook_task, dropped>>
      BY <1>3, <2>1 DEF ReceiveNew, is_msg_new
    <2>3. p \notin message_pool /\ ~Delivered(p) /\ message_pool \subseteq Package
      BY <2>1, <2>2 DEF SeenFirst, TypeOK
    <2>4. hook_task.pkg # p /\ \A h \in Hook : held[h] # p
      BY <2>1, <2>2, <2>3, CheckTypes DEF InHand, HeldInHand
    <2>5. CASE /\ UNCHANGED <<package_task, put>>
               /\ message_pool' = message_pool \cup {p}
      <3>1. \A q \in Package : Delivered(q)' <=> Delivered(q)
        BY <2>5, PutKept
      <3>2. InHand(package_task)' /\ InHand(hook_task)' /\ HeldInHand'
        BY <2>2, <2>5, <3>1 DEF registering, InHand, HeldInHand, Delivered
      <3>3. SeenFirst'
        BY <2>1, <2>2, <2>5, <3>1, CheckTypes DEF SeenFirst
      <3>4. NothingVanishes'
        BY <2>2, <2>5, <3>1 DEF NothingVanishes, TypeOK
      <3>5. PoolIsUndelivered'
        BY <2>1, <2>2, <2>3, <2>5, <3>1 DEF PoolIsUndelivered, registering
      <3>6. QED
        BY <3>2, <3>3, <3>4, <3>5
    <2>6. ASSUME NEW i \in 1..Len(hooks), PutAt(Begin(p), i),
                 package_task' = After(Begin(p), i), UNCHANGED message_pool
          PROVE  PoolInv'
      <3>1. Begin(p) \in Check /\ Begin(p).pkg = p
        BY <2>1, CheckTypes
      <3>2. /\ package_task'.pkg = p
            /\ Delivered(p)'
            /\ \A q \in Package : Delivered(q) => Delivered(q)'
            /\ \A q \in Package \ {p} : Delivered(q)' => Delivered(q)
        BY <2>6, <3>1, WalkFacts
      <3>3. InHand(package_task)' /\ InHand(hook_task)' /\ HeldInHand'
        <4>1. InHand(package_task)'
          BY <2>1, <2>2, <3>2 DEF InHand, Delivered
        <4>2. InHand(hook_task)'
          BY <2>1, <2>2, <3>2 DEF InHand, Delivered
        <4>3. HeldInHand'
          BY <2>1, <2>2, <3>2 DEF registering, HeldInHand, Delivered
        <4>4. QED
          BY <4>1, <4>2, <4>3
      <3>4. SeenFirst'
        BY <2>1, <2>2, <2>3, <2>6, <3>1, <3>2 DEF SeenFirst
      <3>5. NothingVanishes'
        BY <2>1, <2>2, <2>6, <3>2 DEF NothingVanishes, TypeOK
      <3>6. PoolIsUndelivered'
        BY <2>2, <2>3, <2>6, <3>2 DEF PoolIsUndelivered, registering
      <3>7. QED
        BY <3>3, <3>4, <3>5, <3>6
    <2>7. QED
      BY <1>3, <2>1, <2>5, <2>6 DEF ReceiveNew
  <1>4. CASE SubmitOn
    <2>1. UNCHANGED <<seen, registering, message_pool, hook_task, dropped>>
          /\ message_pool \subseteq Package
      BY <1>4 DEF SubmitOn, TypeOK
    <2>2. CASE package_task' = Idle /\ UNCHANGED put
      <3>1. \A q \in Package : Delivered(q)' <=> Delivered(q)
        BY <2>2, PutKept
      <3>2. SeenFirst'
        BY <2>1, <2>2, <3>1, CheckTypes DEF SeenFirst
      <3>3. QED
        BY <2>1, <2>2, <3>1, <3>2 DEF InHand, HeldInHand, registering,
           NothingVanishes, PoolIsUndelivered, TypeOK
    <2>3. ASSUME NEW i \in 1..Len(hooks), PutAt(package_task, i),
                 package_task' = After(package_task, i)
          PROVE  PoolInv'
      <3>1. PICK p \in Package : package_task.pkg = p /\ package_task'.pkg = p
        BY <1>0, <2>3, WalkFacts
      <3>2. package_task # Idle /\ p \in seen /\ p \notin message_pool
        BY <1>4, <3>1 DEF SubmitOn, InHand, SeenFirst
      <3>3. /\ Delivered(p)'
            /\ \A q \in Package : Delivered(q) => Delivered(q)'
            /\ \A q \in Package \ {p} : Delivered(q)' => Delivered(q)
        BY <1>0, <2>3, <3>1, WalkFacts
      <3>4. InHand(package_task)' /\ InHand(hook_task)' /\ HeldInHand'
        <4>1. InHand(package_task)'
          BY <3>1, <3>3 DEF InHand, Delivered
        <4>2. InHand(hook_task)'
          BY <2>1, <3>3 DEF InHand, Delivered
        <4>3. HeldInHand'
          BY <2>1, <3>3 DEF registering, HeldInHand, Delivered
        <4>4. QED
          BY <4>1, <4>2, <4>3
      <3>5. SeenFirst'
        BY <2>1, <3>1, <3>2, <3>3 DEF SeenFirst
      <3>6. NothingVanishes'
        BY <2>1, <3>3 DEF NothingVanishes, TypeOK
      <3>7. PoolIsUndelivered'
        BY <2>1, <3>2, <3>3 DEF PoolIsUndelivered, registering
      <3>8. QED
        BY <3>4, <3>5, <3>6, <3>7
    <2>4. QED
      BY <1>4, <2>2, <2>3 DEF SubmitOn
  <1>5. CASE StartSweep
    BY <1>5 DEF StartSweep, registering, InHand, HeldInHand,
       SeenFirst, NothingVanishes, PoolIsUndelivered, Delivered
  <1>6. CASE SweepOn
    <2>1. UNCHANGED <<seen, registering, package_task, dropped>>
          /\ message_pool \subseteq Package
      BY <1>6 DEF SweepOn, TypeOK
    <2>2. PICK p \in Package : hook_task.pkg = p /\ Delivered(p)
      BY <1>6 DEF SweepOn, InHand, Delivered
    <2>3. CASE /\ hook_task' = Idle /\ UNCHANGED put
               /\ message_pool' = message_pool \ {p}
      <3>1. \A q \in Package : Delivered(q)' <=> Delivered(q)
        BY <2>3, PutKept
      <3>2. InHand(package_task)' /\ InHand(hook_task)' /\ HeldInHand'
        BY <2>1, <2>3, <3>1 DEF registering, InHand, HeldInHand, Delivered
      <3>3. SeenFirst'
        BY <2>1, <2>3, <3>1 DEF SeenFirst
      <3>4. NothingVanishes'
        BY <2>1, <2>2, <2>3, <3>1 DEF NothingVanishes, TypeOK
      <3>5. PoolIsUndelivered'
        BY <2>1, <2>2, <2>3, <3>1 DEF PoolIsUndelivered, registering
      <3>6. QED
        BY <3>2, <3>3, <3>4, <3>5
    <2>4. ASSUME NEW i \in 1..Len(hooks), PutAt(hook_task, i),
                 hook_task' = After(hook_task, i), UNCHANGED message_pool
          PROVE  PoolInv'
      <3>1. hook_task'.pkg = p
        BY <1>0, <2>2, <2>4, WalkFacts
      <3>2. /\ Delivered(p)'
            /\ \A q \in Package : Delivered(q) => Delivered(q)'
            /\ \A q \in Package \ {p} : Delivered(q)' => Delivered(q)
        BY <1>0, <2>2, <2>4, WalkFacts
      <3>3. InHand(package_task)' /\ InHand(hook_task)' /\ HeldInHand'
        <4>1. InHand(package_task)'
          BY <2>1, <2>2, <3>2 DEF InHand, Delivered
        <4>2. InHand(hook_task)'
          BY <3>1, <3>2 DEF InHand, Delivered
        <4>3. HeldInHand'
          BY <2>1, <2>2, <3>2 DEF registering, HeldInHand, Delivered
        <4>4. QED
          BY <4>1, <4>2, <4>3
      <3>4. SeenFirst'
        BY <2>1, <2>2, <2>4, <3>2 DEF SeenFirst
      <3>5. NothingVanishes'
        BY <2>1, <2>4, <3>2 DEF NothingVanishes, TypeOK
      <3>6. PoolIsUndelivered'
        BY <2>1, <2>2, <2>4, <3>1, <3>2 DEF PoolIsUndelivered, registering
      <3>7. QED
        BY <3>3, <3>4, <3>5, <3>6
    <2>5. QED
      BY <1>6, <2>2, <2>3, <2>4 DEF SweepOn
  <1>7. ASSUME NEW p \in Package, SweepPast(p)
        PROVE  PoolInv'
    BY <1>7 DEF SweepPast, registering, InHand, HeldInHand,
       SeenFirst, NothingVanishes, PoolIsUndelivered, Delivered
  <1>8. ASSUME NEW p \in Package, SweepOld(p)
        PROVE  PoolInv'
    BY <1>8 DEF SweepOld, registering, InHand, HeldInHand,
       SeenFirst, NothingVanishes, PoolIsUndelivered, Delivered
  <1>9. ASSUME NEW p \in Package, SweepPut(p)
        PROVE  PoolInv'
    <2>1. /\ UNCHANGED <<seen, registering, message_pool, package_task, dropped>>
          /\ hook_task = Idle /\ p \in message_pool
          /\ message_pool \subseteq Package
      BY <1>9 DEF SweepPut, TypeOK
    <2>2. PICK i \in 1..Len(hooks) : PutAt(Begin(p), i) /\ hook_task' = After(Begin(p), i)
      BY <1>9 DEF SweepPut
    <2>3. hook_task.pkg = None /\ Begin(p) \in Check /\ Begin(p).pkg = p
      BY <2>1, CheckTypes
    <2>4. /\ hook_task'.pkg = p
          /\ Delivered(p)'
          /\ \A q \in Package : Delivered(q) => Delivered(q)'
          /\ \A q \in Package \ {p} : Delivered(q)' => Delivered(q)
      BY <2>2, <2>3, WalkFacts
    <2>5. InHand(package_task)' /\ InHand(hook_task)' /\ HeldInHand'
      BY <2>1, <2>3, <2>4 DEF registering, InHand, HeldInHand, Delivered
    <2>6. SeenFirst'
      BY <2>1, <2>4 DEF SeenFirst
    <2>7. NothingVanishes'
      BY <2>1, <2>4 DEF NothingVanishes, TypeOK
    <2>8. PoolIsUndelivered'
      BY <2>1, <2>3, <2>4 DEF PoolIsUndelivered, registering
    <2>9. QED
      BY <2>5, <2>6, <2>7, <2>8
  <1>10. ASSUME NEW h \in Hook, NEW rest, NEW pool,
                Scan(h, rest, pool), pool \subseteq message_pool,
                \A p \in message_pool \ pool : held[h] = p,
                held[h] # None => held[h] \notin pool /\ status[h] = "scanning",
                UNCHANGED <<seen, package_task, hook_task, dropped>>
         PROVE  PoolInv'
    <2>1. pool \subseteq Package /\ message_pool' = pool
      BY <1>10, ScanCases DEF TypeOK
    <2>2. \A p \in message_pool \ pool : Delivered(p)
      BY <1>10 DEF HeldInHand, TypeOK
    <2>3. ASSUME status' = [status EXCEPT ![h] = "registered"],
                 held' = [held EXCEPT ![h] = None],
                 UNCHANGED put
          PROVE  PoolInv'
      <3>1. \A q \in Package : Delivered(q)' <=> Delivered(q)
        BY <2>3, PutKept
      <3>2. InHand(package_task)' /\ InHand(hook_task)'
        BY <1>10, <3>1 DEF InHand
      <3>3. HeldInHand'
        BY <2>3, <3>1 DEF HeldInHand, TypeOK
      <3>4. SeenFirst'
        BY <1>10, <2>1, <3>1 DEF SeenFirst
      <3>5. NothingVanishes'
        BY <1>10, <2>1, <2>2, <3>1 DEF NothingVanishes, TypeOK
      <3>6. PoolIsUndelivered'
        BY <1>10, <2>1, <2>3, <3>1 DEF PoolIsUndelivered, TypeOK
      <3>7. QED
        BY <3>2, <3>3, <3>4, <3>5, <3>6
    <2>4. ASSUME NEW p \in rest \cap pool, Put(h, p),
                 status' = [status EXCEPT ![h] = "scanning"],
                 held' = [held EXCEPT ![h] = p]
          PROVE  PoolInv'
      <3>1. /\ Delivered(p)'
            /\ \A q \in Package : Delivered(q) => Delivered(q)'
            /\ \A q \in Package \ {p} : Delivered(q)' => Delivered(q)
        BY <2>1, <2>4, PutCounts
      <3>2. InHand(package_task)' /\ InHand(hook_task)'
        BY <1>10, <3>1 DEF InHand
      <3>3. HeldInHand'
        BY <2>1, <2>4, <3>1 DEF HeldInHand, TypeOK
      <3>4. SeenFirst'
        BY <1>10, <2>1, <2>4, <3>1 DEF SeenFirst
      <3>5. NothingVanishes'
        BY <1>10, <2>1, <2>2, <3>1 DEF NothingVanishes, TypeOK
      <3>6. PoolIsUndelivered'
        BY <1>10, <2>1, <2>4, <3>1 DEF PoolIsUndelivered, TypeOK
      <3>7. QED
        BY <3>2, <3>3, <3>4, <3>5, <3>6
    <2>5. QED
      BY <1>10, <2>3, <2>4, ScanCases
  <1>11. ASSUME NEW h \in Hook, register_hook(h)
         PROVE  PoolInv'
    <2>1. held[h] = None
      BY <1>11 DEF register_hook, HeldInHand
    <2>2. QED
      BY <1>10, <1>11, <2>1 DEF register_hook
  <1>12. ASSUME NEW h \in Hook, RegisterOn(h)
         PROVE  PoolInv'
    BY <1>10, <1>12 DEF RegisterOn
  <1>13. ASSUME NEW h \in Hook, CancelRegister(h)
         PROVE  PoolInv'
    <2>1. held[h] \in Package /\ Delivered(held[h])
      BY <1>13 DEF CancelRegister, HeldInHand
    <2>2. QED
      BY <1>13, <2>1 DEF CancelRegister, InHand, HeldInHand,
         SeenFirst, NothingVanishes, PoolIsUndelivered, Delivered, TypeOK
  <1>14. ASSUME NEW h \in Hook, remove_hook(h)
         PROVE  PoolInv'
    BY <1>14 DEF remove_hook, ListedIsRegistered, InList, InHand, HeldInHand,
       SeenFirst, NothingVanishes, PoolIsUndelivered, Delivered, TypeOK
  <1>15. CASE UNCHANGED vars
    BY <1>15 DEF vars, registering, InHand, HeldInHand,
       SeenFirst, NothingVanishes, PoolIsUndelivered, Delivered
  <1>16. QED
    BY <1>1, <1>2, <1>3, <1>4, <1>5, <1>6, <1>7, <1>8, <1>9, <1>11, <1>12, <1>13,
       <1>14, <1>15 DEF Next

-----------------------------------------------------------------------------
(* A check stops only at hooks that match, and never at one it passed.     *)
LEMMA StopsAhead ==
    ASSUME TypeOK, NEW check \in Check, NEW i \in 1..Len(hooks), PutAt(check, i),
           NEW h \in Hook, NEW p \in Package, p = check.pkg, OnlyMatch(h, p)
    PROVE  hooks[i] = h /\ ~Passed(check, h)
  <1>1. hooks[i] \in Hook /\ <<hooks[i], p>> \in Matches /\ check.next <= i
    BY PutAtFacts
  <1>2. hooks[i] = h
    BY <1>1 DEF OnlyMatch
  <1>3. i \in Nat /\ check.next \in Nat
    BY DEF Check
  <1>4. QED
    BY <1>1, <1>2, <1>3 DEF Passed

(* After the stop it has passed that hook.                                 *)
LEMMA PassedNow ==
    ASSUME TypeOK, ListedIsRegistered, ListedOnce, NEW check \in Check,
           NEW i \in 1..Len(hooks)
    PROVE  Passed(After(check, i), hooks[i])
  <1>1. i \in Nat /\ After(check, i).next = i + 1
    BY CheckTypes
  <1>2. QED
    BY <1>1 DEF Passed, ListedIsRegistered, ListedOnce

(* Removing the hook keeps the others apart, and it is gone.               *)
LEMMA WithoutOnce ==
    ASSUME TypeOK, ListedOnce, NEW h \in Hook, InList(h)
    PROVE  /\ \A i \in 1..Len(Without(hooks, h)) : Without(hooks, h)[i] # h
           /\ \A i, j \in 1..Len(Without(hooks, h)) :
                 Without(hooks, h)[i] = Without(hooks, h)[j] => i = j
  <1> DEFINE f == Without(hooks, h)
  <1>1. PICK at \in 1..Len(hooks) :
            /\ hooks[at] = h
            /\ f = [i \in 1..(Len(hooks) - 1) |-> IF i < at THEN hooks[i] ELSE hooks[i + 1]]
    BY DEF InList, Without
  <1>2. Len(hooks) \in Nat \ {0} /\ at \in Nat
    BY <1>1, LenProperties DEF TypeOK
  <1>3. f \in Seq(Hook) /\ DOMAIN f = 1..(Len(hooks) - 1)
    BY <1>1, WithoutFacts
  <1>4. 1..Len(f) = 1..(Len(hooks) - 1)
    BY <1>3, LenProperties
  <1> HIDE DEF f
  <1>5. \A i \in 1..Len(f) : \E k \in 1..Len(hooks) :
            k = (IF i < at THEN i ELSE i + 1) /\ k # at /\ f[i] = hooks[k]
    BY <1>1, <1>2, <1>4
  <1>6. \A i \in 1..Len(f) : f[i] # h
    BY <1>1, <1>5 DEF ListedOnce
  <1>7. \A i, j \in 1..Len(f) : f[i] = f[j] => i = j
    <2> SUFFICES ASSUME NEW i \in 1..Len(f), NEW j \in 1..Len(f), f[i] = f[j] PROVE i = j
      OBVIOUS
    <2>1. (IF i < at THEN i ELSE i + 1) = (IF j < at THEN j ELSE j + 1)
      BY <1>5 DEF ListedOnce
    <2>2. QED
      BY <1>2, <1>4, <2>1
  <1>8. QED
    BY <1>6, <1>7 DEF f

(* Every step keeps the order of hooks and walks.                          *)
LEMMA OrderStep ==
    ASSUME TypeOK, PoolInv, OrderInv, [Next]_vars
    PROVE  OrderInv'
  <1> USE HooksAssumption DEF OrderInv
  <1>0. package_task \in Check /\ hook_task \in Check
    BY DEF TypeOK, Check
  <1>1. ASSUME UNCHANGED <<hooks, status, held, put, package_task, hook_task>>,
               message_pool' \subseteq message_pool
        PROVE  OrderInv'
    BY <1>1 DEF ListedIsRegistered, ListedOnce, PutOnce, Passed
  <1>2. CASE ReceiveNew
    <2>1. PICK p \in Package : p = Head(incoming_package_queue)
      BY <1>2, HeadTailProperties DEF ReceiveNew, TypeOK
    <2>2. /\ p \notin seen /\ package_task = Idle
          /\ UNCHANGED <<hooks, status, held, hook_task>>
      BY <1>2, <2>1 DEF ReceiveNew, is_msg_new, registering
    <2>3. \A h \in Hook : put[h][p] = 0 
      BY <2>1, <2>2 DEF PoolInv, SeenFirst, Delivered, TypeOK
    <2>4. ListedIsRegistered' /\ ListedOnce'
      BY <2>2 DEF ListedIsRegistered, ListedOnce
    <2>5. CASE /\ UNCHANGED <<package_task, put>>
               /\ message_pool' = message_pool \cup {p}
      <3>1. PutOnce'
        BY <2>2, <2>3, <2>5 DEF PutOnce, Passed
      <3>2. QED
        BY <2>4, <3>1
    <2>6. ASSUME NEW i \in 1..Len(hooks), PutAt(Begin(p), i),
                 package_task' = After(Begin(p), i), UNCHANGED message_pool
          PROVE  OrderInv'
      <3>1. /\ Begin(p) \in Check /\ Begin(p).pkg = p
            /\ package_task'.pkg = p
            /\ p \notin message_pool /\ hook_task.pkg # p
        BY <2>1, <2>2, <2>3, <2>6, CheckTypes, WalkFacts
           DEF PoolInv, InHand, SeenFirst, Delivered
      <3>2. hooks[i] \in Hook /\ Put(hooks[i], p)
        BY <2>6, <3>1, PutAtFacts
      <3>3. /\ \A g \in Hook : put'[g][p] \in {0, 1}
            /\ \A g \in Hook, q \in Package : q # p => put'[g][q] = put[g][q]
        <4>1. put'[hooks[i]][p] = put[hooks[i]][p] + 1
              /\ \A g \in Hook, q \in Package :
                    g # hooks[i] \/ q # p => put'[g][q] = put[g][q]
          BY <3>2, PutCounts
        <4>2. put'[hooks[i]][p] = 1
          BY <2>3, <3>2, <4>1
        <4>3. \A g \in Hook : put'[g][p] \in {0, 1}
          BY <2>3, <4>1, <4>2
        <4>4. QED
          BY <4>1, <4>3
      <3>4. \A h \in Hook : OnlyMatch(h, p) => Passed(package_task, h)'
        <4> SUFFICES ASSUME NEW h \in Hook, OnlyMatch(h, p) PROVE Passed(package_task, h)'
          OBVIOUS
        <4>1. hooks[i] = h
          BY <2>6, <3>1, StopsAhead
        <4>2. Passed(After(Begin(p), i), h)
          BY <3>1, <4>1, PassedNow
        <4>3. QED
          BY <2>2, <2>6, <4>2 DEF Passed
      <3>5. PutOnce'
        BY <2>2, <2>6, <3>1, <3>3, <3>4 DEF PutOnce, Passed
      <3>6. QED
        BY <2>4, <3>5
    <2>7. QED
      BY <1>2, <2>1, <2>5, <2>6 DEF ReceiveNew
  <1>3. CASE SubmitOn
    <2>1. UNCHANGED <<hooks, status, held, message_pool, hook_task>>
      BY <1>3 DEF SubmitOn, registering
    <2>2. ListedIsRegistered' /\ ListedOnce'
      BY <2>1 DEF ListedIsRegistered, ListedOnce
    <2>3. CASE package_task' = Idle /\ UNCHANGED put
      <3>1. PutOnce'
        BY <2>1, <2>3, CheckTypes DEF PutOnce, Passed
      <3>2. QED
        BY <2>2, <3>1
    <2>4. ASSUME NEW i \in 1..Len(hooks), PutAt(package_task, i),
                 package_task' = After(package_task, i)
          PROVE  OrderInv'
      <3>1. PICK p \in Package : package_task.pkg = p /\ package_task'.pkg = p
        BY <1>0, <2>4, WalkFacts
      <3>2. hooks[i] \in Hook /\ Put(hooks[i], p)
        BY <1>0, <2>4, <3>1, PutAtFacts
      <3>3. \A h \in Hook : ~OnlyMatch(h, p)
        BY <1>0, <2>4, <3>1, StopsAhead DEF PutOnce
      <3>4. \A g \in Hook, q \in Package : q # p => put'[g][q] = put[g][q]
        BY <3>2, PutCounts
      <3>5. PutOnce'
        BY <2>1, <3>1, <3>3, <3>4 DEF PutOnce, Passed
      <3>6. QED
        BY <2>2, <3>5
    <2>5. QED
      BY <1>3, <2>3, <2>4 DEF SubmitOn
  <1>4. CASE SweepOn
    <2>1. UNCHANGED <<hooks, status, held, package_task>>
      BY <1>4 DEF SweepOn, registering
    <2>2. ListedIsRegistered' /\ ListedOnce'
      BY <2>1 DEF ListedIsRegistered, ListedOnce
    <2>3. CASE /\ hook_task' = Idle /\ UNCHANGED put
               /\ message_pool' = message_pool \ {hook_task.pkg}
      <3>1. PutOnce'
        BY <2>1, <2>3, CheckTypes DEF PutOnce, Passed
      <3>2. QED
        BY <2>2, <3>1
    <2>4. ASSUME NEW i \in 1..Len(hooks), PutAt(hook_task, i),
                 hook_task' = After(hook_task, i), UNCHANGED message_pool
          PROVE  OrderInv'
      <3>1. PICK p \in Package : hook_task.pkg = p /\ hook_task'.pkg = p
        BY <1>0, <2>4, WalkFacts
      <3>2. hooks[i] \in Hook /\ Put(hooks[i], p)
        BY <1>0, <2>4, <3>1, PutAtFacts
      <3>3. \A h \in Hook : ~OnlyMatch(h, p)
        BY <1>0, <2>4, <3>1, StopsAhead DEF PutOnce
      <3>4. \A g \in Hook, q \in Package : q # p => put'[g][q] = put[g][q]
        BY <3>2, PutCounts
      <3>5. PutOnce'
        BY <2>1, <2>4, <3>1, <3>3, <3>4 DEF PutOnce, Passed
      <3>6. QED
        BY <2>2, <3>5
    <2>5. QED
      BY <1>4, <2>3, <2>4 DEF SweepOn
  <1>5. ASSUME NEW p \in Package, SweepPut(p)
        PROVE  OrderInv'
    <2>1. /\ UNCHANGED <<hooks, status, held, message_pool, package_task>>
          /\ hook_task = Idle /\ p \in message_pool
      BY <1>5 DEF SweepPut, registering
    <2>2. PICK i \in 1..Len(hooks) : PutAt(Begin(p), i) /\ hook_task' = After(Begin(p), i)
      BY <1>5 DEF SweepPut
    <2>3. /\ hook_task.pkg = None
          /\ Begin(p) \in Check /\ Begin(p).pkg = p
          /\ hook_task'.pkg = p
          /\ package_task.pkg # p
      BY <2>1, <2>2, CheckTypes, WalkFacts DEF PoolInv, SeenFirst
    <2>4. hooks[i] \in Hook /\ Put(hooks[i], p) /\ status[hooks[i]] = "registered"
      BY <2>2, <2>3, PutAtFacts DEF ListedIsRegistered
    <2>5. /\ put'[hooks[i]][p] = put[hooks[i]][p] + 1
          /\ \A g \in Hook, q \in Package :
                g # hooks[i] \/ q # p => put'[g][q] = put[g][q]
      BY <2>4, PutCounts
    <2>6. \A h \in Hook : OnlyMatch(h, p) =>
              hooks[i] = h /\ put[h][p] = 0 /\ Passed(hook_task, h)'
      <3> SUFFICES ASSUME NEW h \in Hook, OnlyMatch(h, p)
                   PROVE  hooks[i] = h /\ put[h][p] = 0 /\ Passed(hook_task, h)'
        OBVIOUS
      <3>1. hooks[i] = h
        BY <2>2, <2>3, StopsAhead
      <3>2. held[h] # p
        BY <2>4, <3>1 DEF PoolInv, HeldInHand
      <3>3. put[h][p] \in Nat /\ put[h][p] <= 1 /\ put[h][p] # 1
        BY <2>1, <2>3, <3>2 DEF PutOnce, TypeOK
      <3>4. Passed(After(Begin(p), i), h)
        BY <2>3, <3>1, PassedNow
      <3>5. Passed(hook_task, h)'
        BY <2>1, <2>2, <3>4 DEF Passed
      <3>6. QED
        BY <3>1, <3>3, <3>5
    <2>7. PutOnce'
      <3> SUFFICES ASSUME NEW h \in Hook, NEW q \in Package, OnlyMatch(h, q)
                   PROVE  /\ put'[h][q] <= 1
                          /\ put'[h][q] = 1 => \/ q \notin message_pool'
                                               \/ held'[h] = q \/ hook_task'.pkg = q
                          /\ package_task'.pkg = q => Passed(package_task, h)'
                          /\ hook_task'.pkg = q => Passed(hook_task, h)'
        BY DEF PutOnce
      <3>1. package_task'.pkg = q => Passed(package_task, h)'
        BY <2>1 DEF PutOnce, Passed
      <3>2. CASE q = p
        BY <2>1, <2>3, <2>5, <2>6, <3>1, <3>2
      <3>3. CASE q # p
        BY <2>1, <2>3, <2>5, <3>1, <3>3 DEF PutOnce
      <3>4. QED
        BY <3>2, <3>3
    <2>8. QED
      BY <2>1, <2>7 DEF ListedIsRegistered, ListedOnce
  <1>6. ASSUME NEW h \in Hook, NEW rest, NEW pool,
               Scan(h, rest, pool), pool \subseteq message_pool,
               \A p \in Package : held[h] = p => p \notin pool,
               status[h] \in {"new", "scanning"},
               UNCHANGED <<package_task, hook_task>>
        PROVE  OrderInv'
    <2>1. pool \subseteq Package /\ message_pool' = pool
      BY <1>6, ScanCases DEF TypeOK
    <2>2. \A i \in 1..Len(hooks) : hooks[i] # h
      BY <1>6 DEF ListedIsRegistered
    <2>3. \A q \in Package : OnlyMatch(h, q) => package_task.pkg # q /\ hook_task.pkg # q
      BY <1>6 DEF PutOnce, Passed
    <2>4. ASSUME hooks' = Append(hooks, h),
                 status' = [status EXCEPT ![h] = "registered"],
                 held' = [held EXCEPT ![h] = None],
                 UNCHANGED put
          PROVE  OrderInv'
      <3>1. /\ Len(hooks) \in Nat
            /\ Len(hooks') = Len(hooks) + 1
            /\ \A i \in 1..Len(hooks) : hooks'[i] = hooks[i] /\ hooks[i] \in Hook
            /\ hooks'[Len(hooks) + 1] = h
        BY <2>4, AppendProperties, LenProperties DEF TypeOK
      <3>2. ListedIsRegistered'
        BY <2>4, <3>1 DEF ListedIsRegistered, TypeOK
      <3>3. ListedOnce'
        BY <2>2, <3>1 DEF ListedOnce
      <3>4. \A g \in Hook \ {h} : /\ Passed(package_task, g) => Passed(package_task, g)'
                                  /\ Passed(hook_task, g) => Passed(hook_task, g)'
        BY <1>6, <2>4, <3>1 DEF Passed, TypeOK
      <3>5. PutOnce'
        BY <1>6, <2>1, <2>3, <2>4, <3>4 DEF PutOnce, TypeOK
      <3>6. QED
        BY <3>2, <3>3, <3>5
    <2>5. ASSUME NEW p \in rest \cap pool, <<h, p>> \in Matches, Put(h, p),
                 status' = [status EXCEPT ![h] = "scanning"],
                 held' = [held EXCEPT ![h] = p],
                 UNCHANGED hooks
          PROVE  OrderInv'
      <3>1. ListedIsRegistered' /\ ListedOnce'
        <4>1. \A i \in 1..Len(hooks) : hooks[i] \in Hook \ {h}
          BY <2>2, LenProperties DEF TypeOK
        <4>2. QED
          BY <2>5, <4>1 DEF ListedIsRegistered, ListedOnce, TypeOK
      <3>2. \A g \in Hook \ {h} : /\ ~OnlyMatch(g, p)
                                  /\ Passed(package_task, g) => Passed(package_task, g)'
                                  /\ Passed(hook_task, g) => Passed(hook_task, g)'
        BY <1>6, <2>5 DEF Passed, TypeOK, OnlyMatch
      <3>3. p \in Package /\ p \in message_pool /\ held[h] # p
        BY <1>6, <2>1, <2>5
      <3>4. OnlyMatch(h, p) => put[h][p] = 0
        <4>1. OnlyMatch(h, p) => put[h][p] \in Nat /\ put[h][p] <= 1 /\ put[h][p] # 1
          BY <2>3, <3>3 DEF PutOnce, TypeOK
        <4>2. QED
          BY <4>1
      <3>5. /\ put'[h][p] = put[h][p] + 1
            /\ \A g \in Hook, q \in Package : g # h \/ q # p => put'[g][q] = put[g][q]
        BY <2>5, <3>3, PutCounts
      <3>6. PutOnce'
        <4> SUFFICES ASSUME NEW g \in Hook, NEW q \in Package, OnlyMatch(g, q)
                     PROVE  /\ put'[g][q] <= 1
                            /\ put'[g][q] = 1 => \/ q \notin message_pool'
                                                 \/ held'[g] = q \/ hook_task'.pkg = q
                            /\ package_task'.pkg = q => Passed(package_task, g)'
                            /\ hook_task'.pkg = q => Passed(hook_task, g)'
          BY DEF PutOnce
        <4>1. CASE g = h
          BY <1>6, <2>1, <2>3, <2>5, <3>3, <3>4, <3>5, <4>1, SMTT(30) DEF PutOnce, TypeOK
        <4>2. CASE g # h
          <5>1. q # p
            BY <3>2, <4>2
          <5>2. put'[g][q] = put[g][q] /\ held'[g] = held[g]
            BY <2>5, <3>5, <4>2 DEF TypeOK
          <5>3. QED
            BY <1>6, <2>1, <3>2, <4>2, <5>1, <5>2 DEF PutOnce
        <4>3. QED
          BY <4>1, <4>2
      <3>7. QED
        BY <3>1, <3>6
    <2>6. QED
      BY <1>6, <2>4, <2>5, ScanCases
  <1>7. ASSUME NEW h \in Hook, register_hook(h)
        PROVE  OrderInv'
    <2>1. held[h] = None
      BY <1>7 DEF register_hook, PoolInv, HeldInHand
    <2>2. QED
      BY <1>6, <1>7, <2>1 DEF register_hook
  <1>8. ASSUME NEW h \in Hook, RegisterOn(h)
        PROVE  OrderInv'
    BY <1>6, <1>8 DEF RegisterOn
  <1>9. ASSUME NEW h \in Hook, CancelRegister(h)
        PROVE  OrderInv'
    <2>1. /\ status[h] = "scanning"
          /\ status' = [status EXCEPT ![h] = "removed"]
          /\ held' = [held EXCEPT ![h] = None]
          /\ message_pool' = message_pool \ {held[h]}
          /\ UNCHANGED <<hooks, put, package_task, hook_task>>
      BY <1>9 DEF CancelRegister
    <2>2. ListedIsRegistered' /\ ListedOnce'
      BY <2>1, SMTT(60) DEF ListedIsRegistered, ListedOnce, TypeOK
    <2>3. \A g \in Hook : /\ Passed(package_task, g) => Passed(package_task, g)'
                          /\ Passed(hook_task, g) => Passed(hook_task, g)'
      BY <2>1 DEF Passed, TypeOK
    <2>4. PutOnce'
      BY <2>1, <2>3 DEF PutOnce, TypeOK
    <2>5. QED
      BY <2>2, <2>4
  <1>10. ASSUME NEW h \in Hook, remove_hook(h)
         PROVE  OrderInv'
    <2>1. /\ InList(h)
          /\ status' = [status EXCEPT ![h] = "removed"]
          /\ hooks' = Without(hooks, h)
          /\ UNCHANGED <<held, message_pool, put, package_task, hook_task>>
      BY <1>10 DEF remove_hook
    <2>2. ListedIsRegistered' /\ ListedOnce'
      <3>1. /\ \A i \in 1..Len(hooks') : hooks'[i] # h
            /\ ListedOnce'
        BY <2>1, WithoutOnce DEF ListedOnce
      <3>2. \A i \in 1..Len(hooks') : \E k \in 1..Len(hooks) : hooks'[i] = hooks[k]
        BY <2>1, WithoutFacts
      <3>3. \A k \in 1..Len(hooks) : hooks[k] \in Hook
        BY LenProperties DEF TypeOK
      <3>4. \A k \in 1..Len(hooks) : hooks[k] # h => status'[hooks[k]] = "registered"
        BY <2>1, <3>3 DEF ListedIsRegistered, TypeOK
      <3>5. ListedIsRegistered'
        BY <3>1, <3>2, <3>4 DEF ListedIsRegistered
      <3>6. QED
        BY <3>1, <3>5
    <2>3. \A g \in Hook : /\ Passed(package_task, g) => Passed(package_task, g)'
                          /\ Passed(hook_task, g) => Passed(hook_task, g)'
      <3>1. package_task.next \in Nat /\ hook_task.next \in Nat
        BY <1>0 DEF Check
      <3>2. \A i \in 1..Len(hooks') :
               \/ i \in 1..Len(hooks) /\ hooks'[i] = hooks[i]
               \/ i + 1 \in 1..Len(hooks) /\ hooks'[i] = hooks[i + 1]
        BY <2>1, WithoutFacts
      <3>3. \A i \in 1..Len(hooks') : i \in Nat
        OBVIOUS
      <3>4. \A g \in Hook : status[g] \in {"registered", "removed"} =>
                                status'[g] \in {"registered", "removed"}
        BY <2>1 DEF TypeOK
      <3>5. \A g \in Hook, n \in Nat :
               (\A i \in 1..Len(hooks) : hooks[i] = g => i < n) =>
                  \A i \in 1..Len(hooks') : hooks'[i] = g => i < n
        BY <3>2, <3>3
      <3>6. QED
        BY <2>1, <3>1, <3>4, <3>5 DEF Passed
    <2>4. PutOnce'
      BY <2>1, <2>3 DEF PutOnce, TypeOK
    <2>5. QED
      BY <2>2, <2>4
  <1>11. CASE UNCHANGED vars
    BY <1>1, <1>11 DEF vars, registering
  <1>12. ASSUME NEW p \in Package,
                \/ processEncPkg(p) \/ refusePkg(p)
                \/ SweepPast(p) \/ SweepOld(p)
         PROVE  OrderInv'
    <2>1. UNCHANGED <<hooks, status, held, put, package_task, hook_task>>
          /\ message_pool' \subseteq message_pool
      BY <1>12 DEF processEncPkg, refusePkg, SweepPast, SweepOld, registering
    <2>2. QED
      BY <1>1, <2>1
  <1>13. CASE ReceiveOld \/ StartSweep
    BY <1>1, <1>13 DEF ReceiveOld, StartSweep, registering
  <1>14. QED
    BY <1>2, <1>3, <1>4, <1>5, <1>7, <1>8, <1>9, <1>10, <1>11, <1>12, <1>13 DEF Next

-----------------------------------------------------------------------------
LEMMA Inductive == Spec => []IInv
  <1>1. Init => TypeOK
    BY HooksAssumption DEF Init, TypeOK, Idle, registering
  <1>2. Init => PoolInv
    BY HooksAssumption DEF Init, PoolInv, InHand, HeldInHand, SeenFirst, NothingVanishes,
       PoolIsUndelivered, Delivered, Idle, registering
  <1>3. Init => OrderInv
    BY HooksAssumption DEF Init, OrderInv, ListedIsRegistered, ListedOnce, PutOnce, Idle,
       registering
  <1>4. IInv /\ [Next]_vars => IInv'
    BY TypeStep, PoolStep, OrderStep DEF IInv, OrderInv
  <1>5. QED
    BY <1>1, <1>2, <1>3, <1>4, PTL DEF IInv, Spec

(* A package that package_task took in reaches a hook, waits in the pool,  *)
(* or was dropped as too old, whatever the overlap of submit_to_hooks,     *)
(* _hook_task and any number of register_hook.                             *)
THEOREM NothingIsMislaid == Spec => []NothingVanishes
  <1>1. IInv => NothingVanishes
    BY DEF IInv, PoolInv
  <1>2. QED
    BY <1>1, Inductive, PTL

(* A package that reached a hook stays in the pool only as long as the     *)
(* task that put it is still busy with it.                                 *)
THEOREM PoolIsForOthers == Spec => []PoolIsUndelivered
  <1>1. IInv => PoolIsUndelivered
    BY DEF IInv, PoolInv
  <1>2. QED
    BY <1>1, Inductive, PTL

(* A package that one hook matches reaches it once: its scan, the sweep    *)
(* and the submission never both put it, whatever hooks are added or       *)
(* removed while _check_hooks walks over them.                             *)
THEOREM OneHookOnce == Spec => []OnceEach
  <1>1. IInv => OnceEach
    <2> SUFFICES ASSUME IInv, NEW h \in Hook, NEW p \in Package, put[h][p] > 1
                 PROVE  \E g \in Hook \ {h} : <<g, p>> \in Matches
      BY DEF OnceEach
    <2>1. put[h][p] \in Nat
      BY DEF IInv, TypeOK
    <2>2. ~OnlyMatch(h, p)
      BY <2>1 DEF IInv, OrderInv, PutOnce
    <2>3. QED
      BY <2>2 DEF OnlyMatch
  <1>2. QED
    BY <1>1, Inductive, PTL

=============================================================================
