----------------------------- MODULE SharedCheck -----------------------------
(***************************************************************************)
(* The comparison of a poll with the preproducts a group has generated for *)
(* it: TripleGeneration and then FindCheck, with the shares each party     *)
(* added to its own store in between.                                      *)
(***************************************************************************)
EXTENDS TripleGeneration, FindCheck

ASSUME WorkersAssumption == Worker \subseteq Group

vars == <<generationVars, checkVars>>

TypeOK == GenerationTypeOK /\ CheckTypeOK

Init == GenerationInit /\ CheckInit

(* The random number hides the difference unless it is 0, which is all but  *)
(* impossible with the program's modulus.                                   *)
usable == open([p \in Group |-> batch[p].random], Threshold) # 0

(* The leader uses a batch that all the group has answered for; nothing is  *)
(* left of the generation.  get_chunk takes the numbers out of the batch.   *)
Check ==
    /\ \A p \in Group : round[p] = "added" /\ batch[p] # None
    /\ usable
    /\ CheckTask([p \in Worker |-> batch[p]])
    /\ batch' = [p \in Group |-> IF p \in Worker THEN None ELSE batch[p]]
    /\ drawn' = [p \in Group |-> None] /\ rand' = [p \in Group |-> None]
    /\ z_high' = [p \in Group |-> None]
    /\ UNCHANGED round

Next ==
    \/ GenerationNext /\ UNCHANGED checkVars
    \/ Check
    \/ CheckNext /\ UNCHANGED generationVars

Spec == Init /\ [][Next]_vars

=============================================================================
