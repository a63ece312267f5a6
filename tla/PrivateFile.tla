------------------------------ MODULE PrivateFile ------------------------------
(****************************************************************************)
(* What the atomic private file promises: readers see one whole document;   *)
(* a write replaces it in one step and is durable when it returns; a crash  *)
(* leaves a document that was current since the last durable write.         *)
(****************************************************************************)
CONSTANTS Values, Absent   \* the documents; a path that names no file

VARIABLES
    current,   \* the document under the path
    possible   \* the documents a crash may leave under the path

vars == <<current, possible>>

Init == current = Absent /\ possible = {Absent}

(* A rename puts a new document in place; until the directory is synced a   *)
(* crash may still uncover an older one.                                    *)
Replace ==
    /\ current' \in Values
    /\ possible' = possible \cup {current'}

(* The directory is on disk.                                                *)
Sync == current' = current /\ possible' = {current}

Crash == current' \in possible /\ possible' = {current'}

Next == Replace \/ Sync \/ Crash

Spec == Init /\ [][Next]_vars
================================================================================
