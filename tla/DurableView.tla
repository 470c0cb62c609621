---------------------------- MODULE DurableView ----------------------------
(***************************************************************************)
(* What a persistent store promises about a crash: the values a reopening  *)
(* would find.  A write puts a newer version under one key, at one moment; *)
(* keys disappear only while an operation that was asked to drop them is   *)
(* under way; nothing else (flush, checkpoint, crash, reopening) changes   *)
(* what is found.  An older version never comes back.                      *)
(***************************************************************************)
EXTENDS Naturals

CONSTANT Keys

VARIABLES
    view,     \* key -> version a reopening would find, 0 for none
    latest,   \* key -> the last version written under it
    allowed   \* the keys that the operation under way was asked to drop

vars == <<view, latest, allowed>>

Init ==
    /\ view = [k \in Keys |-> 0]
    /\ latest = [k \in Keys |-> 0]
    /\ allowed = {}

Put(k) ==
    /\ latest'[k] > latest[k]
    /\ latest' = [latest EXCEPT ![k] = latest'[k]]
    /\ view' = [view EXCEPT ![k] = latest'[k]]
    /\ UNCHANGED allowed

\* Keys that were asked for may go; the operation that asks starts, goes on,
\* ends, or dies in a crash.
Forget ==
    /\ LET old == view
           new == view'
       IN  \A k \in Keys : new[k] = old[k] \/ (k \in allowed /\ new[k] = 0)
    /\ allowed' \subseteq Keys
    /\ UNCHANGED latest

Next == (\E k \in Keys : Put(k)) \/ Forget

Spec == Init /\ [][Next]_vars
=============================================================================
