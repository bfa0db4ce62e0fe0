------------------------------- MODULE Mailbox -------------------------------
(***************************************************************************)
(* What a chat promises its sub-agents: a result is put into the mailbox   *)
(* once, waits there, and is given to one reply, alone or together with    *)
(* others that wait.  Nothing that was given comes back or is given again. *)
(***************************************************************************)
EXTENDS Naturals

CONSTANT Items

VARIABLES waiting,  \* the items in the mailbox
          given     \* how often each was given to a reply

Init == waiting = {} /\ given = [i \in Items |-> 0]

Put(i) == /\ i \notin waiting /\ given[i] = 0
          /\ waiting' = waiting \cup {i} /\ UNCHANGED given

Take(batch) == /\ batch # {} /\ batch \subseteq waiting
               /\ waiting' = waiting \ batch
               /\ given' = [i \in Items |-> IF i \in batch THEN given[i] + 1 ELSE given[i]]

Next == (\E i \in Items : Put(i)) \/ (\E batch \in SUBSET Items : Take(batch))

Spec == Init /\ [][Next]_<<waiting, given>>
=============================================================================
