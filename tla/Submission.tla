---------------------------- MODULE Submission ----------------------------
(***************************************************************************)
(* What the submit handlers promise to clients and to the worker: a client *)
(* is answered once; "created" means that the document is stored; nothing  *)
(* is stored after the answer; a document is processed only if its client  *)
(* was not refused, and then its content is found, unless it was removed.  *)
(***************************************************************************)
EXTENDS Integers

CONSTANT Documents

VARIABLES
    place,    \* per document: absent, stored or gone
    reply,    \* the status code its client got, 0 before that
    outcome   \* what the worker found: none yet, the text, or that the document is gone

Init ==
    /\ place = [d \in Documents |-> "absent"]
    /\ reply = [d \in Documents |-> 0]
    /\ outcome = [d \in Documents |-> "none"]

\* A store that raised after its commit is a failure to the client.
Store(d) ==
    /\ place[d] = "absent" /\ reply[d] = 0
    /\ place' = [place EXCEPT ![d] = "stored"]
    /\ reply' \in {reply, [reply EXCEPT ![d] = 502]}
    /\ UNCHANGED outcome

Accept(d) ==
    /\ reply[d] = 0 /\ place[d] # "absent"
    /\ reply' = [reply EXCEPT ![d] = 201]
    /\ UNCHANGED <<place, outcome>>

Refuse(d) ==
    /\ reply[d] = 0 /\ outcome[d] = "none"
    /\ \/ reply' = [reply EXCEPT ![d] = 502]
       \/ place[d] = "absent" /\ reply' = [reply EXCEPT ![d] = 400]
    /\ UNCHANGED <<place, outcome>>

Process(d) ==
    /\ reply[d] \in {0, 201} /\ place[d] # "absent" /\ outcome[d] = "none"
    /\ \/ outcome' = [outcome EXCEPT ![d] = "text"]
       \/ place[d] = "gone" /\ outcome' = [outcome EXCEPT ![d] = "gone"]
    /\ UNCHANGED <<place, reply>>

Remove(d) ==
    /\ place[d] = "stored"
    /\ place' = [place EXCEPT ![d] = "gone"]
    /\ UNCHANGED <<reply, outcome>>

Next ==
    \E d \in Documents : Store(d) \/ Accept(d) \/ Refuse(d) \/ Process(d) \/ Remove(d)

Spec == Init /\ [][Next]_<<place, reply, outcome>>
=============================================================================
