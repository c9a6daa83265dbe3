----------------------------- MODULE TargetPools -----------------------------
(***************************************************************************)
(* Several targets on one storage: what each IPPool keeps there is found   *)
(* by the NAME of its target (self._config.name), which the configuration  *)
(* does not require to be unique, and is a queue with an entry for every   *)
(* element of the list, which may name an address twice.  The inside of    *)
(* one pool is IPPool.tla; here an address is in the queue, in use, or     *)
(* resting after a use, whatever that use came to.                         *)
(***************************************************************************)
EXTENDS Integers, SequencesExt

VARIABLES
    targets,        \* the configured targets: name, addresses, what they match
    started,        \* how many of their managers have started
    queues          \* the storage: for each name in use its queue of addresses

poolVars == <<targets, started, queues>>

\* the key of a target
Key(i) == targets[i].name

TargetPoolsInit ==
    /\ started = 0
    /\ queues = <<>>

\* the storage with the list of target i under its key
Pushed(i) ==
    [name \in DOMAIN queues \cup {Key(i)} |->
       IF name = Key(i) THEN targets[i].addresses ELSE queues[name]]

\* init_target is true for the first manager of a name, which pushes its list
StartManager ==
    /\ started < Len(targets)
    /\ LET i == started + 1 IN
          /\ started' = i
          /\ queues' = IF Key(i) \in DOMAIN queues THEN queues ELSE Pushed(i)
    /\ UNCHANGED targets

Take(i, a) ==
    /\ queues[Key(i)] # <<>>
    /\ a = Head(queues[Key(i)])
    /\ queues' = [queues EXCEPT ![Key(i)] = Tail(@)]
    /\ UNCHANGED <<targets, started>>

\* variant: an address that is in the queue already is not pushed again
ReturnOnce(i, a) ==
    /\ queues' = IF a \in ToSet(queues[Key(i)]) THEN queues
                 ELSE [queues EXCEPT ![Key(i)] = Append(@, a)]
    /\ UNCHANGED <<targets, started>>

Return(i, a) ==
    /\ queues' = [queues EXCEPT ![Key(i)] = Append(@, a)]
    /\ UNCHANGED <<targets, started>>

Times(a, s) == Cardinality({n \in DOMAIN s : s[n] = a})
=============================================================================
